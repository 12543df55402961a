--------------------------- MODULE SessionsProofs ---------------------------
(***************************************************************************)
(* Theorems about the sessions of a daemon, for any connections, names,    *)
(* listeners and choices of commands: the daemon uses its registry as      *)
(* Registry allows, so that the theorems of RegistryProofs are about the   *)
(* daemon too, and the registry's entries are those of its members.        *)
(***************************************************************************)
EXTENDS Sessions, RegistryProofs

(* What every registrar is: one that is open and not refused has nothing   *)
(* of a refused line, and no nickname but a valid one.                     *)
Sound(r) ==
  /\ r \in RegistrarState
  /\ r.connected /\ r.registrationType = "NONE" =>
       r.given \subseteq {"password"} /\ r.linkStamp = -1
  /\ r.connected /\ r.registrationType \in {"NONE", "USER"} =>
       r.name \in ValidNames \cup {NoName}

LEMMA NewIsSound ==
  ASSUME NEW flags \in SUBSET Kinds
  PROVE  Sound(NewRegistrar(flags))
  BY DEF Sound, NewRegistrar, RegistrarState, Kinds, Fields

(* A registrar that has been sent an ERROR or a goodbye is sound, for it is*)
(* not open.                                                               *)
LEMMA ClosedIsSound ==
  ASSUME NEW r \in RegistrarState
  PROVE  /\ Sound(sendError(r)) /\ sendError(r) \in RegistrarState
         /\ Sound(goodbye(r))
  BY DEF Sound, sendError, goodbye, RegistrarState

LEMMA AdmitIsSound ==
  ASSUME NEW r, Sound(r), NEW kind, NEW outcomes,
         r.registrationType = "NONE" => \A s \in outcomes : Sound(s)
  PROVE  \A s \in Admit(r, kind, outcomes) : Sound(s)
<1>1. r \in RegistrarState
  BY DEF Sound
<1> QED
  BY <1>1, ClosedIsSound DEF Admit

(* The commands that may come at any time leave a sound registrar sound.   *)
LEMMA CommandsAreSound ==
  ASSUME NEW r, Sound(r), NEW used
  PROVE  /\ \A s \in parseCAPAB(r) : Sound(s)
         /\ \A s \in parseNICK(r, used) : Sound(s)
         /\ \A s \in parsePASS(r) : Sound(s)
         /\ \A s \in parsePONG(r) : Sound(s)
         /\ \A s \in parseQUIT(r) : Sound(s)
<1>1. r \in RegistrarState
  BY DEF Sound
<1>2. \A s \in parseNICK(r, used) : Sound(s)
  <2>1. \A n \in ValidNames \cup {NoName}, pinged \in BOOLEAN :
           Sound([r EXCEPT !.name = n, !.pinged = pinged])
    BY <1>1, BaseAssumption DEF Sound, RegistrarState
  <2>2. (r.pinged \/ r.pongsLeft > 0) \in BOOLEAN
    OBVIOUS
  <2>3. \A n \in ValidNames \cup {NoName} :
           Sound([r EXCEPT !.name = n, !.pinged = r.pinged \/ r.pongsLeft > 0])
    BY <2>1, <2>2
  <2> QED
    BY <2>3 DEF parseNICK
<1>3. \A s \in parsePASS(r) : Sound(s)
  BY <1>1, ClosedIsSound DEF parsePASS, Sound, RegistrarState, Fields
<1>4. \A s \in parsePONG(r) : Sound(s)
  BY <1>1, ClosedIsSound DEF parsePONG, Sound, RegistrarState
<1> QED
  BY <1>1, <1>2, <1>3, <1>4, ClosedIsSound DEF parseCAPAB, parseQUIT

(* So do the commands that name the kind of a peer.                        *)
LEMMA IIRCNIsSound ==
  ASSUME NEW r, Sound(r)
  PROVE  \A s \in parseIIRCN(r) : Sound(s)
<1> DEFINE stored(n, text, stamp) ==
             [r EXCEPT !.name = n, !.linkStamp = stamp,
                       !.given = Assigned(r, {"hostname", "protocol"}, text)]
           texts == {{"protocol"}, {"hostname", "protocol"}}
           outcomes ==
             {r, sendError(r)}
               \cup {sendError(stored(n, text, 0)) : n \in Names \cup {NoName}, text \in texts}
               \cup {[stored(n, text, 1) EXCEPT !.registrationType = "IIRCN"] :
                       n \in Names \cup {NoName}, text \in texts}
<1>1. r \in RegistrarState
  BY DEF Sound
<1>2. \A n \in Names \cup {NoName}, text \in texts, stamp \in {0, 1} :
         stored(n, text, stamp) \in RegistrarState
  BY <1>1 DEF RegistrarState, Assigned, Fields
<1>3. \A n \in Names \cup {NoName}, text \in texts :
         Sound([stored(n, text, 1) EXCEPT !.registrationType = "IIRCN"])
  BY <1>1, <1>2, ZenonT(40) DEF Sound, RegistrarState, Kinds
<1>4. \A n \in Names \cup {NoName}, text \in texts : Sound(sendError(stored(n, text, 0)))
  BY <1>2, ClosedIsSound
<1>5. parseIIRCN(r) = Admit(r, "IIRCN", outcomes)
  BY DEF parseIIRCN
<1> HIDE DEF stored, texts
<1>6. \A s \in outcomes : Sound(s)
  BY <1>1, <1>3, <1>4, ClosedIsSound
<1> HIDE DEF outcomes
<1> QED
  BY <1>5, <1>6, AdmitIsSound

LEMMA SERVERIsSound ==
  ASSUME NEW r, Sound(r)
  PROVE  \A s \in parseSERVER(r) : Sound(s)
<1> DEFINE named(text) == [r EXCEPT !.given = Assigned(r, {"hostname"}, text)]
           texts == {{}, {"hostname"}}
           versioned(text, stamp) ==
             [named(text) EXCEPT !.registrationType = "SERVER",
                !.linkStamp = stamp, !.given = @ \cup {"protocol"}]
           outcomes ==
             {r} \cup {sendError(named(text)) : text \in texts}
               \cup {[named(text) EXCEPT !.registrationType = "SERVER"] : text \in texts}
               \cup {versioned(text, stamp) : text \in texts, stamp \in {-1, 0, 1}}
<1>1. r \in RegistrarState
  BY DEF Sound
<1>2. \A text \in texts : named(text) \in RegistrarState
  BY <1>1 DEF RegistrarState, Assigned, Fields
<1>3. \A text \in texts : Sound([named(text) EXCEPT !.registrationType = "SERVER"])
  BY <1>1, <1>2 DEF Sound, RegistrarState, Kinds
<1>4. \A text \in texts, stamp \in {-1, 0, 1} : Sound(versioned(text, stamp))
  <2>1. ASSUME NEW q \in RegistrarState, NEW stamp \in {-1, 0, 1}
        PROVE  Sound([q EXCEPT !.registrationType = "SERVER",
                        !.linkStamp = stamp, !.given = @ \cup {"protocol"}])
    BY DEF Sound, RegistrarState, Kinds, Fields
  <2> HIDE DEF named
  <2> QED
    BY <1>2, <2>1
<1>5. \A text \in texts : Sound(sendError(named(text)))
  BY <1>2, ClosedIsSound
<1>6. parseSERVER(r) = Admit(r, "SERVER", outcomes)
  BY DEF parseSERVER
<1> HIDE DEF named, texts, versioned
<1>7. \A s \in outcomes : Sound(s)
  BY <1>3, <1>4, <1>5
<1> HIDE DEF outcomes
<1> QED
  BY <1>6, <1>7, AdmitIsSound

LEMMA SERVICEIsSound ==
  ASSUME NEW r, Sound(r)
  PROVE  \A s \in parseSERVICE(r) : Sound(s)
<1> DEFINE outcome(text) ==
             [r EXCEPT !.registrationType = "SERVICE",
                       !.given = Assigned(r, {"username", "distribution"}, text)]
           texts == SUBSET {"username", "distribution"}
           outcomes == {r} \cup {outcome(text) : text \in texts}
<1>1. r \in RegistrarState
  BY DEF Sound
<1>2. \A text \in texts : Sound(outcome(text))
  BY <1>1 DEF Sound, RegistrarState, Kinds, Fields, Assigned
<1>3. parseSERVICE(r) = Admit(r, "SERVICE", outcomes)
  BY DEF parseSERVICE
<1> HIDE DEF outcome, texts
<1>4. \A s \in outcomes : Sound(s)
  BY <1>2
<1> HIDE DEF outcomes
<1> QED
  BY <1>3, <1>4, AdmitIsSound

LEMMA USERIsSound ==
  ASSUME NEW r, Sound(r)
  PROVE  \A s \in parseUSER(r) : Sound(s)
<1> DEFINE outcome(text) ==
             [r EXCEPT !.registrationType = "USER",
                       !.given = Assigned(r, {"username", "hostname"}, text)]
           texts == SUBSET {"username", "hostname"}
           outcomes == {r} \cup {outcome(text) : text \in texts}
<1>1. r \in RegistrarState
  BY DEF Sound
<1>2. ASSUME r.registrationType = "NONE"
      PROVE  \A text \in texts : Sound(outcome(text))
  BY <1>1, <1>2 DEF Sound, RegistrarState, Kinds, Fields, Assigned
<1>3. parseUSER(r) = Admit(r, "USER", outcomes)
  BY DEF parseUSER
<1> HIDE DEF outcome, texts
<1>4. r.registrationType = "NONE" => \A s \in outcomes : Sound(s)
  BY <1>2
<1> HIDE DEF outcomes
<1> QED
  BY <1>3, <1>4, AdmitIsSound
-----------------------------------------------------------------------------
(* A line of a sound registrar leaves it sound, or is one of the lines that*)
(* are not the registrar's to handle.                                      *)
LEMMA LineParsed ==
  ASSUME NEW c \in Conns, Sound(registrar[c]), Line(c)
  PROVE  \/ Parsing(c) /\ \E r : Sound(r) /\ finish(c, r)
         \/ SERVEROutOfRange(c) \/ handleQUIT(c)
         \/ \E n \in Names : useEntry(c, n)
<1>1. ASSUME NEW command, NEW outcomes, \A s \in outcomes : Sound(s),
             parseMessage(c, command, outcomes)
      PROVE  Parsing(c) /\ \E r : Sound(r) /\ finish(c, r)
  BY <1>1 DEF parseMessage
<1> DEFINE used == {k \in Keys : users[k] # NoConn}
<1>2. CASE CAPAB(c) \/ NICK(c) \/ PASS(c) \/ PONG(c) \/ QUIT(c)
  <2> HIDE DEF used
  <2>1. /\ \A s \in parseCAPAB(registrar[c]) : Sound(s)
        /\ \A s \in parseNICK(registrar[c], used) : Sound(s)
        /\ \A s \in parsePASS(registrar[c]) : Sound(s)
        /\ \A s \in parsePONG(registrar[c]) : Sound(s)
        /\ \A s \in parseQUIT(registrar[c]) : Sound(s)
    BY CommandsAreSound
  <2> QED
    BY <1>1, <1>2, <2>1 DEF CAPAB, NICK, PASS, PONG, QUIT, used
<1>3. CASE IIRCN(c) \/ SERVER(c) \/ SERVICE(c) \/ USER(c)
  BY <1>1, <1>3, IIRCNIsSound, SERVERIsSound, SERVICEIsSound, USERIsSound
     DEF IIRCN, SERVER, SERVICE, USER
<1> QED
  BY <1>2, <1>3 DEF Line

(* The types, strengthened by what is known of every registrar             *)
SessionsSound == SessionsTypeOK /\ \A c \in Conns : Sound(registrar[c])

LEMMA SoundInit == Init => SessionsSound
<1> SUFFICES ASSUME Init
             PROVE  SessionsSound
  OBVIOUS
<1>1. Sound(NewRegistrar({}))
  BY NewIsSound
<1> QED
  BY <1>1 DEF Init, SessionsSound, SessionsTypeOK, Sound, Phases

(* The registrar a hand-over leaves behind is a new one but for the flags  *)
(* of its connection.                                                      *)
LEMMA HandOverSound ==
  ASSUME SessionsSound, NEW c \in Conns, Parsing(c), NEW r, Sound(r),
         NEW p \in {"user", "link"}, handOver(c, r, p)
  PROVE  /\ registrar' \in [Conns -> RegistrarState]
         /\ \A d \in Conns : Sound(registrar'[d])
         /\ phase' \in [Conns -> Phases]
         /\ reading' \in Conns \cup {NoConn}
         /\ \A d \in Conns : phase'[d] = "undefined" => reading' = d
<1> DEFINE q == [NewRegistrar({}) EXCEPT !.connected = r.connected, !.errorSent = r.errorSent]
<1>1. Sound(q) /\ q \in RegistrarState
  BY DEF Sound, NewRegistrar, RegistrarState, Kinds, Fields
<1>2. registrar' = [registrar EXCEPT ![c] = q]
  BY DEF handOver
<1> HIDE DEF q
<1>3. registrar' \in [Conns -> RegistrarState] /\ \A d \in Conns : Sound(registrar'[d])
  BY <1>1, <1>2 DEF SessionsSound, SessionsTypeOK
<1> QED
  BY <1>3, BaseAssumption DEF handOver, Parsing, SessionsSound, SessionsTypeOK, Phases

(* What completes or does not complete a registration keeps the types.     *)
LEMMA FinishSound ==
  ASSUME SessionsSound, NEW c \in Conns, Parsing(c), NEW r, Sound(r), finish(c, r)
  PROVE  SessionsSound'
<1>1. r \in RegistrarState
  BY DEF Sound
<1>2. CASE joinUser(c, r)
  BY <1>2, HandOverSound DEF joinUser, SessionsSound, SessionsTypeOK
<1>3. CASE joinLink(c, r)
  BY <1>3, HandOverSound DEF joinLink, SessionsSound, SessionsTypeOK
<1>4. CASE /\ registrar' = [registrar EXCEPT ![c] = IF Complete(r) THEN sendError(r) ELSE r]
           /\ UNCHANGED <<crowd, phase, reading, welcomed, left, registryVars>>
  BY <1>1, <1>4, ClosedIsSound DEF SessionsSound, SessionsTypeOK
<1> QED
  BY <1>2, <1>3, <1>4 DEF finish

LEMMA SoundNext == SessionsSound /\ [Next]_vars => SessionsSound'
<1> SUFFICES ASSUME SessionsSound, [Next]_vars
             PROVE  SessionsSound'
  OBVIOUS
<1>1. CASE UNCHANGED vars
  BY <1>1 DEF vars, sessionVars, SessionsSound, SessionsTypeOK
<1>2. ASSUME NEW c \in Conns, newConnection(c)
      PROVE  SessionsSound'
  <2>1. crowd.listener \in SUBSET Kinds
    BY SessionsAssumption DEF SessionsSound, SessionsTypeOK
  <2>2. Sound(NewRegistrar(crowd.listener)) /\ NewRegistrar(crowd.listener) \in RegistrarState
    BY <2>1, NewIsSound DEF Sound
  <2> QED
    BY <1>2, <2>2 DEF newConnection, SessionsSound, SessionsTypeOK, Phases
<1>3. ASSUME NEW c \in Conns, beginChunk(c) \/ endChunk(c)
      PROVE  SessionsSound'
  BY <1>3, BaseAssumption DEF beginChunk, endChunk, SessionsSound, SessionsTypeOK
<1>4. ASSUME NEW c \in Conns, drop(c)
      PROVE  SessionsSound'
  <2>1. Sound(NewRegistrar({})) /\ NewRegistrar({}) \in RegistrarState
    BY NewIsSound DEF Sound
  <2> QED
    BY <1>4, <2>1 DEF drop, SessionsSound, SessionsTypeOK, Phases
<1>5. ASSUME NEW c \in Conns, Line(c)
      PROVE  SessionsSound'
  <2>1. Sound(registrar[c])
    BY DEF SessionsSound
  <2>2. CASE Parsing(c) /\ \E r : Sound(r) /\ finish(c, r)
    BY <2>2, FinishSound
  <2>3. CASE SERVEROutOfRange(c) \/ \E n \in Names : useEntry(c, n)
    BY <2>3 DEF SERVEROutOfRange, useEntry, Parsing, SessionsSound, SessionsTypeOK, Phases
  <2>4. CASE handleQUIT(c)
    <3>1. Sound(sendError(registrar[c])) /\ sendError(registrar[c]) \in RegistrarState
      BY <2>1, ClosedIsSound DEF Sound
    <3> QED
      BY <2>4, <3>1 DEF handleQUIT, SessionsSound, SessionsTypeOK
  <2> QED
    BY <1>5, <2>1, <2>2, <2>3, <2>4, LineParsed
<1> QED
  BY <1>1, <1>2, <1>3, <1>4, <1>5 DEF Next

LEMMA SoundInvariant == Spec => []SessionsSound
  BY SoundInit, SoundNext, PTL DEF Spec

(* Every variable keeps its type, through all commands of the registrar and*)
(* all that becomes of a connection.                                       *)
THEOREM SessionsAreTyped == Spec => []SessionsTypeOK
  BY SoundInvariant, PTL DEF SessionsSound

(* What a refused SERVER or IIRCN command stored is not used by an open    *)
(* connection (Protocol::parseSERVER, parseIIRCN).                         *)
THEOREM RefusedLinesLeaveNothing == Spec => []NothingOfRefusedLines
<1>1. SessionsSound => NothingOfRefusedLines
  BY DEF SessionsSound, NothingOfRefusedLines, Sound
<1> QED
  BY <1>1, SoundInvariant, PTL
-----------------------------------------------------------------------------
(* A step either makes a user, or is the QUIT of one, or leaves the        *)
(* registry, its members and the users' open connections as they are.      *)
Quiet ==
  /\ UNCHANGED <<welcomed, left, registryVars>>
  /\ \A u \in Conns : phase'[u] = "user" => phase[u] = "user" /\ registrar'[u] = registrar[u]

LEMMA KindsOfSteps ==
  ASSUME SessionsSound, [Next]_vars
  PROVE  \/ Quiet
         \/ \E c \in Conns : handleQUIT(c)
         \/ \E c \in Conns : \E r : Parsing(c) /\ Sound(r) /\ joinUser(c, r)
<1>1. CASE UNCHANGED vars
  BY <1>1 DEF vars, sessionVars, Quiet
<1>2. ASSUME NEW c \in Conns, newConnection(c) \/ drop(c)
      PROVE  Quiet
  BY <1>2 DEF newConnection, drop, Quiet, SessionsSound, SessionsTypeOK
<1>3. ASSUME NEW c \in Conns, beginChunk(c) \/ endChunk(c)
      PROVE  Quiet
  BY <1>3 DEF beginChunk, endChunk, Quiet
<1>4. ASSUME NEW c \in Conns, SERVEROutOfRange(c) \/ \E n \in Names : useEntry(c, n)
      PROVE  Quiet
  BY <1>4 DEF SERVEROutOfRange, useEntry, Quiet, SessionsSound, SessionsTypeOK
<1>5. ASSUME NEW c \in Conns, NEW r, Parsing(c), finish(c, r), ~joinUser(c, r)
      PROVE  Quiet
  <2>1. CASE joinLink(c, r)
    BY <1>5, <2>1 DEF joinLink, handOver, Parsing, Quiet, SessionsSound, SessionsTypeOK
  <2>2. CASE ~joinLink(c, r)
    <3>1. /\ registrar' = [registrar EXCEPT ![c] = IF Complete(r) THEN sendError(r) ELSE r]
          /\ UNCHANGED <<crowd, phase, reading, welcomed, left, registryVars>>
      BY <1>5, <2>2 DEF finish
    <3> QED
      BY <1>5, <3>1 DEF Parsing, Quiet, SessionsSound, SessionsTypeOK
  <2> QED
    BY <2>1, <2>2
<1>6. \A c \in Conns : Sound(registrar[c])
  BY DEF SessionsSound
<1>7. CASE Next
  <2>1. PICK c \in Conns :
          newConnection(c) \/ beginChunk(c) \/ Line(c) \/ endChunk(c) \/ drop(c)
    BY <1>7 DEF Next
  <2>2. CASE Line(c)
    BY <1>4, <1>5, <1>6, <2>2, LineParsed
  <2> QED
    BY <1>2, <1>3, <2>1, <2>2
<1> QED
  BY <1>1, <1>7

(* A step of the daemon is a step of its registry, or none of it.          *)
LEMMA RegistryStep == SessionsSound /\ [Next]_vars => [RegistryNext]_registryVars
<1> SUFFICES ASSUME SessionsSound, [Next]_vars
             PROVE  [RegistryNext]_registryVars
  OBVIOUS
<1>1. CASE Quiet
  BY <1>1 DEF Quiet, registryVars
<1>2. CASE \E c \in Conns : handleQUIT(c)
  BY <1>2 DEF handleQUIT, RegistryNext
<1>3. ASSUME NEW c \in Conns, NEW r, Sound(r), joinUser(c, r)
      PROVE  RegistryNext
  <2>1. r.name \in Names
    BY <1>3 DEF Sound, RegistrarState, joinUser, handOver, MayHandOver, Complete
  <2> QED
    BY <1>3, <2>1 DEF joinUser, RegistryNext
<1> QED
  BY <1>1, <1>2, <1>3, KindsOfSteps

(* The daemon uses its registry as Registry allows: whatever connections   *)
(* do, the list and its counters change by whole additions and whole quits *)
(* only.                                                                   *)
THEOREM SessionsImplementRegistry == Spec => ImplementsRegistry
<1>1. Init => RegistryInit
  BY DEF Init
<1> QED
  BY <1>1, RegistryStep, SoundInvariant, PTL DEF Spec, ImplementsRegistry, RegistrySpec

(* So the registry's theorems hold in the daemon: keys match nicknames, and*)
(* the counters are off by the quits that found nobody.                    *)
COROLLARY DaemonKeepsItsRegistry == Spec => []KeysMatchNicknames /\ []DriftIsStray
  BY SessionsImplementRegistry, RegistryTypesAndKeys, RegistryCounts, PTL
     DEF ImplementsRegistry
-----------------------------------------------------------------------------
(* Who is a member and who is listed.  Users of a protocol, welcomed users *)
(* and users that left have a nickname, so that no user is made of them a  *)
(* second time.                                                            *)
MembersInv ==
  /\ \A u \in Conns : phase[u] = "user" \/ u \in left => nickname[u] # NoName
  /\ \A u \in welcomed : nickname[u] \in ValidNames
  /\ EntriesAreMembers
  /\ LostOnlyToNamesakes
  /\ RefusedOnlyForNamesakes

(* All that is known of sessions and their registry                        *)
SessionsInv == SessionsSound /\ RegistryInv /\ MembersInv

LEMMA SessionsInvInit == Init => SessionsInv
<1> SUFFICES ASSUME Init
             PROVE  SessionsInv
  OBVIOUS
<1>1. SessionsSound /\ RegistryInv
  BY SoundInit, RegistryInvInit DEF Init
<1>2. MembersInv
  BY DEF Init, RegistryInit, MembersInv, EntriesAreMembers, LostOnlyToNamesakes,
         RefusedOnlyForNamesakes, Registered
<1> QED
  BY <1>1, <1>2 DEF SessionsInv

LEMMA QuietMembers ==
  ASSUME SessionsInv, Quiet
  PROVE  MembersInv'
  BY DEF SessionsInv, MembersInv, Quiet, registryVars, EntriesAreMembers,
         LostOnlyToNamesakes, RefusedOnlyForNamesakes, Registered, Namesakes

(* The QUIT of a user takes away the entry under its nickname: its own, or *)
(* a namesake's, which is what LostOnlyToNamesakes says.                   *)
LEMMA QuitMembers ==
  ASSUME SessionsInv, NEW c \in Conns, handleQUIT(c)
  PROVE  MembersInv'
<1> DEFINE key == IRCtoLower[nickname[c]]
<1>1. /\ nickname' = nickname /\ welcomed' = welcomed /\ phase' = phase
      /\ left' = left \cup {c}
      /\ nickname[c] \in Names
      /\ welcomed \subseteq Conns /\ left \subseteq Conns
  BY DEF handleQUIT, quit, SessionsInv, SessionsSound, SessionsTypeOK, RegistryInv, RegistryTypeOK
<1>2. users' = [users EXCEPT ![key] = NoConn] /\ key \in Keys
  BY <1>1, BaseAssumption
     DEF handleQUIT, quit, findUser, SessionsInv, RegistryInv, RegistryTypeOK
<1>3. /\ \A k \in Keys : users'[k] = IF k = key THEN NoConn ELSE users[k]
      /\ \A u \in Conns : registrar'[u].connected => registrar'[u] = registrar[u]
  BY <1>2 DEF handleQUIT, sendError, SessionsInv, SessionsSound, SessionsTypeOK,
              RegistryInv, RegistryTypeOK, RegistrarState
<1>4. EntriesAreMembers'
  <2> SUFFICES ASSUME NEW k \in Keys, users'[k] # NoConn
               PROVE  users'[k] \in welcomed' \ left'
    BY DEF EntriesAreMembers, Registered
  <2>1. k # key /\ users'[k] = users[k]
    BY <1>3
  <2>2. users[k] \in welcomed \ left /\ IRCtoLower[nickname[users[k]]] = k
    BY <2>1 DEF SessionsInv, MembersInv, EntriesAreMembers, RegistryInv, KeysMatchNicknames, Registered
  <2> QED
    BY <1>1, <2>1, <2>2
<1>5. LostOnlyToNamesakes'
  <2> SUFFICES ASSUME NEW u \in welcomed \ left, u # c
               PROVE  \/ users'[IRCtoLower[nickname[u]]] = u
                      \/ \E v \in left \cup {c} : Namesakes(u, v)
    BY <1>1 DEF LostOnlyToNamesakes, Namesakes
  <2>1. nickname[u] \in Names /\ IRCtoLower[nickname[u]] \in Keys
    BY BaseAssumption DEF SessionsInv, MembersInv
  <2>2. CASE IRCtoLower[nickname[u]] = key
    BY <1>1, <2>1, <2>2, BaseAssumption DEF Namesakes
  <2>3. CASE IRCtoLower[nickname[u]] # key
    BY <1>3, <2>1, <2>3 DEF SessionsInv, MembersInv, LostOnlyToNamesakes
  <2> QED
    BY <2>2, <2>3
<1>6. RefusedOnlyForNamesakes'
  BY <1>1, <1>3 DEF SessionsInv, MembersInv, RefusedOnlyForNamesakes, Namesakes
<1> QED
  BY <1>1, <1>4, <1>5, <1>6, BaseAssumption DEF SessionsInv, MembersInv

(* A user that is made is welcomed and listed, or refused for a member that*)
(* has its nickname.                                                       *)
LEMMA JoinMembers ==
  ASSUME SessionsInv, NEW c \in Conns, NEW r, Parsing(c), Sound(r), joinUser(c, r)
  PROVE  MembersInv'
<1> DEFINE key == IRCtoLower[r.name]
<1>1. /\ r.name \in Names /\ key \in Keys
      /\ r.connected => r.name \in ValidNames
      /\ r.name # NoName
  BY BaseAssumption DEF Sound, RegistrarState, joinUser, handOver, MayHandOver, Complete
<1>2. /\ nickname[c] = NoName /\ left' = left
      /\ \A u \in Conns : nickname'[u] = IF u = c THEN r.name ELSE nickname[u]
      /\ welcomed \subseteq Conns /\ left \subseteq Conns
      /\ c \notin left /\ c \notin welcomed
  BY BaseAssumption DEF joinUser, addUser, SessionsInv, SessionsSound, SessionsTypeOK,
                        RegistryInv, RegistryTypeOK, MembersInv
<1>3. /\ \A u \in Conns : u # c => phase'[u] = phase[u] /\ registrar'[u] = registrar[u]
      /\ registrar'[c].connected = r.connected
  BY DEF joinUser, handOver, SessionsInv, SessionsSound, SessionsTypeOK, NewRegistrar
<1>4. \A u, v \in Conns : Namesakes(u, v) => Namesakes(u, v)'
  BY <1>2 DEF Namesakes
<1>5. \A u \in Conns : phase'[u] = "user" \/ u \in left' => nickname'[u] # NoName
  BY <1>1, <1>2, <1>3 DEF SessionsInv, MembersInv
<1>6. CASE addUserError(r.name) = "NO_ERROR"
  <2>1. /\ users' = [users EXCEPT ![key] = c] /\ users[key] = NoConn
        /\ r.name \in ValidNames /\ welcomed' = welcomed \cup {c}
    BY <1>6 DEF joinUser, addUser, addUserError, findUser
  <2>2. \A k \in Keys : users'[k] = IF k = key THEN c ELSE users[k]
    BY <2>1 DEF SessionsInv, RegistryInv, RegistryTypeOK
  <2>3. EntriesAreMembers'
    BY <1>2, <2>1, <2>2 DEF SessionsInv, MembersInv, EntriesAreMembers, Registered
  <2>4. LostOnlyToNamesakes'
    <3> SUFFICES ASSUME NEW u \in welcomed' \ left'
                 PROVE  \/ users'[IRCtoLower[nickname'[u]]] = u
                        \/ \E v \in left' : Namesakes(u, v)'
      BY DEF LostOnlyToNamesakes
    <3>1. CASE u = c
      BY <1>1, <1>2, <2>2, <3>1
    <3>2. CASE u # c
      <4>1. /\ u \in welcomed \ left /\ u \in Conns
            /\ nickname'[u] = nickname[u] /\ IRCtoLower[nickname[u]] \in Keys
        BY <1>2, <2>1, <3>2, BaseAssumption DEF SessionsInv, MembersInv
      <4>2. CASE users[IRCtoLower[nickname[u]]] = u
        BY <2>1, <2>2, <4>1, <4>2, BaseAssumption
      <4>3. CASE \E v \in left : Namesakes(u, v)
        BY <1>2, <1>4, <4>1, <4>3
      <4> QED
        BY <4>1, <4>2, <4>3 DEF SessionsInv, MembersInv, LostOnlyToNamesakes
    <3> QED
      BY <3>1, <3>2
  <2>5. RefusedOnlyForNamesakes'
    BY <1>2, <1>3, <1>4, <2>1 DEF SessionsInv, MembersInv, RefusedOnlyForNamesakes
  <2> QED
    BY <1>2, <1>5, <2>1, <2>3, <2>4, <2>5 DEF SessionsInv, MembersInv
<1>7. CASE addUserError(r.name) # "NO_ERROR"
  <2>1. users' = users /\ welcomed' = welcomed
    BY <1>7 DEF joinUser, addUser
  <2>2. EntriesAreMembers'
    BY <1>2, <2>1 DEF SessionsInv, MembersInv, EntriesAreMembers, Registered
  <2>3. LostOnlyToNamesakes'
    BY <1>2, <1>4, <2>1 DEF SessionsInv, MembersInv, LostOnlyToNamesakes
  <2>4. ASSUME r.connected
        PROVE  \E v \in welcomed : Namesakes(c, v)'
    <3>1. key \in Registered
      BY <1>1, <1>7, <2>4 DEF addUserError, findUser, Registered
    <3>2. /\ users[key] \in welcomed
          /\ nickname[users[key]] \in ValidNames /\ IRCtoLower[nickname[users[key]]] = key
      BY <3>1 DEF SessionsInv, MembersInv, EntriesAreMembers, RegistryInv, KeysMatchNicknames
    <3> QED
      BY <1>1, <1>2, <3>2, BaseAssumption DEF Namesakes
  <2>5. RefusedOnlyForNamesakes'
    BY <1>2, <1>3, <1>4, <2>1, <2>4 DEF SessionsInv, MembersInv, RefusedOnlyForNamesakes
  <2> QED
    BY <1>2, <1>5, <2>1, <2>2, <2>3, <2>5 DEF SessionsInv, MembersInv
<1> QED
  BY <1>6, <1>7

LEMMA SessionsInvNext == SessionsInv /\ [Next]_vars => SessionsInv'
<1> SUFFICES ASSUME SessionsInv, [Next]_vars
             PROVE  SessionsInv'
  OBVIOUS
<1>1. SessionsSound /\ RegistryInv
  BY DEF SessionsInv
<1>2. SessionsSound'
  BY <1>1, SoundNext
<1>3. RegistryInv'
  BY <1>1, RegistryStep, RegistryInvNext
<1>4. MembersInv'
  BY <1>1, KindsOfSteps, QuietMembers, QuitMembers, JoinMembers
<1> QED
  BY <1>2, <1>3, <1>4 DEF SessionsInv

LEMMA SessionsInvariant == Spec => []SessionsInv
  BY SessionsInvInit, SessionsInvNext, PTL DEF Spec

(* Whom the registry lists was welcomed by the user protocol and has not   *)
(* called User::quit().                                                    *)
THEOREM EntriesFollowMembers == Spec => []EntriesAreMembers
  BY SessionsInvariant, PTL DEF SessionsInv, MembersInv

(* A member that has not quit is listed unless a namesake has quit, because*)
(* User::quit() erases by nickname.                                        *)
THEOREM NamesakesTakeEntries == Spec => []LostOnlyToNamesakes
  BY SessionsInvariant, PTL DEF SessionsInv, MembersInv

(* On an open connection, a user is refused by the registry for one reason:*)
(* a member took the nickname after NICK had found it free.                *)
THEOREM NamesakesAreRefused == Spec => []RefusedOnlyForNamesakes
  BY SessionsInvariant, PTL DEF SessionsInv, MembersInv
=============================================================================
