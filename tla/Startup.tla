------------------------------- MODULE Startup ------------------------------
(***************************************************************************)
(* From main() to the first connection: the launcher (src/ircd/ircd.cpp),  *)
(* the loading and starting of modules (src/lib/modules/), the protocols   *)
(* and loggers they register with the daemon, and the listeners.           *)
(*                                                                         *)
(* The configuration file is a sequence of lines, each a MODULE or a       *)
(* LISTEN; the parser of libAISutil calls the handler of each in turn, and *)
(* the first that is refused ends the process.  A protocol is known by the *)
(* module that registers it.  Three things the sources leave open are      *)
(* chosen in Init ("build"): KINE_DEBUG; what the union of a protocol's    *)
(* description makes of its key (byType: the type shows through, else every*)
(* key is the null pointer that is written last); and whether the library  *)
(* asks for addresses to be reused.  What the environment decides is there *)
(* too: the ports other programs have, whether descriptors 0 to 2 are open,*)
(* and whether the parser keeps the file open.                             *)
(*                                                                         *)
(* Left out: options, --version, the PID file (opened and closed at once), *)
(* and what a refused module's destructor does, since the process ends.    *)
(***************************************************************************)
EXTENDS Listeners, Logging

CONSTANTS
  Builds,       \* the builds and environments considered
  ListenLines,  \* the LISTEN classes
  ModuleLines,  \* the MODULEs: of which module, whether with a class, the
                \* variables that sets, and the words of each LOGMASK
  MaxLines      \* bound on the lines of the configuration file

IRC == {"irc2registrar", "irc2user"}
Modules == IRC \cup {"filelog", "syslog", "channellog"}

(* Libraries that are no modules, or have none                             *)
Broken == {"missing", "null", "invalid", "without symbol"}

ASSUME StartupAssumption ==
  /\ \A b \in Builds :
       {b.debug, b.byType, b.reuse, b.standard, b.fileOpen} \subseteq BOOLEAN
  /\ \A l \in ListenLines :
       /\ l.domain \in STRING
       /\ config(l).ADDRESS \in STRING /\ config(l).PORT.value \in Int
       /\ config(l).PORT.whole \in BOOLEAN
  /\ \A l \in ModuleLines :
       l.module \in Modules \cup Broken /\ l.masks \in Seq(Seq(Words))
  /\ ListenLines \cap ModuleLines = {}

VARIABLES
  phase,        \* how far the process is
  lines,        \* the lines that have been accepted
  modules,      \* ModuleList::modules: the kind of each and what start() said
  references,   \* LibIRC2's count of the modules that use it
  tagMaps,      \* the tag maps registered with the languages
  protocols,    \* Daemon::protocols: who registered each key
  inputSet,     \* Daemon::inFDSET: the descriptors select() is asked about
  instances,    \* the single instances there are
  connection    \* what has become of the first connection, and what its
                \* listener allows

moduleVars == <<modules, references, tagMaps, protocols, loggers, logged>>
startupVars == <<build, descriptors, listeners, phase, lines, moduleVars, inputSet,
                 instances, connection>>

(* What each module says of itself: whether it wants to be loaded once, and*)
(* the variables its class may set, if it takes one.                       *)
fileLogInfo == [unique |-> FALSE, config |-> {"FILENAME", "FORMAT", "LOGMASK", "UTC"}]
syslogInfo ==
  [unique |-> TRUE, config |-> {"CONSOLEOUTPUT", "IDENTITY", "LOGMASK", "SHOWPID"}]
channelLogInfo == [unique |-> FALSE, config |-> {"CHANNELNAME"}]
registrarInfo == [unique |-> TRUE, config |-> {}]
userProtocolInfo == [unique |-> TRUE, config |-> {}]

getInfo == [
  filelog |-> fileLogInfo, syslog |-> syslogInfo, channellog |-> channelLogInfo,
  irc2registrar |-> registrarInfo, irc2user |-> userProtocolInfo]

(* A line gives a class to a module that takes one, with variables it has. *)
classAccepted(l) ==
  l.class => /\ l.module \in DOMAIN getInfo /\ getInfo[l.module].config # {}
             /\ l.variables \subseteq getInfo[l.module].config

protocolType == [irc2registrar |-> "PRIMARY", irc2user |-> "USER"]

NoConnection == [state |-> "none", allowed |-> {}]

(* The containers of the daemon are empty when it is constructed.          *)
DaemonInit ==
  /\ protocols = [k \in {} |-> ""]
  /\ loggers = [m \in {} |-> TRUE] /\ logged = [m \in {} |-> <<>>]
  /\ inputSet = {} /\ connection = NoConnection

StartupInit ==
  /\ build \in Builds
  /\ descriptors = [f \in Fds |->
       IF f \in Standard /\ build.standard THEN "standard" ELSE "free"]
  /\ listeners = <<>>
  /\ phase = "main" /\ lines = <<>>
  /\ modules = <<>> /\ references = 0 /\ tagMaps = {} /\ instances = {}
  /\ DaemonInit
-----------------------------------------------------------------------------
(* What is used must be there: the code follows the pointer to the single  *)
(* instance without a test.                                                *)
Use(these, next) == phase' = IF these \subseteq instances THEN next ELSE "null pointer"

(* The library that loads modules does not start: main() exits as it does  *)
(* when the daemon is not at its normal run level, which it always is, as  *)
(* its constructor sets nothing else.                                      *)
initLibtoolFails ==
  /\ phase = "main"
  /\ phase' = "ERR_DAEMON_INIT"
  /\ UNCHANGED <<build, descriptors, listeners, lines, moduleVars, inputSet,
                 instances, connection>>

(* main() makes the languages; Config::configure() has the parser open the *)
(* file, which may stay open.                                              *)
configure ==
  /\ phase = "main"
  /\ instances' = instances \cup {"Languages"}
  /\ phase' = "configuring"
  /\ descriptors' = IF build.fileOpen THEN [descriptors EXCEPT ![firstFree] = "file"]
                                      ELSE descriptors
  /\ UNCHANGED <<build, listeners, lines, moduleVars, inputSet, connection>>

(* ModuleDescriptor::loadModule(): a library that is not there, or whose   *)
(* module is not one, is refused.  One without the symbol of its function  *)
(* makes a string of a null pointer.                                       *)
descriptor(kind) ==
  CASE kind \in {"missing", "null", "invalid"} -> "refused"
    [] kind = "without symbol" -> "crash"
    [] OTHER -> "loaded"

(* checkKey: a module of this kind is in the list.                         *)
isLoaded(kind) == \E m \in DOMAIN modules : modules[m].kind = kind

(* ModuleList::loadModule(): a library that is there and, if it wants to be*)
(* unique, is not loaded yet.                                              *)
Loads(kind) == descriptor(kind) = "loaded" /\ (getInfo[kind].unique => ~isLoaded(kind))

(* What loading a library makes: the table of the user's commands, which   *)
(* must be there when its configuration is read.                           *)
moduleInit(kind) == IF kind = "irc2user" THEN {"Commands"} ELSE {}

loadModule(l) ==
  /\ Loads(l.module)
  /\ modules' = Append(modules, [kind |-> l.module, masks |-> l.masks, start |-> "no"])
  /\ instances' = instances \cup moduleInit(l.module)

(* A MODULE line or class.  A class is refused by a module that has no     *)
(* configuration of its own.                                               *)
classHandleModule(l) ==
  /\ phase = "configuring" /\ Len(lines) < MaxLines
  /\ classAccepted(l)
  /\ loadModule(l)
  /\ lines' = Append(lines, l)
  /\ UNCHANGED <<build, descriptors, listeners, phase, references, tagMaps, protocols,
                 loggers, logged, inputSet, connection>>

LISTEN(l) ==
  /\ phase = "configuring" /\ Len(lines) < MaxLines
  /\ classHandler(l).ok
  /\ addListeners(classHandler(l).made)
  /\ lines' = Append(lines, l)
  /\ UNCHANGED <<build, phase, moduleVars, inputSet,
                 instances, connection>>

(* A line that its handler refuses ends the process.                       *)
configurationFails ==
  /\ phase = "configuring" /\ Len(lines) < MaxLines
  /\ \/ \E l \in ListenLines : ~classHandler(l).ok
     \/ \E l \in ModuleLines : descriptor(l.module) # "crash" /\ ~(classAccepted(l) /\ Loads(l.module))
  /\ phase' = "ERR_CONFIG_LOAD"
  /\ UNCHANGED <<build, descriptors, listeners, lines, moduleVars, inputSet,
                 instances, connection>>

(* A library that has no symbol for its function                           *)
configurationCrashes ==
  /\ phase = "configuring" /\ Len(lines) < MaxLines
  /\ \E l \in ModuleLines : descriptor(l.module) = "crash"
  /\ phase' = "crashed"
  /\ UNCHANGED <<build, descriptors, listeners, lines, moduleVars, inputSet,
                 instances, connection>>

(* The file is read, and closed.  The daemon makes the registry for itself.*)
initRegistry == {"Registry"}

initDaemon ==
  /\ phase = "configuring"
  /\ phase' = "daemon"
  /\ instances' = instances \cup initRegistry \cup {"Daemon"}
  /\ descriptors' = [f \in Fds |-> IF descriptors[f] = "file" THEN "free" ELSE descriptors[f]]
  /\ UNCHANGED <<build, listeners, lines, moduleVars, inputSet, connection>>

(* The network takes the time from the daemon, and adds itself to the      *)
(* registry.                                                               *)
initNetwork ==
  /\ phase = "daemon"
  /\ Use({"Daemon", "Registry", "Languages"}, "network")
  /\ instances' = instances \cup {"MyNetwork"}
  /\ UNCHANGED <<build, descriptors, listeners, lines, moduleVars, inputSet, connection>>

(* So does the server.                                                     *)
initServer ==
  /\ phase = "network"
  /\ Use({"Daemon", "Registry", "Languages"}, "server")
  /\ instances' = instances \cup {"MyServer"}
  /\ UNCHANGED <<build, descriptors, listeners, lines, moduleVars, inputSet, connection>>

(* The process goes into the background, unless it was built for debugging.*)
background ==
  /\ phase = "server"
  /\ phase' \in {"initialised"} \cup IF build.debug THEN {} ELSE {"ERR_NO_FORK"}
  /\ UNCHANGED <<build, descriptors, listeners, lines, moduleVars, inputSet, instances, connection>>

(* Mutant: the launcher closes descriptors 0 to 2 whatever the build.      *)
closeStandardAlways ==
  /\ phase = "initialised"
  /\ phase' = "startModules"
  /\ descriptors' = [f \in Fds |-> IF f \in Standard THEN "free" ELSE descriptors[f]]
  /\ UNCHANGED <<build, listeners, lines, moduleVars, inputSet,
                 instances, connection>>

(* Descriptors 0 to 2 are closed, whatever they are, except for debugging. *)
closeStandard ==
  /\ phase = "initialised"
  /\ phase' = "startModules"
  /\ descriptors' = [f \in Fds |->
       IF f \in Standard /\ ~build.debug THEN "free" ELSE descriptors[f]]
  /\ UNCHANGED <<build, listeners, lines, moduleVars, inputSet,
                 instances, connection>>
-----------------------------------------------------------------------------
Key(type) == IF build.byType THEN type ELSE "0"

(* Mutant: a protocol takes the place of the one under its key.            *)
registeredAlways(kind) == TRUE

(* Daemon::registerProtocol() accepts the protocol of a module.            *)
registered(kind) == Key(protocolType[kind]) \notin DOMAIN protocols

findProtocol(type) ==
  IF Key(type) \in DOMAIN protocols THEN protocols[Key(type)] ELSE "none"

(* LibIRC2::init(): the first module that asks registers the library's map.*)
initLibrary == IF references = 0 THEN {"libirc2"} ELSE {}

(* start() of the registrar and of the user protocol: what comes behind a  *)
(* protocol that cannot be registered is not done, what came before stays. *)
startProtocol(kind) ==
  /\ references' = references + 1
  /\ tagMaps' = tagMaps \cup initLibrary \cup IF registered(kind) THEN {kind} ELSE {}
  /\ protocols' = IF registered(kind) THEN withEntry(protocols, Key(protocolType[kind]), kind)
                                      ELSE protocols
  /\ UNCHANGED <<descriptors, loggers>>

startRegistrar == startProtocol("irc2registrar") /\ UNCHANGED instances

(* What ISUPPORT tells is put together before the protocol is registered.  *)
startUserProtocol ==
  startProtocol("irc2user") /\ instances' = instances \cup {"ISupport"}

registerLogger(m, ok) == loggers' = withEntry(loggers, m, ok)

(* start() of the file logger: its file may not open, and then it is       *)
(* registered but never ok().                                              *)
startFileLog(m) ==
  /\ \/ AnyFree /\ descriptors' = [descriptors EXCEPT ![firstFree] = "log"]
        /\ registerLogger(m, TRUE)
     \/ UNCHANGED descriptors /\ registerLogger(m, FALSE)
  /\ UNCHANGED <<references, tagMaps, protocols, instances>>

(* start() of the system's logger, which openlog() may give a descriptor   *)
startSyslog(m) ==
  /\ \/ AnyFree /\ descriptors' = [descriptors EXCEPT ![firstFree] = "log"]
     \/ UNCHANGED descriptors
  /\ registerLogger(m, TRUE)
  /\ UNCHANGED <<references, tagMaps, protocols, instances>>

(* start() of the channel logger.  It has no LOGMASK, so it takes nothing. *)
startChannelLog(m) ==
  /\ registerLogger(m, TRUE)
  /\ UNCHANGED <<descriptors, references, tagMaps, protocols, instances>>

start(m) ==
  LET kind == modules[m].kind
  IN \/ kind = "irc2registrar" /\ startRegistrar
     \/ kind = "irc2user" /\ startUserProtocol
     \/ kind = "filelog" /\ startFileLog(m)
     \/ kind = "syslog" /\ startSyslog(m)
     \/ kind = "channellog" /\ startChannelLog(m)

(* startAll() tells the loggers whether module m has started; those of m   *)
(* itself are among them.                                                  *)
logStart(m, ok) ==
  log(<<IF ok THEN "Started" ELSE "Unable to start", m>>,
      IF ok THEN "HOUSEKEEPING" ELSE "WARNING",
      [l \in DOMAIN modules |-> modules[l].masks])

NextModule == Min({m \in DOMAIN modules : modules[m].start = "no"})

(* Mutant: a module that does not start is tried again.                    *)
startModuleAgain ==
  /\ phase = "startModules"
  /\ \E m \in DOMAIN modules : modules[m].start = "no"
  /\ LET m == NextModule
         kind == modules[m].kind
         ok == kind \in IRC => registered(kind)
     IN /\ start(m)
        /\ logStart(m, ok)
        /\ modules' = [modules EXCEPT ![m].start = IF ok THEN "yes" ELSE "no"]
  /\ UNCHANGED <<build, listeners, phase, lines, inputSet, connection>>

(* ModuleList::startAll(), a module a step.  That a module does not start  *)
(* is logged and does not keep the others from it.                         *)
startModule ==
  /\ phase = "startModules"
  /\ \E m \in DOMAIN modules : modules[m].start = "no"
  /\ LET m == NextModule
         kind == modules[m].kind
         ok == kind \in IRC => registered(kind)
     IN /\ start(m)
        /\ logStart(m, ok)
        /\ modules' = [modules EXCEPT ![m].start = IF ok THEN "yes" ELSE "failed"]
  /\ UNCHANGED <<build, listeners, phase, lines, inputSet, connection>>

(* Mutant: the daemon goes on when all modules have started.               *)
modulesStartedOnly ==
  /\ phase = "startModules"
  /\ \A m \in DOMAIN modules : modules[m].start = "yes"
  /\ phase' = "startListeners"
  /\ UNCHANGED <<build, descriptors, listeners, lines, moduleVars, inputSet,
                 instances, connection>>

(* Every module has been asked to start.                                   *)
modulesStarted ==
  /\ phase = "startModules"
  /\ \A m \in DOMAIN modules : modules[m].start # "no"
  /\ phase' = "startListeners"
  /\ UNCHANGED <<build, descriptors, listeners, lines, moduleVars, inputSet,
                 instances, connection>>

(* ListenerList::startAll(), and then Daemon::run() puts every listener    *)
(* into the set, whether it listens or not, and descriptor 0.              *)
startListeners ==
  /\ phase = "startListeners"
  /\ phase' = "running"
  /\ listenAll
  /\ inputSet' = {listeners[i].fd : i \in DOMAIN listeners} \cup {0}
  /\ UNCHANGED <<build, descriptors, lines, moduleVars, instances,
                 connection>>
-----------------------------------------------------------------------------
(* select() succeeds only if every descriptor it is asked about is open.   *)
selectWorks == \A f \in inputSet : descriptors[f] # "free"

(* Daemon::newConnection(), for the first: without a protocol that makes   *)
(* registrars the null pointer is followed.                                *)
firstConnection ==
  /\ phase = "running" /\ connection = NoConnection
  /\ selectWorks
  /\ \E i \in DOMAIN listeners :
       /\ listeners[i].listening
       /\ connection' = [
            state |-> IF findProtocol("PRIMARY") = "irc2registrar" THEN "registering"
                      ELSE "crashed",
            allowed |-> listeners[i].flags]
  /\ UNCHANGED <<build, descriptors, listeners, phase, lines, moduleVars, inputSet, instances>>

(* parseUSER() asks the connection's listener whether users are allowed.   *)
parseUSER ==
  /\ connection.state = "registering"
  /\ connection' = [connection EXCEPT !.state =
       IF "ALLOWUSERS" \in connection.allowed THEN "complete" ELSE "disallowed"]
  /\ UNCHANGED <<build, descriptors, listeners, phase, lines, moduleVars, inputSet, instances>>

(* The registration is complete: the registrar looks for the protocol, and *)
(* sends an error if there is none or it makes nothing.  A new user needs  *)
(* most of the instances.                                                  *)
handOver ==
  /\ connection.state = "complete"
  /\ connection' = [connection EXCEPT !.state =
       IF findProtocol("USER") # "irc2user" THEN "refused"
       ELSE IF {"Commands", "ISupport", "Languages", "Daemon", "Registry", "MyNetwork", "MyServer"}
                 \subseteq instances THEN "user" ELSE "crashed"]
  /\ UNCHANGED <<build, descriptors, listeners, phase, lines, moduleVars, inputSet, instances>>
-----------------------------------------------------------------------------
Progress ==
  \/ initLibtoolFails \/ configure \/ initDaemon \/ initNetwork \/ initServer
  \/ background \/ closeStandard \/ startModule \/ modulesStarted \/ startListeners

StartupNext ==
  \/ Progress
  \/ \E l \in ModuleLines : classHandleModule(l)
  \/ \E l \in ListenLines : LISTEN(l)
  \/ configurationFails \/ configurationCrashes
  \/ firstConnection \/ parseUSER \/ handOver

(* The process goes on by itself as long as it is not at its end.          *)
StartupSpec == StartupInit /\ [][StartupNext]_startupVars /\ WF_startupVars(Progress)
-----------------------------------------------------------------------------
Ends == {"running", "ERR_DAEMON_INIT", "ERR_CONFIG_LOAD", "ERR_NO_FORK", "crashed"}

(* Every variable has a value of its kind, and no two listeners have one   *)
(* descriptor.                                                             *)
StartupTypeOK ==
  /\ ListenersTypeOK
  /\ build \in Builds
  /\ phase \in Ends \cup {"main", "configuring", "daemon", "network", "server",
                          "initialised", "startModules", "startListeners"}
  /\ lines \in Seq(ListenLines \cup ModuleLines)
  /\ \A m \in DOMAIN modules : /\ modules[m].kind \in DOMAIN getInfo
                                /\ modules[m].start \in {"no", "yes", "failed"}
  /\ references \in 0..Len(modules)
  /\ tagMaps \subseteq IRC \cup {"libirc2"}
  /\ \A k \in DOMAIN protocols : protocols[k] \in IRC
  /\ DOMAIN loggers \subseteq DOMAIN modules /\ DOMAIN logged = DOMAIN loggers
  /\ inputSet \subseteq Fds
  /\ instances \subseteq {"Languages", "Commands", "Daemon", "Registry", "MyNetwork", "MyServer",
                           "ISupport"}
  /\ connection.state \in {"none", "registering", "disallowed", "complete", "user", "refused",
                            "crashed"}
  /\ connection.allowed \subseteq Flags

(* The places a LISTEN class asks for: its file, its number, or the TCP    *)
(* services of its name.  A number that something follows is one more place*)
(* if there is any service at all.                                         *)
Asked(l) ==
  CASE l.domain = "UNIX" -> {Place(l.domain, config(l).ADDRESS)}
    [] l.domain # "UNIX" /\ config(l).PORT.whole -> {Place(l.domain, config(l).PORT.value)}
    [] OTHER -> {Place(l.domain, s.port) : s \in {s \in ToSet(Services) : Named(l, s)}}
                \cup {Place(l.domain, n) : n \in {n \in {config(l).PORT.value} : n > 0}}

(* A services database in which no name has one TCP port twice, or port 0, *)
(* and a number that something follows is not lost on the services of such *)
(* a name: it is opened first, and at none of their ports                  *)
EveryPortOnce ==
  \A l \in {l \in ListenLines : l.domain # "UNIX" /\ ~config(l).PORT.whole} :
    /\ \A k \in {k \in DOMAIN Services : Named(l, Services[k])} :
         /\ Services[k].port # 0
         /\ \A j \in DOMAIN Services :
              Named(l, Services[j]) /\ Services[j].port = Services[k].port => j = k
         /\ config(l).PORT.value > 0 => k # 1 /\ Services[k].port # config(l).PORT.value
    /\ config(l).PORT.value > 0 => Services # <<>>

Times(l) == Cardinality({i \in DOMAIN lines : lines[i] = l})

(* What the accepted LISTEN classes ask for is open, each place once for   *)
(* every class that asks for it, and nothing else is: no service is left   *)
(* out because of the one before it, and none is opened twice, however the *)
(* port found last is carried through the loop of classHandler().          *)
ListenersAreAsked ==
  \A l \in ListenLines :
    LET its == {i \in DOMAIN listeners : listeners[i].line = l}
    IN /\ {listeners[i].place : i \in its} \subseteq Asked(l)
       /\ Cardinality(its) = Times(l) * Cardinality(Asked(l))

(* When the main loop starts in a process that was given descriptors 0 to  *)
(* 2, what select() is asked about, descriptor 0 apart, are open sockets,  *)
(* each of which listens or shares its place with one that does.  So it    *)
(* can only fail, and then for ever, where the launcher has closed         *)
(* descriptor 0, which Daemon::run() puts into the set, and no logger's    *)
(* file has taken its number since.                                        *)
OnlyTheConsoleFails ==
  phase = "running" /\ build.standard =>
    /\ \A f \in inputSet \ {0} :
         /\ descriptors[f] = "socket"
         /\ \E i, j \in DOMAIN listeners :
              /\ listeners[i].fd = f
              /\ listeners[j].listening /\ listeners[j].place = listeners[i].place
    /\ selectWorks <=> build.debug \/ \E f \in Standard : descriptors[f] = "log"

(* Whatever becomes of the keys, a connection is given to the registrar if *)
(* that has started, and becomes a user only if both protocols have, all   *)
(* that a user needs has been made, and a LISTEN class that allows users   *)
(* has been read.  Where types tell protocols apart all modules of a       *)
(* configuration that is accepted start, and a user is refused only without*)
(* its module.                                                             *)
ConnectionsFindTheirProtocols ==
  LET Started(kind) == \E m \in DOMAIN modules :
                         modules[m].kind = kind /\ modules[m].start = "yes"
  IN /\ connection.state = "crashed" => ~Started("irc2registrar")
     /\ connection.state = "user" =>
          /\ Started("irc2registrar") /\ Started("irc2user")
          /\ \E i \in DOMAIN lines : lines[i] \in ListenLines /\ "ALLOWUSERS" \in flags(lines[i])
     /\ build.byType => /\ \A m \in DOMAIN modules : modules[m].start # "failed"
                        /\ connection.state = "refused" => ~Started("irc2user")

(* Whether a LOGMASK takes a kind of message                               *)
Takes(masks, mask) ==
  /\ masks # <<>>
  /\ LET words == Last(masks)
         spoken == {i \in DOMAIN words : words[i].word \in {mask, "ALL", "EVERYTHING"}}
     IN words = <<>> \/ (spoken # {} /\ words[Max(spoken)].prefix # "-")

(* What a logger is to be told of a module                                 *)
ToldOf(l, m) ==
  LET started == modules[m].start = "yes"
      mask == IF started THEN "HOUSEKEEPING" ELSE "WARNING"
  IN IF modules[m].start # "no" /\ Takes(modules[l].masks, mask)
     THEN << <<IF started THEN "Started" ELSE "Unable to start", m>> >> ELSE <<>>

(* A format shows the message where a dollar sign is behind an odd number  *)
(* of percent signs.                                                       *)
Shows(format) ==
  {i \in DOMAIN format :
     /\ format[i] = "$"
     /\ (i - 1 - Max({j \in 0..(i - 1) : j = 0 \/ format[j] # "%"})) % 2 = 1}

(* The messages in a file                                                  *)
MessagesIn(file) ==
  FlattenSeq([i \in DOMAIN file |-> IF file[i].kind = "message" THEN <<file[i].of>> ELSE <<>>])

(* A logger that can write has been told of its own start and of that of   *)
(* every module behind it, in their order and as it went, except for what  *)
(* its LOGMASK leaves out: the last of its words that speaks of a kind of  *)
(* message decides.  It is told nothing of the modules before it.  A file  *)
(* whose format shows the message once has each once, whatever else the    *)
(* format has.                                                             *)
StartsAreLogged ==
  \A l \in DOMAIN loggers :
    LET told == FlattenSeq([i \in 1..(Len(modules) - l + 1) |-> ToldOf(l, l + i - 1)])
        messages == IF loggers[l] THEN told ELSE <<>>
    IN /\ logged[l] = messages
       /\ \A format \in Formats, mapper \in maskMapper("HOUSEKEEPING") :
            Cardinality(Shows(format)) = 1
              => MessagesIn(fileOf(logged[l], format, mapper)) = messages

(* The process comes to its main loop or to an exit, also when modules do  *)
(* not start and listeners do not listen: no module that fails keeps the   *)
(* others from being asked, and nothing on the way uses what main() has not*)
(* made yet (the phase would be "null pointer").                           *)
StartsOrExits == <>(phase \in Ends)
=============================================================================
