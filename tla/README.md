# A verification development for KineIRCd

KineIRCd is an IRC daemon in C++: one process, one thread, one `select()` loop.
The modules in this directory model how it starts, accepts connections, cuts
their input into lines and the lines into parameters, registers clients, keeps
the registry of users, answers the commands of users, and loads and tells the
texts of its languages. TLC checks the models on small instances; TLAPS proves
the theorems about start, registry, sessions, main loop, framing, messages, chat
and languages for every instance. Paths below are relative to
`src/home/kineircd/`, where the live sources are.

## 1. The system

### Components

| component | state it keeps | operations | depends on |
|---|---|---|---|
| launcher (`src/ircd/ircd.cpp`) | the order in which single instances are made | `main` | everything |
| configuration (`src/lib/config/`) | values of the configuration file | handlers of classes and variables | libAISutil's parser |
| modules (`src/lib/modules/`) | list of descriptors with their configuration | load, start, stop, unload | libltdl |
| listeners (`src/lib/listener/`) | sockets, flags | configure, listen, accept | configuration |
| logging (`src/lib/logger.cpp.tpl`, `mod_filelog`, `mod_syslog`, `mod_channellog`) | loggers with a mask each | register, `log`, `logLine` | modules |
| protocol directory (`src/lib/daemon.cpp`) | descriptions by type and key | register, deregister, find | modules |
| poll loop (`src/lib/daemon.cpp`) | `connections`, `inFDSET`, `outFDSET`, `maxDescriptors` | `run`, `newConnection` | listeners, connections |
| connection (`src/lib/connection.cpp`) | socket, `connected`, the protocol it owns | `handleInput`, `sendOutput`, `goodbye` | its protocol |
| line framing (`src/lib_clbp/`) | `inputQueue`, `outputQueue` | `handleInput`, `withdrawOutput` | calls `parseLine` |
| LibIRC2 (`src/lib_irc2/`) | counters of messages, count of its users | `parseLine`, `sendMessage`, `sendNumeric`, `sendError`, `findMessageTarget`, common replies, STATS | framing, registry |
| registrar (`src/mod_irc2registrar/`) | a `Registrant`, kind, modes, ping cookie, `pongsLeft` | CAPAB IIRCN NICK PASS PONG QUIT SERVER SERVICE USER; completion | protocol directory, registry |
| user protocol (`src/mod_irc2user/`) | a `User` inside the protocol object, command table with call counters, ISUPPORT | constructor, dispatch, some forty handlers, events to the client | registry, languages |
| entities (`src/lib/user.cpp`, `server.cpp`, ...) | names, away message, language list, counters of server and network | `addUser`, `quit`, `setAway`, `setHere`, `setLanguageList`, `sendMessage` | registry |
| registry (`src/lib/registry.cpp`) | lists of entities by folded name | add, remove, find, for users, services, servers, channels, networks | - |
| languages (`src/lib/language/`) | tag dictionary, `highestTagID`, languages with a vector of texts, default, tag maps | `loadFile`, `registerMap`, `findByCode`, `get`, `process` | conversion |
| conversion (`src/lib/charconv.h`, `protocol.cpp`) | iconv descriptors | `convertChars`, `localiseStr`, `delocaliseStr` | iconv |
| to-do list, password utility | - | - | section 7 |

`OLD/` is an earlier architecture that no makefile builds, `src/remote` a second
checkout of the launcher's tree, `src/mod_http` an empty module.

### How they interact

`main()` makes the languages, has the configuration file parsed (MODULE lines
load modules, LISTEN classes open sockets), makes the daemon with its registry,
then network and server, goes into the background, closes descriptors 0 to 2 in
a release build, starts modules and listeners and enters `Daemon::run()`. Modules
that start register protocols, loggers and tag maps.

The poll loop owns the connections. A connection owns one protocol object, at
first a registrar. A chunk of input goes from `Connection::handleInput()` to the
protocol, which is an `Input` of `lib_clbp`; each complete line goes through
`LibIRC2::Input::parseLine()` to the protocol's `parseMessage()`. A registrar
whose data are complete makes the protocol that takes its place on the
connection and deletes itself. The constructor of the user protocol adds the
`User` inside it to the registry by way of `MyServer`. From there other users'
commands reach it by name; what they send it is appended to the output queue of
its protocol. The poll loop writes output queues when `outFDSET` asks for it.
Texts pass through `localiseStr()` on their way in and `delocaliseStr()` on their
way out; replies take theirs from the languages, with parameters put in.

Between two chunks anything of other connections may happen, inside a chunk
nothing of them. So the interleavings that matter are those of chunks, and the
order of events inside one chunk where `goodbye()`, `delete this` and errors do
not stop the loop that called.

### What is hard, and what makes each part correct

* **Startup.** Single instances use each other without a test; a module that fails
  keeps what it had registered; the search for ports carries a variable from
  entry to entry; descriptors are closed under a loop that will ask for them.
  Correct: the process comes to its loop or to an exit, opens what it was asked
  for once, waits for what is open, and connections find their protocols.
* **Registry.** Entries outlive or lose their owners: they are keyed by nickname,
  removed by nickname, and counted apart. Correct: an entry is found where it was
  put, names at most one user, never changes hands, and the counters count entries.
* **Sessions.** A nickname is looked up when NICK is handled and taken when the
  registration completes, several chunks later; a connection can go away at any
  time; a chunk goes on after an ERROR. Correct: who is listed was welcomed and
  has not quit; who was refused is refused for a reason; what a refused line stored
  is not used.
* **Poll loop.** The list and the sets change while they are walked, descriptors
  are reused, the round ends at a deletion. Correct: the sets match the open
  connections, no read waits, input and output are served.
* **Framing and splitting.** Lines and terminators may be cut at every place, writes
  may be short, the last parameter is found by its colon. Correct: each line is
  parsed once, in order, as sent, and with the parameters it was made of.
* **Commands.** One loop with many early exits serves several commands and writes
  to several queues. Correct: every target is answered once, notices never, lists
  end, and what clients are told is so.
* **Languages.** Numbers are assigned across files, vectors have different
  lengths, files may be refused halfway, one pass turns escapes into characters
  and percent signs into markers. Correct: the numbering cannot be seen, and a
  line is told as a translator wrote it.

`PROJECT.json` lists the hazards with the line where each bites and the property
that would catch it.

## 2. The modules

| module | what it models |
|---|---|
| `Base` | connections, nicknames and their folding; assumptions on these constants |
| `Directory` | abstract: holders of keys; an entry passes from nobody to a holder and back |
| `Registry` | list of users, nicknames, wrapping counters: `addUser`, `quit` (extends `Base`, implements `Directory`) |
| `Registrar` | what each registrar command does to a registrar, as functions from a state to the set of its outcomes; the completion test |
| `Sessions` | connections with registrars, hand-over, user protocol, QUIT, deletion (extends `Registry` and `Registrar`, implements `Registry`) |
| `Promises` | what headers and comments say of sessions and the code does not keep |
| `Poller` | `Daemon::run()` around `select()`, with peers that call, send and hang up |
| `Clbp` | `LibCLBP::Input::handleInput()`, one action per iteration of its loop; beside it what a stream means to its sender, read character by character |
| `Messages` | `LibIRC2::Output`, the output queue and short writes, the other end's `parseLine()`, which goes through a line once (extends `Clbp`) |
| `Charset` | conversion descriptors, `convertChars()` with its buffer, `localiseStr()`, `delocaliseStr()`; iconv for UTF-8 and wide characters |
| `Chat` | the commands by which users talk, are away and choose languages, the output queues, what clients learn (extends `Registry` and `Charset`) |
| `Names` | folding of names, validity of nicknames, server and network names |
| `Queries` | the dispatcher, and every command that only tells: WHOIS, STATS, HELP, LUSERS, ISUPPORT and the welcome ... (extends `Registry` and `Names`) |
| `Catalogue` | abstract: texts by language and tag, laid over each other a file at a time |
| `Languages` | files, dictionary, vectors, merging, default language, tag maps (implements `Catalogue`) |
| `Texts` | how a line of a file becomes a text, how a text is looked up and told with parameters (extends `Languages` and `Charset`) |
| `Listeners` | LISTEN classes, the services database, sockets, binding and listening |
| `Logging` | masks, registration of loggers, `Daemon::log()`, the lines of the file logger |
| `Startup` | `main()`, configuration, modules, protocols, loggers, and the first connection (extends `Listeners` and `Logging`) |
| `RegistryProofs`, `SessionsProofs`, `QueriesProofs`, `ChatProofs` | TLAPS proofs about the modules of these names |
| `DaemonProofs` | about `Poller` and `Startup` with its `Listeners` |
| `MessagesProofs` | about `Clbp` and `Messages` |
| `LanguagesProofs` | about `Languages` and `Texts` |
| `Loops` | lemmas about loops over sequences and about numbers, for the other proofs |
| `MC*` | constants for TLC |

Correspondence, where it is not plain from the names:

* A connection, its protocol and its user share one identity, because the user is
  a member of the protocol the connection owns and none outlives another.
* `Registry.users` is the map from folded nickname to `User*`; `NoConn` is
  absence. `nickname[u]` is kept also of users that were refused, because
  `quit()` uses it. `userCount` stands for the counters of server and network,
  which the same statements change.
* `Registrar` abstracts what was given (password, user name, protocol...) to the
  set `given`, since only being empty or not is ever looked at. `connected` is
  the connection's flag and sits in the registrar's record because both change
  in the same handlers.
* `Sessions.reading` is the connection whose chunk is being parsed. `phase`
  `"undefined"` is entered where the code uses a freed object or reads past a
  vector; nothing happens after it, so no property depends on what would.
* `Poller` reduces the effect of a chunk to the connections that get a unit of
  output and to whether the connection was told goodbye. The other modules say
  what the chunk does. New descriptors are the lowest that are free.
* `Messages`: text is a sequence of characters of which blank, colon, CR and LF
  mean something and one letter has another case. A script is what one end sends;
  with an empty script the peer sends raw characters instead. What may be sent
  (`Sendable`) is what the callers send: commands in upper case, and no parameter
  but the last that is empty, has a blank or begins with a colon. `nextCharacter`
  is the state the splitting is in: words ended, the word that goes on, and
  whether it goes on to the end of the line.
* `Chat.outbox` is the output queue of a connection in messages, `view` what a
  client that has read them knows of itself; messages no property distinguishes
  are `"OTHER"`. `undefined` is a crash or a conversion that never ends: LANGUAGE
  on a list whose first entry is null or missing, every use of an entry whose
  user was deleted, and a text with an illegal octet.
* `Queries`: an answer is a sequence of messages, with the facts a property looks
  at; rows that come from a table of texts are represented by one. The table of
  commands, access and refusals are those of the source. Who has just connected is
  answered (welcomed) like somebody who sent a line; `Connecting` stands for its
  command. A token of ISUPPORT is its number of octets, and `maxOutputLength` an
  unsigned number as in the code: a server whose name and texts leave no room
  has no limit rather than none left. A message that begins with the token that
  did not fit the last counts its parameters from 0 again (`protocol.cpp:264`), one
  too few: that none has too many is a fact of the tokens there are, not of the
  loop. All but WHOIS look up a whole parameter, commas included (`WithCommas`).
* `Names` and `Texts` take characters as their numbers, because folding, validity
  and preprocessing are about particular ones.
* `Languages`: a language is pointed to by its code; a tag's number is an index
  from 1, and 0 is `unknownTagID`. One action is one line of a file. In `Texts`
  the outcome of a line (a text, a refused file, a load that never ends) follows
  from its octets. `loadFile()` can be asked to make its file the default language;
  its only caller does not (`language/config.cpp:48`).
* `Startup`: main() has two exits with `ERR_DAEMON_INIT`. The first is
  `initLibtoolFails`; the second asks whether the daemon is at its normal run level,
  which its constructor always sets (`daemon.cpp:90`). The configuration file is a sequence of lines; the first that is
  refused ends the process. What the sources leave open is part of `build`: the
  debug switch, what the union in a protocol's description makes of its key,
  whether sockets ask for addresses to be reused; and so is the environment.
* `Listeners`: a new descriptor is the lowest that is free. A process that has none
  left finds no services, and its sockets cannot be bound; loggers go on without.
* Loops inside one handler (`Considered`, `Cut`, `Meaning`, `PassedOn`) are
  functions of the round that apply one named operator a round, such as
  `takeCode` or `nextCharacter`: the body of the loop.

Definitions marked `Mutant:` are variants of the definition behind them, each
with one plausible mistake. Nothing uses them; substituting one for its original
must make a property of a run fail (the list is in `PROJECT.json`).

## 3. The runs

| run | instance | distinct states | shows |
|---|---|---|---|
| `queries` | 3 users, 3 spellings of 2 nicknames and a bad name, every asking command, two servers, 1 stray quit | 1,407,328 | registry keyed, counted, refinement of `Directory`; answers end and are true; HELP agrees with the dispatcher; ISUPPORT is whole |
| `sessions` | 3 connections under one nickname that register as users, or one that sends all nine commands while another registers | 1,191,024 | entries belong to members and are lost only to namesakes' QUITs; refusals have one reason; refused lines leave nothing; refinement of `Registry` |
| `poller` | 3 peers, 2 descriptors, 2 units of output and a chunk each | 216,417 | sets match connections, no waiting reads; units of output that are asked for are written, chunks are read |
| `framing` | raw streams of at most 6 characters in all chunkings; up to 3 messages through queue, writes and reads of every length | 436,051 | lines and messages are parsed once and in order, exactly so without leftovers or short writes, and never multiplied |
| `chat` | 2 users, 2 nicknames and a second spelling, 3 texts, limits of 3 targets and 2 languages | 309,531 | clients know their state, targets in front of the limit are answered and no others, notices silent |
| `languages` | 2 files of at most 3 lines with tags, 3 tags, 3 codes; lines of up to 3 of 20 items | 150,038 | dense numbering, truth of "incomplete", fallback, lines are told as written, refinement of `Catalogue` |
| `startup` | configurations of up to 3 lines over 6 LISTEN classes and 9 MODULE lines, 64 builds and environments | 526,444 | listeners as asked, `select()` fails only for descriptor 0, protocols found, starts logged, the process comes to its loop or an exit |
| `error_disconnects`, `listed_users_online`, `quit_needs_registration` | 1 or 2 peers | counterexamples | findings 1-3 |
| `output_asked` | 2 peers | counterexample | finding 4 |
| `parses_lines` | chunks of up to 4 characters | counterexample | finding 5 |

### Bounds, and why they are enough

* `sessions`: three connections under one nickname: one that holds the entry, one
  that was refused, and one that takes the name after a stray quit. A fourth adds
  no new relation between users, since entries are independent of each other;
  `queries` has two keys to check that independence. What a peer sends is bounded
  by crowds: either all register as users, or one uses every command and another
  meets it. A third that did more would only repeat the part of one of the two.
* `MaxStray` bounds quits that find no entry; each lowers the counter by one more
  and nothing else. `MaxCount` is at or just above the number of users, so that
  the counter wraps in the run; the theorems cover every width.
* `queries`: WHOIS lists of up to six targets mix holders, namesakes, strangers and
  a bad name. One server's list of languages just fits one message, the other's
  fits none, so that a token opens a new row by each of the two limits. `MaxUnsigned`
  is 65535, the least a compiler may have; no message comes near it, so a larger one
  only moves where the limit is that a negative difference wraps to.
* `poller`: two descriptors for three peers gives reuse, an exhausted process and
  a list in which order matters. With two units a write may leave something
  behind, so that the bit must stay set, and a peer can be answered as fast as it
  is written to: its queue is then never empty, which is why `AskedOutputIsSent`
  asks for every unit and not for an empty queue. `InputIsServed` is said of every
  chunk in the same way; that a connection is kept from being read needs one
  chunk only, and with two (two peers, 83,277 states) both properties hold as
  well. With three descriptors, a unit and a chunk the safety properties hold too
  (4.4 million states); these two instances are not among the runs. The theorems have
  safety for any numbers.
* `framing`: six characters hold two lines with both terminators, a terminator
  split between chunks, and an incomplete line behind complete ones. Two messages
  are what can run into each other; the third is a bare one behind them. One
  write is short in a behaviour: what comes of it does not depend on a second.
* `chat`: two users give self-messages, messages to the other, namesakes and a
  deleted user. Lists of three targets reach the limit; `MaxQueued` lets a second
  line be handled before the first answer was read. A text is whole, cut within a
  character, or has an illegal octet; the buffer is the one of the source.
* `languages`: the second file is what can merge, extend or be refused; a third
  only repeats it. Three tags let it bring a tag the first lacks, omit one and
  share one. A line of three items has every pair of neighbours with something
  behind it. A buffer of 8 octets makes texts take several rounds of
  `convertChars()`.
* `startup`: three lines reach a LISTEN class and the two protocols, a module that
  is loaded twice, loggers before and behind a module that fails, and two
  listeners of one place. Fewer descriptors than `MaxFd` allows are ever used.
* Symmetry is used for connections, tags and raw characters where they are
  compared only, and in no run with liveness.

`CHECK_DEADLOCK FALSE` is in every configuration, because each instance ends:
connections are not reused, streams and files are bounded, and an undefined or
stuck daemon takes no step. In `Poller` the daemon waits in `select()` when the
peers are quiet, which is no deadlock of the program.

### Fairness

`Poller`: `WF_vars(Loop)`, since the loop is the only thread and runs when it can;
`SF_vars(selectReturns /\ f \in outFDtemp')` for each descriptor: a socket that
can be reported writable again and again is at some time, which is what TCP does
for a peer that reads. Peers have no fairness. Both properties carry the proviso
`RoundsAreCutShort`: a deletion ends the round and new connections stand in front
of the list, so that peers who come and go without end do keep the loop from
those behind them. Without it `AskedOutputIsSent` is false on the run's instance.
Neither says that a queue becomes empty, which it need not: they say that each unit
that is there when it is asked for goes, and each chunk.
`InputIsServed` needs a third descriptor to fail without it (one caller is
accepted in front while the one before it is deleted, round after round); there,
with queues left out, it fails without the proviso and holds with it.

`Startup`: `WF_vars(Progress)`, since a process whose next step is its own takes
it; lines of the configuration and connections come from outside and have no
fairness. `StartsOrExits` needs it because a module or a listener that does not
start must be passed over and not tried again.

## 4. What is proved

All theorems hold for any values of the constants that meet the assumptions of the
modules (`BaseAssumption`, `RegistryAssumption`, `SessionsAssumption`,
`QueriesAssumption`, `PollerAssumption`, `ClbpAssumption`, `MessagesAssumption`,
`ChatAssumption`, `LanguagesAssumption`, `CharsetAssumption`, `TextsAssumption`,
`ListenersAssumption`, `LoggingAssumption`, `StartupAssumption`), which TLC evaluates in the runs.

**`Loops`**. Several theorems are about what a loop has made of a sequence of any
length. The library's induction theorems take an operator as a parameter, which the
provers do not instantiate; `RoundByRound` takes a set of numbers in its place:
one that has 0, and with each number of a round the next, has all of them, because
otherwise there would be a least that it lacks (`LeastElement`, from the
well-foundedness of the naturals). A definition by rounds makes sense since there
is a function that satisfies it (`LoopsRun`), and a sequence with one more element
is one more round of it (`LoopsGoOn`). So are obtained what `FlattenSeq` yields
(`FlattenByRounds`, `FlattenOver`, `FlattenOfConcat`) and how often something occurs
in it (`OccurrencesOfFlatten`). A loop over a text by strides of its own is a function
of the rest of the text, written from its end: such functions exist (`BackwardRuns`),
what holds at a place if it holds behind it holds everywhere (`FromTheEnd`), and if two
of them read a part of a text alike, one reads what the other reads of the part and
then what is behind it (`ReadsThePart`).

**`RegistryProofs`**, for any finite set of connections, any names, keys and
folding, and any width of the counter that can count the connections.

* `RegistryTypesAndKeys`: `RegistrySpec => []RegistryTypeOK /\ []KeysMatchNicknames`.
  The inductive invariant is the conjunction `RegistryInv`: that `quit()` leaves
  keys matched needs entries to be connections, and that `addUser()` does not
  rename a listed user needs every listed user to have a (valid) nickname.
* `RegistryIsDirectory`: `RegistrySpec => ImplementsDirectory`. `DirectoryStep`
  maps an accepted addition to a taking of a free key by a user that had none
  (here the keys are needed: had the user an entry, it would have a nickname),
  and a quit to a release or a stutter.
* `RegistryCounts`: `RegistrySpec => []DriftIsStray`. Each step changes the number
  of entries by what it changes the counter by, or counts a stray quit
  (`AddUserCardinality`, `QuitCardinality`); `WrapBounds` shows that the number of
  wraps stays between its bounds, and `CounterStep` does the arithmetic modulo
  the width. `CountsListedUsers`: while no quit was stray, the counter is the number
  of entries.

**`SessionsProofs`**. The invariant `SessionsInv` has three layers.

* `SessionsSound` has the types and says that every registrar is `Sound`: one that
  is open and has no kind yet has nothing of a refused line (no field but a
  password, no link stamp), and an open one that has no kind or is a user's has
  no nickname but a valid one. Every
  handler maps a sound registrar to sound ones, one lemma a command. From it:
  `SessionsAreTyped` and `RefusedLinesLeaveNothing`.
* `KindsOfSteps` sorts the steps of the daemon: those that leave registry, members
  and open users alone (`Quiet`), QUIT of a user, and the hand-over to a user
  protocol. With it `RegistryStep` gives `SessionsImplementRegistry`: the daemon
  implements `Registry`, and by the corollary `DaemonKeepsItsRegistry` the
  registry's theorems hold in it.
* `MembersInv` relates entries, welcomed users, those that left and nicknames. It
  needs `RegistryInv`, because QUIT erases under a fold and must be known to hit a
  namesake. From it: `EntriesFollowMembers`, `NamesakesTakeEntries`,
  `NamesakesAreRefused`.

**`QueriesProofs`**, for any users, names, lines and servers. Users who connect,
quit, disappear and ask take steps of the registry or none, so `AskedByTheirKeys`,
`CountedByLUSERS` and `AskedOfADirectory` follow from the registry's theorems;
`QueriesAreTyped` is by induction on its own.

What is answered is `asked` and `reply`, and they stand until they are sent. So each
of the four properties of answers is an invariant together with `SilenceOK` (who has
not asked has no reply) and `QueriesInv`: `SilentNext` sorts the steps into those
that change nothing a reply tells of, those that empty it, the welcome and the answer
to a line. What is left is that these two are right when they are given, and that is
about the handlers, whose loops over lists of any length are taken by `Loops`.

* `SupportIsWhole`: the rounds of `sendISUPPORT()` keep that rows and buffer together
  are the tokens so far, in order, and that no row is too long (`SupportRows`). The
  code counts the parameters from 0 behind each message it sends, though a token is
  in the buffer then, so a message could hold one more than a line has room for. That
  it never does is no matter of the loop: there are at most 15 tokens, and the first
  two are short (`Tokens`). A message of 14 would have to begin with one of these two
  behind a message that was sent without it; so the limit is below 12 octets, and
  with such a limit no message is long (`ChunkEnds`).
* `AnswersEnd`: one lemma says of each handler which footer it has and where
  (`Answers`, `HandlerAnswers`); a refusal is a reply of one message.
* `HelpListsTheAllowed`: what the rows of HELP are (`HelpIs`) and what the dispatcher
  lets pass (`AllowedIs`) are the same set, because every command that is not enabled
  is one the user may not use.
* `TellTheState`: WHOIS is a concatenation of entries, one a target. `EntryIs` says
  what is in an entry, `ToldByOne` and `CountedTogether` that the entries have one
  head each and that what follows a head is of it; from the two `WhoisIsTold`.
  `UptimeIsRight` and `ZoneIsRight` do the division of seconds into days, hours and
  minutes; TIME tells whole minutes, and west of Greenwich is excluded, because it is
  told with two signs.

**`DaemonProofs`**, of `Poller` for any peers and any finite set of descriptors. The
invariant `PollerInv` says besides types and `SetsMatchConnections` that every connection is
in the list once, that a peer in the backlog has none, and (`Reports`) that what
the copies of the sets say of connections the walk has not reached is still so. The
last is what makes the hazard go away: a connection behind the one that is deleted
or created keeps its report, one in front of the walk is not looked at again.
`PollerIsTyped`, `SetsAreExact` and `WaitsInSelectOnly` follow.

Of `Startup` for any configuration of any length, any services, builds and number
of descriptors (from 4 on). The invariant `StartupInv` has parts that meet in the
theorems:

* `OwnSockets`, that listeners have sockets of their own, and `Console`, what has
  become of descriptors 0 to 2. New descriptors are the lowest that are free
  (`FirstFreeIs`), so in a process that was given those three no listener gets one
  of them, and none is closed under it; and loggers take them from the lowest on,
  so that one of them is a log only if descriptor 0 is. Through the rounds of the
  loop over the services, `ClassOpens` has the listeners of a class on different
  descriptors, whatever it says and whatever failed in between.
* `Selected`: of the listeners at one place the first listens. With the two parts
  before it gives `OnlyClosedConsoleFails`.
* `OnceEach` and `Registered`: a protocol is under its key exactly if its module
  has started. If keys are types, no module fails, because each protocol is loaded
  once; a module that waits has not counted in the library yet, which bounds the
  library's count for `StartupIsTyped`.
* `MadeInOrder`, `SaidByLines` and `Connected`: which instances exist in which
  phase, that flags of listeners come from lines of the file, and what the state
  of the first connection says of the modules. `ProtocolsAreFound` follows,
  and that no step on the way uses an instance that is not there: the phase for
  that, "null pointer", is not among those of `StartupTypeOK`.
* `StartsAreTold`. On top of `StartupInv`, `LogsInv` says that the modules which
  wait are the last of the list, that a logger's module does not wait, and that a
  logger has been told its `Row`: what there is to say of the modules from its own
  on, nothing of those that wait. The step that starts a module fills one place of
  each row, behind which all are empty (`RowsGrow`, by `FlattenFilled`), and
  `Daemon::log()` appends just that, since the last word of a LOGMASK on a kind of
  message decides (`MaskIs`, by rounds of the words). What a file holds is by
  rounds of the format: a character adds a message just if it is a dollar sign
  behind a percent sign that is not itself part of a conversion
  (`CharacterTold`), and that is what `Shows` counts (`LineTold`); nothing else a
  percent sign can ask for is a message (`FieldIs`). `FileTold` puts the lines
  together.
* `AskedListenersAreThere`: `[]ListenersAreAsked` under two hypotheses, without which
  it is not true of the code. The services database gives no name a port twice
  (`EveryPortOnce`, which `MCStartup` has TLC evaluate): with one that does, a listener
  is made twice, or the port carried along is lost. And a descriptor is free whenever a
  class is read; it is in each state of the run `startup`. The rounds over the
  services, taken by `Loops`, give that one class makes exactly its places
  (`EntryAsks`, `NamesAsk`, `ClassAsks`), and `AskedInv` counts them over the lines
  that were accepted so far (`MadeAreCounted`).

**`MessagesProofs`**, for any characters, streams, scripts, chunks and writes. The
invariant `MessagesInv` says besides types:

* `Heard`: what was parsed and what the buffer holds relate to what the chunks so
  far mean, up to the position the loop has come to: each parsed line ends in the
  line meant, and equals it while nothing was left over. `Meaning` goes through a
  stream by characters and knows of no chunks, so the proof has to show that a
  terminator which is cut adds an empty line and nothing else (`FirstEnd`,
  `AfterLineIs`, `ContinueIs`). `LinesAreParsed` and `LinesAreKept` follow; the
  former is weak on purpose, as finding 5 shows.
* `Few` and `Whole`: all that was read, is on the wire and is queued means no more
  lines than were sent, and exactly those while no write was short. A short write
  takes a piece out of the middle. `LossAddsNothing` shows by the rounds of
  `Meaning` that a piece less never makes a line more (it may run two together,
  or cut one short), so that `LinesDoNotMultiply` needs no proviso. `LinesStay`,
  that what follows cannot change the lines that have ended, gives
  `LinesAllArrive`.
* `MessagesAllArrive` goes from lines to messages. `CutOfWord`, `CutOfNext` and
  `CutOfLast` say what state the splitting is in behind a word, another word and a
  last parameter of any length; by rounds of words they give `CutOfMessage`, and
  `ParseIs`: `parseLine(LineOf(m))` is the message `m`. What `LineOf` must know
  of its words is what `Sendable` says, and no less: an empty parameter in the
  middle would not come back. `PassedOn` ignores the empty lines.

**`ChatProofs`**, for any users, names, texts, limits and lists of targets and codes.

* `ClientsAreTold`: `Spec => []ClientsKnowTheirUsers`. The invariant `ChatInv` adds
  `RegistryInv`, the types, and that a connection without protocol has nothing
  kept or queued (`ClosedIsBare`). The queue is kept by what it teaches: what is
  read in two parts teaches what it teaches at once (`LearntByParts`), and the
  message that speaks last of a matter decides (`LastWordOfConcat`). So a line is
  either quiet, if it changes nothing and tells nothing of the two matters
  (`QuietSend`), or tells its own user what it changes (`Telling`, `OwnReply`); messages
  of and to others are always quiet (`OutcomeIsQuiet`), which is where a user
  could have been told of somebody else's state.
* `ChatIsTyped`: no list of codes, however long, yields more languages than the
  limit (`ConsideredLimits`), though entries of the list are counted apart from
  complaints.
* `EveryTargetIsServed`: `Spec => TargetsAreServed`. What a queue gets is the
  concatenation of outcomes, so occurrences are counted target by target
  (`OncePerTarget`), with a name that occurs twice served twice; `ServedAreFirst`
  relates the targets served to those that were named.
* `NothingAnswersNotices`: `Spec => NoticesAreSilent`; `ChatKeepsItsRegistry`:
  `Spec => RegistrySpec`, with which the registry's theorems hold here.

**`LanguagesProofs`**, for any tags, texts, codes and number of files.

* `LanguagesAreTyped`; with the types goes that the default language is a language
  there is, also when the file that would have become the default was merged.
* `NumbersTagsOnce`: `Spec => []DictionaryIsDense`. The invariant `LanguagesInv`
  bounds by `highestTagID` the vector of the file that is still being read too:
  at the end of the file that vector becomes one of a language, or widens one
  (`MergedData`), and the numbers of a file that is refused stay given. `ReadTagInv`
  distinguishes a known tag, which changes no number, from a new one, which takes
  the next.
* `LanguagesAreACatalogue`: `Spec => ImplementsCatalogue`. A new number changes what
  no vector says of another tag (`GivesText`), a merge lays the texts of the file
  over those of the language (`MergedTexts`, `Publishes`), and between two files
  nothing is half read.
* `IncompleteIsTrue`: `TextsSpec => []IncompleteLacksATag`. The counter of tags is
  never below the number of texts (`TextsAreCounted`: a line adds one text at most
  and counts, a merge unites two sets of texts and adds the size of one), and with
  dense numbers a language with fewer texts than tags lacks one; `AllIsHundred`
  does the rounding of the percentage. `TextsStep` shows that reading lines octet
  by octet is a special case of `Languages`.
* `EveryLanguageSpeaks`: `[]DefaultSpeaksForAll`, if no line of a file is told as nothing
  but the sign for a missing text (`NoLineIsTheSign`, which `MCLanguages` has TLC
  evaluate; a line that is only the name of a network without a name would be).
  `TextsAreOfLines` says that every text came of a line that was read, which needs
  vectors of languages and of the file being read to be followed through merges
  (`EndOfFileGives`); `FirstIsDefaultInvariant`, that there is a default language as soon
  as there is any. A text of a line has no section mark, so by sections it is one
  (`NothingIsSections`).
* `EveryLineIsTold`: `[]TextsAreTold`, and `LinesAreTold`, the same for lines of any
  number of items, under one hypothesis on the constants, `ItemsStandAlone`, which
  `MCLanguages` has TLC evaluate for its 20 items: each item, written alone in a line,
  is told as it should be, has no space at its ends, and is complete. Complete says
  of the octets that the loop of `preprocess()` begins a round right behind them
  (`EndsARound`: `\12` before a digit would not be), and of the text that no marker waits
  for its letter or digit (`EndsNoMarker`). What is proved is the composition, which is
  where such loops go wrong: if what is in front of an item is complete, the three
  loops read the item as they read it alone. `StrokesOfConcat` says so of the
  substitution of octets, `DecodedOfConcat` of the reading of UTF-8 (also of what ends
  it early), `TellingOfConcat` of the putting in of parameters, `SoftlyOfConcat` of the
  line breaks (the first and the third by `ReadsThePart` of `Loops`); `WellRead` is the
  invariant of the rounds over items, and `OneMoreIsWellRead` its step. That a text
  comes back from a client needs the conversion to be undone: `DecodedEncoded`, with
  `OctetsAre` and `InSixtyFours`, that UTF-8 of any characters below the limit is read
  as these characters.

## 5. Only model-checked

* Liveness (`AskedOutputIsSent`, `InputIsServed`, `StartsOrExits`): liveness under
  fairness and `ENABLED` are out of the provers' reach.
* What one item of a line alone is told as: the run has items of each kind, not one for
  every entry of the program's tables.

## 6. Findings

Each is a run of its own, expected to end in a counterexample.

1. **An ERROR does not disconnect** (`ErrorDisconnects`). `sendError()`, "Send an
   error message and disconnect", only clears a flag that the next chunk is
   refused by; the rest of the chunk may complete the registration.
2. **Listed users need not be online** (`ListedUsersAreOnline`). A connection that
   fails or is closed is deleted with its user, and its registry entry stays,
   pointing to the deleted object. Only QUIT removes entries.
3. **`quit()` of a refused user removes its namesake** (`QuitNeedsRegistration`)
   and returns no error, where the header promises UNREGISTERED_ENTITY.
4. **Output for another connection is not asked for** (`QueuedOutputIsAskedFor`):
   it waits until its receiver sends something.
5. **Lines are parsed again** (`ParsesLines`): an incomplete last line makes the
   whole chunk be buffered, with the lines of it that were parsed already.

Met on the way and without a run of their own. The models have these behaviours,
unless they are under section 7.

* *Startup.* A release build closes descriptor 0 and `Daemon::run()` selects on it
  (`daemon.cpp:398`): `select()` fails with EBADF for ever, unless a logger's file
  has taken its number. A port such as `80irc` opens port 80. A LISTEN class admits
  nobody by default. An unknown name of a service is accepted and gives no
  listener. A class for a module without configuration is refused. A library
  without the symbol of its function makes a string of a null pointer.
* *Logging.* The search for a mask's name reads behind its table. The channel logger
  has no LOGMASK and so logs nothing. The 12-hour clock is an hour late and shows
  noon as 0; `%j` counts from 0.
* *Languages.* The documented `\n` keeps the load of a file in its loop for ever, and
  so does any illegal sequence, though `loadFile()` has a message for it. `\000`
  becomes the marker of a parameter. A last line without a newline is dropped.
  `tagCount`, "*real* number of tags", counts a tag twice that two files give, so
  that a share may be above 100 %. `LangTags` promises "?" for missing tags where
  the code tells the default language's text. The internal character set has a
  name that only libiconv knows: with the C library's iconv no file loads.
  `registerMap()` keeps the address of its own parameter.
* *Users.* AWAY with a reason that is cut within a character is localised to
  nothing, so that the user is told it is back. An illegal octet in AWAY, PRIVMSG or
  NOTICE keeps the daemon in its loop for ever. `LANGUAGE none` follows a null
  pointer. With `MAXTARGETS=n` n-1 targets are served.
* *Answers.* ADMIN never answers with its data; NETWORKS with a parameter is not
  answered at all. The space before a token of ISUPPORT is not counted, so a row may
  be one octet too long. STATUSMSG and MAXTARGETS are never told (a misspelt macro).
  A time zone west of Greenwich is printed with two signs. Handlers of operator
  commands are unreachable, those of WHO, USERIP and SERVLIST not compiled.
* *Names.* A server with an invalid name silently stays out of the registry. The
  check of nicknames for characters beyond 127 looks at one bit, and `isalnum()` is
  not defined beyond 255. `^` folds to `~`, which no nickname may have.

## 7. Not modelled, and why

* Services, channels, remote servers and networks: instances of the registry's
  templates that no live code creates; with them the events of channels and what
  is said to services. `changeNickname()`, `changeStaffStatus()`, REHASH and every
  operator command return before they do anything: no user is ever an operator.
* WHO, USERIP and SERVLIST, whose macros no build defines; targets that are masks,
  which only operators may use.
* Stopping, deregistering and unloading of modules: reached by a refused module in
  the last moments of a process only. (There, the library is closed before the
  object that lives in it is deleted, `modules/descriptor.cpp:44`.)
* The launcher's options, `--version` and PID file, and the parsing of the
  configuration file, which a library does.
* What replies say, beyond what a property looks at; the counters of calls.
* Limits of the C library: a descriptor beyond `FD_SETSIZE` (`daemon.cpp:189`).
* `oldconfig.cpp` is built under an option that `configure.ac` no longer offers; the
  to-do list is never instantiated; `OLD/` is not built; the password utility is a
  command line tool around a library; the other trees hold no daemon code of their
  own.

## 8. The plan

Order followed, the most important first: `Registry`, `Sessions` (registrar and
hand-over), `Poller`, `Clbp`, `Chat`, `Languages`, with `Directory` and `Catalogue`
above them; then what stands around them: `Startup` with `Listeners` and
`Logging`, `Queries` with `Names`, `Messages`, `Texts` with `Charset`; theorems of
`Registry`, `Languages`, `Sessions`, `Poller`, `Queries`, `Texts`, `Clbp`,
`Messages`, `Chat` and `Startup`.

What is left:

1. *Proofs.* Every invariant and action property of a passing run is stated by a
   theorem; what is left is liveness, which the provers do not reach.
2. *Composition.* Delivery of a message from the sender's chunk to the receiver's
   socket, with `Chat` inside the loop of `Poller`. Each half is checked; the run
   `output_asked` shows where they do not meet.
3. *Model.* Unloading of modules, once something in the source unloads one;
   channels and services, once something makes them.

## 9. Running it

    tlc -workers 2 -config MCSessions.cfg MCSessions      # any run of PROJECT.json
    tlapm RegistryProofs.tla                              # the proofs
    tlapm SessionsProofs.tla
    tlapm QueriesProofs.tla
    tlapm DaemonProofs.tla
    tlapm LanguagesProofs.tla
    tlapm MessagesProofs.tla
    tlapm ChatProofs.tla
    tlapm Loops.tla
