------------------------------- MODULE Chat ---------------------------------
(***************************************************************************)
(* The commands of users (src/mod_irc2user): what a line of one client     *)
(* does to its own user, to the output of its connection and to that of    *)
(* others.  Extends Registry, where a name is turned into a user.          *)
(*                                                                         *)
(* One action is one line.  Lines of one chunk follow each other; a user   *)
(* that has quit is heard until its chunk ends ("reader" is the connection *)
(* whose chunk it may still be).  What the daemon sends is queued in       *)
(* "outbox" until the client reads it; "view" is what the client then knows*)
(* of its own user.                                                        *)
(*                                                                         *)
(* Where the code would use an object that is gone, or a null pointer, or  *)
(* would convert a text for ever, the model stops (undefined).  A text is  *)
(* localised on its way in and delocalised on its way out (Charset); of    *)
(* messages, whose texts no property tells apart, only whether that ends.  *)
(* No user is ever an operator and there are no services. The commands     *)
(* that only send texts (ADMIN, HELP, INFO, LUSERS, MOTD, TIME, VERSION    *)
(* and others) are one action, answer, with the refusal of lines that are  *)
(* unknown, disabled, privileged or too short.                             *)
(***************************************************************************)
EXTENDS Registry, Charset

CONSTANTS
  Languages,        \* the languages loaded, each for every code that finds it
  DefaultLanguage,
  NullLanguage,     \* the code "none", which stands for no language at all
  Spoken,           \* the texts given to AWAY, PRIVMSG and NOTICE, in octets
  MaxTargets,       \* config().getLimitsMaxTargets()
  MaxLanguages,     \* config().getLimitsUsersMaxLanguages()
  TargetLists,      \* the lists of names that clients give to commands
  CodeLists,        \* the lists of codes that they give to LANGUAGE
  MaxQueued         \* bound: a line is handled with at most this in each outbox

ASSUME ChatAssumption ==
  /\ DefaultLanguage \in Languages /\ NullLanguage \notin Languages
  /\ \A text \in Spoken : text \in Seq(0..255)
  /\ MaxTargets \in Nat \ {0} /\ MaxLanguages \in 1..254 /\ MaxQueued \in Nat
  /\ TargetLists \subseteq Seq(Names) /\ CodeLists \subseteq Seq(STRING)

Empty == <<>>

(* The constructor of the protocol sets both to UTF-8; whether that could  *)
(* be done is not asked.                                                   *)
inputCharConvDesc == changeInputCharset("UTF-8").convDesc
outputCharConvDesc == changeOutputCharset("UTF-8").convDesc

VARIABLES
  phase,            \* whether a connection has a user protocol
  connected,        \* Connection's flag, cleared by goodbye()
  reader,           \* the connection whose chunk was last looked at
  awayMessage,
  languageList,     \* each user's languages, by preference
  outbox,           \* what is queued for each client
  view,             \* what each client knows of its user
  undefined         \* whether the daemon's behaviour is defined no more

own == <<phase, connected, awayMessage, languageList>>
chatVars == <<own, reader, outbox, view, undefined>>
vars == <<chatVars, registryVars>>

FirstView == [away |-> Empty, languages |-> <<>>]

Init ==
  /\ RegistryInit
  /\ phase = [u \in Conns |-> "closed"]
  /\ connected = [u \in Conns |-> TRUE]
  /\ reader = NoConn
  /\ awayMessage = [u \in Conns |-> Empty]
  /\ languageList = [u \in Conns |-> <<>>]
  /\ outbox = [u \in Conns |-> <<>>]
  /\ view = [u \in Conns |-> FirstView]
  /\ undefined = FALSE
-----------------------------------------------------------------------------
isAway(u) == awayMessage[u] # Empty

(* What a client is told: a numeric reply or a message of another user.    *)
(* Those that no property tells apart are "OTHER".                         *)
Told(numeric) == [numeric |-> numeric]
ToldOf(numeric, x) == [numeric |-> numeric, of |-> x]

(* w is sent the messages add[w].                                          *)
Send(add) == outbox' = [w \in Conns |-> outbox[w] \o add[w]]

Reply(u, messages) == Send([w \in Conns |-> IF w = u THEN messages ELSE <<>>])

(* parseMessage() has a line of u.                                         *)
Line(u) ==
  /\ ~undefined
  /\ phase[u] = "user"
  /\ connected[u] \/ reader = u
  /\ \A w \in Conns : Len(outbox[w]) <= MaxQueued
  /\ reader' = u
  /\ UNCHANGED <<phase, view>>

Defined == undefined' = FALSE /\ UNCHANGED registryVars

(* The line makes the daemon use what is not there, or never end with it.  *)
Crash ==
  /\ undefined' = TRUE
  /\ UNCHANGED <<connected, awayMessage, languageList, outbox, registryVars>>

(* sendLanguageList(): the codes of a list that is not empty               *)
YourLanguageIs(list) == ToldOf("YOURLANGUAGEIS", list)
-----------------------------------------------------------------------------
(* The constructor: the user is registered and welcomed, or neither.       *)
Connect(u, n) ==
  /\ ~undefined /\ phase[u] = "closed"
  /\ \A w \in Conns : Len(outbox[w]) <= MaxQueued
  /\ phase' = [phase EXCEPT ![u] = "user"]
  /\ reader' = NoConn
  /\ addUser(u, n)
  /\ \/ /\ addUserError(n) = "NO_ERROR"
        /\ languageList' = [languageList EXCEPT ![u] = <<DefaultLanguage>>]
        /\ Reply(u, <<Told("OTHER"), YourLanguageIs(<<DefaultLanguage>>)>>)
     \/ addUserError(n) # "NO_ERROR" /\ UNCHANGED <<languageList, outbox>>
  /\ UNCHANGED <<connected, awayMessage, view, undefined>>

(* The poll loop deletes the connection, the protocol and its user.        *)
Lose(u) ==
  /\ ~undefined /\ phase[u] = "user"
  /\ phase' = [phase EXCEPT ![u] = "gone"]
  /\ connected' = [connected EXCEPT ![u] = FALSE]
  /\ awayMessage' = [awayMessage EXCEPT ![u] = Empty]
  /\ languageList' = [languageList EXCEPT ![u] = <<>>]
  /\ outbox' = [outbox EXCEPT ![u] = <<>>]
  /\ view' = [view EXCEPT ![u] = FirstView]
  /\ reader' = NoConn
  /\ UNCHANGED <<undefined, registryVars>>

(* Where messages speak of a matter, and what the last that does says of it*)
Speaking(messages, matter) == {i \in DOMAIN messages : messages[i].numeric \in matter}
LastWord(messages, matter) == messages[Max(Speaking(messages, matter))]

AwayNumerics == {"NOWAWAY", "UNAWAY"}
LanguageNumerics == {"YOURLANGUAGEIS"}

(* What a client that knows v knows once it has read some messages         *)
Learnt(v, messages) ==
  [away |-> IF Speaking(messages, AwayNumerics) = {} THEN v.away
            ELSE LET m == LastWord(messages, AwayNumerics)
                 IN IF m.numeric = "NOWAWAY" THEN m.of ELSE Empty,
   languages |-> IF Speaking(messages, LanguageNumerics) = {} THEN v.languages
                 ELSE LastWord(messages, LanguageNumerics).of]

(* The poll loop writes what is queued, and the client reads it.           *)
Read(u) ==
  /\ ~undefined /\ phase[u] = "user" /\ outbox[u] # <<>>
  /\ view' = [view EXCEPT ![u] = Learnt(@, outbox[u])]
  /\ outbox' = [outbox EXCEPT ![u] = <<>>]
  /\ reader' = NoConn
  /\ UNCHANGED <<own, undefined, registryVars>>
-----------------------------------------------------------------------------
(* The line is refused before any handler sees it, or its command has only *)
(* something to tell.                                                      *)
answer(u) ==
  /\ Line(u) /\ Defined
  /\ Reply(u, <<Told("OTHER")>>)
  /\ UNCHANGED <<connected, awayMessage, languageList>>

(* What the user is told of being away, with the message that is kept, or  *)
(* of being here, whatever it asked for                                    *)
doEventAwayToggle(message) ==
  IF message = Empty THEN Told("UNAWAY")
  ELSE ToldOf("NOWAWAY", delocaliseStr(outputCharConvDesc, message))

(* Mutant: the event comes before the message is kept.                     *)
setAwayTooLate(u, reason) ==
  /\ awayMessage' = [awayMessage EXCEPT ![u] = reason]
  /\ Reply(u, <<doEventAwayToggle(awayMessage[u])>>)

setAway(u, reason) ==
  /\ awayMessage' = [awayMessage EXCEPT ![u] = reason]
  /\ Reply(u, <<doEventAwayToggle(reason)>>)

setHere(u) ==
  /\ awayMessage' = [awayMessage EXCEPT ![u] = Empty]
  /\ Reply(u, <<doEventAwayToggle(Empty)>>)

(* The texts that localiseStr() does not come back from: they have an      *)
(* illegal sequence.                                                       *)
Endless == {text \in Spoken : convertChars(inputCharConvDesc, text).result = "forever"}

(* AWAY with a reason, or without one.  An empty reason is as good as none,*)
(* and one that ends within a character is empty.                          *)
handleAWAY(u) ==
  /\ Line(u)
  /\ \/ Defined /\ setHere(u)
     \/ \E text \in Spoken \ Endless :
          Defined /\ setAway(u, localiseStr(inputCharConvDesc, text))
     \/ Endless # {} /\ Crash
  /\ UNCHANGED <<connected, languageList>>

Codes == Languages \cup {NullLanguage}

(* Mutant: one language more is taken than there may be.                   *)
takeCodeOneMore(s, code) ==
  CASE s.full -> s
    [] ~s.full /\ code \notin Codes -> [s EXCEPT !.complaints = @ + 1]
    [] ~s.full /\ code \in Codes /\ Len(s.list) > MaxLanguages ->
         [s EXCEPT !.complaints = @ + 1, !.full = TRUE]
    [] OTHER -> [s EXCEPT !.list = Append(@, code)]

(* One round of the loop of LANGUAGE: there is a complaint of a code that  *)
(* is not known, and one that would be too many is the last looked at.     *)
takeCode(s, code) ==
  CASE s.full -> s
    [] ~s.full /\ code \notin Codes -> [s EXCEPT !.complaints = @ + 1]
    [] ~s.full /\ code \in Codes /\ Len(s.list) = MaxLanguages ->
         [s EXCEPT !.complaints = @ + 1, !.full = TRUE]
    [] OTHER -> [s EXCEPT !.list = Append(@, code)]

(* What the loop makes of the codes: the languages, the number of things it*)
(* has complained of, and whether there were too many languages            *)
Considered(codes) ==
  LET after[n \in 0..Len(codes)] ==
        IF n = 0 THEN [list |-> <<>>, complaints |-> 0, full |-> FALSE]
        ELSE takeCode(after[n - 1], codes[n])
  IN after[Len(codes)]

(* The user is told of its languages, behind what it has been told already.*)
doEventLanguageChange(list) == YourLanguageIs(list)

setLanguageList(u, list, complaints) ==
  /\ languageList' = [languageList EXCEPT ![u] = list]
  /\ Reply(u, Append(complaints, doEventLanguageChange(list)))

(* LANGUAGE with codes: those that are known become the user's list, unless*)
(* there are too many.  A list that begins with no language cannot be told.*)
handleLANGUAGE(u, codes) ==
  LET seen == Considered(codes)
      complaints == [i \in 1..seen.complaints |-> Told("OTHER")]
  IN /\ Line(u)
     /\ \/ /\ seen.full \/ seen.list = <<>>
           /\ Reply(u, complaints)
           /\ Defined /\ UNCHANGED languageList
        \/ /\ ~seen.full /\ seen.list # <<>> /\ Head(seen.list) # NullLanguage
           /\ setLanguageList(u, seen.list, complaints)
           /\ Defined
        \/ /\ ~seen.full /\ seen.list # <<>> /\ Head(seen.list) = NullLanguage
           /\ Crash
     /\ UNCHANGED <<connected, awayMessage>>

(* LANGUAGE without codes marks the first of the user's languages, which a *)
(* user that was refused does not have.                                    *)
listLANGUAGE(u) ==
  /\ Line(u)
  /\ \/ languageList[u] # <<>> /\ Defined /\ Reply(u, <<Told("OTHER")>>)
     \/ languageList[u] = <<>> /\ Crash
  /\ UNCHANGED <<connected, awayMessage, languageList>>
-----------------------------------------------------------------------------
(* A name in a list of targets has an entry whose user is gone.            *)
Dangles(names) == \E i \in DOMAIN names :
  findUser(names[i]) # NoConn /\ phase[findUser(names[i])] = "gone"

(* Mutant: the counter is looked at before it is lowered.                  *)
ServedToTheLimit(targets) ==
  IF Len(targets) < MaxTargets THEN targets ELSE SubSeq(targets, 1, MaxTargets)

(* The targets that are served: the counter is lowered before it is looked *)
(* at.                                                                     *)
Served(targets) ==
  IF Len(targets) < MaxTargets THEN targets ELSE SubSeq(targets, 1, MaxTargets - 1)

TooMany(targets) ==
  IF Len(targets) < MaxTargets THEN <<>> ELSE <<Told("TOOMANYTARGETS")>>

(* What a user is sent of a sender, which is always a client               *)
doEventReceivePrivateMessage(from) == ToldOf("PRIVMSG", from)
doEventReceivePrivateNotice(from) == ToldOf("NOTICE", from)

(* sendMessage() and sendNotice() accept what anybody sends.               *)
Accepted(command, from) ==
  IF command = "PRIVMSG" THEN doEventReceivePrivateMessage(from)
  ELSE doEventReceivePrivateNotice(from)

(* Mutant: after a target that was found the loop falls through.           *)
OutcomeFallsThrough(command, u, n, w) ==
  LET v == findUser(n)
  IN (IF w = v THEN <<Accepted(command, u)>> ELSE <<>>)
     \o (IF command = "PRIVMSG" /\ w = u THEN <<ToldOf("NOSUCHNICK", n)>> ELSE <<>>)

(* Mutant: a sender is told who is away whatever it sent.                  *)
OutcomeAlwaysAway(command, u, n, w) ==
  LET v == findUser(n)
  IN (IF w = v /\ v # NoConn THEN <<Accepted(command, u)>> ELSE <<>>)
     \o (IF w = u /\ v # NoConn /\ isAway(v) THEN <<ToldOf("AWAY", v)>> ELSE <<>>)

(* What one target of a message of u puts into the outbox of w             *)
Outcome(command, u, n, w) ==
  LET v == findUser(n)
      told == command = "PRIVMSG" /\ w = u
  IN IF v = NoConn THEN (IF told THEN <<ToldOf("NOSUCHNICK", n)>> ELSE <<>>)
     ELSE (IF w = v THEN <<Accepted(command, u)>> ELSE <<>>)
          \o (IF told /\ isAway(v) THEN <<ToldOf("AWAY", v)>> ELSE <<>>)

(* doMessage(), for PRIVMSG and NOTICE.  The text is localised for each    *)
(* target that was found.                                                  *)
doMessage(command, u, targets) ==
  LET served == Served(targets)
      found == \E i \in DOMAIN served : findUser(served[i]) # NoConn
  IN /\ Line(u)
     /\ \/ /\ ~Dangles(served) /\ (found => Spoken # Endless) /\ Defined
           /\ Send([w \in Conns |->
                FlattenSeq([i \in DOMAIN served |-> Outcome(command, u, served[i], w)])
                \o (IF command = "PRIVMSG" /\ w = u THEN TooMany(targets) ELSE <<>>)])
        \/ (Dangles(served) \/ (found /\ Endless # {})) /\ Crash
     /\ UNCHANGED <<connected, awayMessage, languageList>>

(* SQUERY finds users, who are no services, or nobody.                     *)
handleSQUERY(u, targets) ==
  LET served == Served(targets)
  IN /\ Line(u)
     /\ \/ /\ ~Dangles(served) /\ Defined
           /\ Reply(u, [i \in DOMAIN served |-> Told("OTHER")] \o TooMany(targets))
        \/ Dangles(served) /\ Crash
     /\ UNCHANGED <<connected, awayMessage, languageList>>

(* ISON, and USERHOST for the first five names: one answer for all that    *)
(* were found                                                              *)
lookUp(u, names) ==
  /\ Line(u)
  /\ \/ ~Dangles(names) /\ Defined /\ Reply(u, <<Told("OTHER")>>)
     \/ Dangles(names) /\ Crash
  /\ UNCHANGED <<connected, awayMessage, languageList>>

(* QUIT: the registry first, then an ERROR and a goodbye                   *)
handleQUIT(u) ==
  /\ Line(u)
  /\ quit(u)
  /\ Reply(u, <<Told("OTHER")>>)
  /\ connected' = [connected EXCEPT ![u] = FALSE]
  /\ UNCHANGED <<awayMessage, languageList, undefined>>
-----------------------------------------------------------------------------
Next ==
  \E u \in Conns :
    \/ \E n \in Names : Connect(u, n)
    \/ Lose(u) \/ Read(u)
    \/ answer(u) \/ handleAWAY(u) \/ listLANGUAGE(u) \/ handleQUIT(u)
    \/ \E codes \in CodeLists : handleLANGUAGE(u, codes)
    \/ \E targets \in TargetLists :
         \/ \E command \in {"PRIVMSG", "NOTICE"} : doMessage(command, u, targets)
         \/ handleSQUERY(u, targets) \/ lookUp(u, targets)

Spec == Init /\ [][Next]_vars
-----------------------------------------------------------------------------
(* What is kept of the texts that clients say, and what others see of it   *)
Kept == {localiseStr(inputCharConvDesc, text) : text \in Spoken} \cup {Empty}
Shown == {delocaliseStr(outputCharConvDesc, text) : text \in Kept}

(* The lists a user can have: within the limit, and with a language first  *)
Lists ==
  {list \in BoundedSeq(Codes, MaxLanguages) : list # <<>> => Head(list) # NullLanguage}

(* All that is ever queued                                                 *)
Replies ==
  {Told(numeric) : numeric \in {"OTHER", "TOOMANYTARGETS", "UNAWAY"}}
  \cup {ToldOf("NOWAWAY", text) : text \in Shown}
  \cup {ToldOf("YOURLANGUAGEIS", list) : list \in Lists}
  \cup {ToldOf(numeric, v) : numeric \in {"PRIVMSG", "NOTICE", "AWAY"}, v \in Conns}
  \cup {ToldOf("NOSUCHNICK", n) : n \in Names}

(* Every variable has its type; a user never has more languages than the   *)
(* limit, nor none first.                                                  *)
ChatTypeOK ==
  /\ phase \in [Conns -> {"closed", "user", "gone"}]
  /\ connected \in [Conns -> BOOLEAN] /\ undefined \in BOOLEAN
  /\ reader \in Conns \cup {NoConn}
  /\ awayMessage \in [Conns -> Kept]
  /\ languageList \in [Conns -> Lists]
  /\ view \in [Conns -> [away : Shown, languages : Lists]]
  /\ outbox \in [Conns -> Seq(Replies)]

(* What a client knows when it has read all that is queued for it is what  *)
(* the daemon keeps: whether it is away, with which message, as others are *)
(* told it, and its languages.                                             *)
ClientsKnowTheirUsers ==
  \A u \in Conns : phase[u] = "user" =>
    Learnt(view[u], outbox[u]) =
      [away |-> delocaliseStr(outputCharConvDesc, awayMessage[u]),
       languages |-> languageList[u]]

(* What a step adds to the outbox of w, and how often m is in it           *)
Added(w) == SubSeq(outbox'[w], Len(outbox[w]) + 1, Len(outbox'[w]))
Times(m, w) == Cardinality({i \in DOMAIN Added(w) : Added(w)[i] = m})

(* Where targets names v; NoConn is nobody                                 *)
Naming(targets, v) == {i \in DOMAIN targets : findUser(targets[i]) = v}

(* Every name in a PRIVMSG that stands in front of the place of the limit  *)
(* comes to something once: its holder gets the message, or the sender     *)
(* hears that there is nobody.  Names at that place and behind it come to  *)
(* nothing, and then the sender is told, once, of too many targets.        *)
ServedOnce(u, targets) ==
  LET within(places) == {i \in places : i < MaxTargets}
  IN /\ Times(Told("TOOMANYTARGETS"), u) = IF Len(targets) < MaxTargets THEN 0 ELSE 1
     /\ \A v \in Conns :
          Times(ToldOf("PRIVMSG", u), v) = Cardinality(within(Naming(targets, v)))
     /\ \A n \in Names :
          Times(ToldOf("NOSUCHNICK", n), u)
            = Cardinality(within({i \in Naming(targets, NoConn) : targets[i] = n}))

TargetsAreServed ==
  [][\A u \in Conns, targets \in TargetLists :
       doMessage("PRIVMSG", u, targets) /\ ~undefined' => ServedOnce(u, targets)]_vars

(* Nothing is ever sent in answer to a NOTICE, so that two programs that   *)
(* answer each other come to rest.                                         *)
OnlyNotices(u) ==
  \A w \in Conns : \A i \in DOMAIN Added(w) : Added(w)[i] = ToldOf("NOTICE", u)

NoticesAreSilent ==
  [][\A u \in Conns, targets \in TargetLists :
       doMessage("NOTICE", u, targets) => OnlyNotices(u)]_vars
=============================================================================
