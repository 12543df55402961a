------------------------------ MODULE Messages ------------------------------
(***************************************************************************)
(* Messages from one end of a connection to the other: how LibIRC2::Output *)
(* writes them, how the output queue of LibCLBP is withdrawn and written to*)
(* the socket, and how the chunks that the other end reads become messages *)
(* again (Clbp, and LibIRC2::Input::parseLine()).  Both ends use the       *)
(* library, as a server and its peer do.  The peer may also be one that    *)
(* sends any characters at all (todo is empty from the beginning).         *)
(***************************************************************************)
EXTENDS Clbp

CONSTANTS
  SP, COLON,    \* the characters of Text that mean something in a line
  toUpper,      \* the upper case of a character
  RawText,      \* what a peer that does not use the library sends
  MaxRaw,       \* bound on how much of it
  Scripts       \* the sequences of messages a peer that does may send

(* A word is what blanks can be put around.                                *)
Word == {w \in Seq(Text \ {SP}) : w # <<>> /\ w[1] # COLON}

(* What the library is asked to send: commands are words in upper case, all*)
(* parameters but the last are words too, and nothing has the end of a line*)
(* inside.  A numeric is sent to somebody, whose name may be the last word.*)
Sendable ==
  {m \in [by : {"sendMessage", "sendMessageFrom", "sendNumeric"}, origin : Seq(Text \ {SP}),
          command : Word, parameters : Seq(Seq(Text))] :
     /\ \A i \in DOMAIN m.command : toUpper[m.command[i]] = m.command[i]
     /\ \A k \in 1..(Len(m.parameters) - 1) : m.parameters[k] \in Word
     /\ m.by = "sendMessage" => m.origin = <<>>
     /\ m.by = "sendNumeric" => m.parameters # <<>> /\ m.parameters[1] \in Word}

ASSUME MessagesAssumption ==
  /\ {SP, COLON} \subseteq Text /\ SP # COLON /\ RawText \subseteq Text
  /\ toUpper \in [Text -> Text]
  /\ MaxRaw \in Nat /\ <<>> \in Scripts /\ Scripts \subseteq Seq(Sendable)

VARIABLES
  todo,         \* the messages that are not sent yet
  sent,         \* history: the messages that are
  outputQueue,  \* Output::outputQueue
  wire,         \* what is written and not read
  short         \* history: a write() took less than it was given

vars == <<clbpVars, todo, sent, outputQueue, wire, short>>

Init ==
  /\ ClbpInit
  /\ todo \in Scripts /\ sent = <<>>
  /\ outputQueue = <<>> /\ wire = <<>>
  /\ short = FALSE
-----------------------------------------------------------------------------
(* The last parameter may be any text, and comes behind a colon.           *)
Spaced(words) == FlattenSeq([i \in DOMAIN words |-> <<SP>> \o words[i]])
sendMessage(command, p) ==
  IF p = <<>> THEN command
  ELSE command \o Spaced(Front(p)) \o <<SP, COLON>> \o Last(p)

sendMessageFrom(origin, command, p) ==
  <<COLON>> \o origin \o <<SP>> \o sendMessage(command, p)

(* A numeric is a message of this server to a nickname.                    *)
sendNumeric(server, numeric, nick, p) ==
  IF p = <<>> THEN <<COLON>> \o server \o Spaced(<<numeric, nick>>)
  ELSE sendMessageFrom(server, numeric, <<nick>> \o p)

LineOf(m) ==
  CASE m.by = "sendMessage" -> sendMessage(m.command, m.parameters)
    [] m.by = "sendMessageFrom" -> sendMessageFrom(m.origin, m.command, m.parameters)
    [] m.by = "sendNumeric" ->
         sendNumeric(m.origin, m.command, Head(m.parameters), Tail(m.parameters))

(* The words of a line so far: those that have ended, the one that goes on,*)
(* and whether it goes on to the end of the line.                          *)
NoWords == [ended |-> <<>>, word |-> <<>>, last |-> FALSE]

(* What comes before the parameters: the command, and an origin in front of*)
(* it if the line begins with a colon.                                     *)
HasOrigin(words) == words # <<>> /\ words[1] # <<>> /\ words[1][1] = COLON
CommandAt(words) == IF HasOrigin(words) THEN 2 ELSE 1

(* Mutant: a blank ends the last parameter as well.                        *)
nextCharacterEndsLast(r, c) ==
  CASE c = SP -> [r EXCEPT !.ended = Append(@, r.word), !.word = <<>>]
    [] c = COLON /\ ~r.last /\ r.word = <<>> /\ Len(r.ended) >= CommandAt(r.ended) ->
         [r EXCEPT !.last = TRUE]
    [] OTHER -> [r EXCEPT !.word = Append(@, c)]

(* Words end at blanks, until a parameter begins with a colon.             *)
nextCharacter(r, c) ==
  CASE c = SP /\ ~r.last -> [r EXCEPT !.ended = Append(@, r.word), !.word = <<>>]
    [] c = COLON /\ ~r.last /\ r.word = <<>> /\ Len(r.ended) >= CommandAt(r.ended) ->
         [r EXCEPT !.last = TRUE]
    [] OTHER -> [r EXCEPT !.word = Append(@, c)]

Cut(line) ==
  LET read[n \in 0..Len(line)] ==
        IF n = 0 THEN NoWords ELSE nextCharacter(read[n - 1], line[n])
  IN read[Len(line)]

Words(r) == Append(r.ended, r.word)

(* parseLine(): the words of a line are an origin behind a colon, if there *)
(* is one, the command, and parameters up to the first behind a colon,     *)
(* which goes on to the end of the line.                                   *)
parseLine(line) ==
  LET words == Words(Cut(line))
      at == CommandAt(words)
  IN [origin |-> IF HasOrigin(words) THEN Tail(words[1]) ELSE <<>>,
      command |-> IF at > Len(words) THEN <<>>
                  ELSE [i \in DOMAIN words[at] |-> toUpper[words[at][i]]],
      parameters |-> SubSeq(words, at + 1, Len(words))]

(* A line without a command goes no further.                               *)
withMessage(messages, m) == IF m.command = <<>> THEN messages ELSE Append(messages, m)

PassedOn(lines) ==
  LET found[n \in 0..Len(lines)] ==
        IF n = 0 THEN <<>> ELSE withMessage(found[n - 1], parseLine(lines[n]))
  IN found[Len(lines)]

Arrived == PassedOn(parsed)
-----------------------------------------------------------------------------
(* sendRawLine(): the line and its end go into the output queue.           *)
send ==
  /\ todo # <<>>
  /\ outputQueue' = outputQueue \o LineOf(Head(todo)) \o <<CR, LF>>
  /\ sent' = Append(sent, Head(todo)) /\ todo' = Tail(todo)
  /\ UNCHANGED <<clbpVars, wire, short>>

(* Mutant: a write that was short is written again, from its beginning.    *)
sendOutputAgain(taken) ==
  LET length == Min({MaxChunk, Len(outputQueue)})
  IN /\ outputQueue # <<>> /\ taken \in 0..length
     /\ taken < length => ~short
     /\ wire' = wire \o SubSeq(outputQueue, 1, taken)
     /\ outputQueue' = IF taken < length THEN outputQueue
                       ELSE SubSeq(outputQueue, length + 1, Len(outputQueue))
     /\ short' = (short \/ taken < length)
  /\ UNCHANGED <<clbpVars, todo, sent>>

(* What is withdrawn from the queue is gone from it, and write() takes of  *)
(* it what it will.  It takes less once at most here.                      *)
sendOutput(taken) ==
  LET length == Min({MaxChunk, Len(outputQueue)})
  IN /\ outputQueue # <<>> /\ taken \in 0..length
     /\ taken < length => ~short
     /\ wire' = wire \o SubSeq(outputQueue, 1, taken)
     /\ outputQueue' = SubSeq(outputQueue, length + 1, Len(outputQueue))
     /\ short' = (short \/ taken < length)
  /\ UNCHANGED <<clbpVars, todo, sent>>

(* The other end reads some of what there is.                              *)
receive(n) ==
  /\ n <= Len(wire)
  /\ handleInput(SubSeq(wire, 1, n))
  /\ wire' = SubSeq(wire, n + 1, Len(wire))
  /\ UNCHANGED <<todo, sent, outputQueue, short>>

RawChunks(length) == UNION {[1..n -> RawText \cup EOL_CR_LF] : n \in 1..length}

(* It reads what a peer sends that means nothing by it.                    *)
receiveRaw ==
  /\ todo = <<>> /\ sent = <<>> /\ data = <<>>
  /\ \E chunk \in RawChunks(MaxRaw - Len(stream)) : handleInput(chunk)
  /\ UNCHANGED <<todo, sent, outputQueue, wire, short>>

Next ==
  \/ send
  \/ \E taken \in 0..MaxChunk : sendOutput(taken)
  \/ \E n \in 1..MaxChunk : receive(n)
  \/ receiveRaw
  \/ parse /\ UNCHANGED <<todo, sent, outputQueue, wire, short>>

Spec == Init /\ [][Next]_vars
-----------------------------------------------------------------------------
(* Every variable has its type, and the loop never looks past the chunk.   *)
MessagesTypeOK ==
  /\ ClbpTypeOK
  /\ sent \o todo \in Scripts
  /\ outputQueue \in Seq(Text \cup EOL_CR_LF) /\ wire \in Seq(Text \cup EOL_CR_LF)
  /\ short \in BOOLEAN

Meant(m) == [origin |-> m.origin, command |-> m.command, parameters |-> m.parameters]

(* Unless a write was short, or a chunk ended behind the start of a line,  *)
(* what arrives are the messages that were sent, in order: the origin, the *)
(* command and every parameter, also a last one that is empty, begins with *)
(* a colon or has blanks.  Once all is read, all have arrived.             *)
MessagesArrive ==
  sent # <<>> /\ ~short /\ ~leftover =>
    /\ IsPrefix(Arrived, [k \in DOMAIN sent |-> Meant(sent[k])])
    /\ data = <<>> /\ wire = <<>> /\ outputQueue = <<>> => Len(Arrived) = Len(sent)

(* Whatever the writes take and the reads yield, more is never parsed than *)
(* was sent: a write that was short can lose messages or run two together, *)
(* but makes none.                                                         *)
MessagesDoNotMultiply ==
  sent # <<>> => Len(Parsed) <= Len(sent)
=============================================================================
