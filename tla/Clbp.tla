-------------------------------- MODULE Clbp --------------------------------
(***************************************************************************)
(* How the command line based protocols cut the chunks that a socket       *)
(* yields into lines: LibCLBP::Input::handleInput().  One action is one    *)
(* iteration of its loop, since each iteration calls parseLine().  Only    *)
(* Connection::handleInput() calls it, and never with an empty chunk.      *)
(***************************************************************************)
EXTENDS Integers, SequencesExt

CONSTANTS
  Text,         \* the characters that do not end a line
  CR, LF,       \* the characters of EOL_CR_LF
  MaxStream,    \* bound on the length of all a peer sends
  MaxChunk      \* what one read or write of the socket takes at most

ASSUME ClbpAssumption ==
  /\ CR # LF /\ {CR, LF} \cap Text = {}
  /\ MaxStream \in Nat /\ MaxChunk \in Nat

VARIABLES
  inputQueue,   \* Input::inputQueue
  data,         \* the chunk in the hands of handleInput(), <<>> between calls
  pos,          \* where in data the next line starts
  parsed,       \* history: the arguments parseLine() was called with
  stream,       \* history: all the peer has sent
  leftover      \* history: a chunk went on after the end of a line, and
                \* stopped short of the end of the next one

clbpVars == <<inputQueue, data, pos, parsed, stream, leftover>>

EOL_CR_LF == {CR, LF}

ClbpInit ==
  /\ inputQueue = <<>> /\ data = <<>> /\ pos = 1
  /\ parsed = <<>> /\ stream = <<>>
  /\ leftover = FALSE
-----------------------------------------------------------------------------
(* handleInput() is called with a chunk.                                   *)
handleInput(chunk) ==
  /\ data = <<>>
  /\ chunk # <<>>
  /\ Len(stream) + Len(chunk) <= MaxStream
  /\ data' = chunk /\ pos' = 1
  /\ stream' = stream \o chunk
  /\ UNCHANGED <<inputQueue, parsed, leftover>>

endsFromPos == {i \in pos..Len(data) : data[i] \in EOL_CR_LF}

(* Mutant: only the text after the last line is buffered, in place of what *)
(* the buffer held.                                                        *)
incompleteLineReplaces ==
  /\ data # <<>> /\ endsFromPos = {}
  /\ inputQueue' = SubSeq(data, pos, Len(data))
  /\ data' = <<>> /\ pos' = 1
  /\ leftover' = (leftover \/ pos > 1)
  /\ UNCHANGED <<parsed, stream>>

(* No line ends in the rest of the chunk: all of the chunk is buffered, and*)
(* not only its rest.                                                      *)
incompleteLine ==
  /\ data # <<>> /\ endsFromPos = {}
  /\ inputQueue' = inputQueue \o data
  /\ data' = <<>> /\ pos' = 1
  /\ leftover' = (leftover \/ pos > 1)
  /\ UNCHANGED <<parsed, stream>>

(* Where the next line starts: "\r\n" is one terminator.                   *)
afterLine(eolPos) ==
  IF data[eolPos] = CR /\ eolPos < Len(data) /\ data[eolPos + 1] = LF
  THEN eolPos + 2 ELSE eolPos + 1

(* Mutant: the last position of the chunk is taken to be inside it.        *)
continueFromLate(next) ==
  IF next > Len(data) + 1
  THEN data' = <<>> /\ pos' = 1
  ELSE pos' = next /\ UNCHANGED data

(* The loop ends at the end of the chunk.                                  *)
continueFrom(next) ==
  IF next > Len(data)
  THEN data' = <<>> /\ pos' = 1
  ELSE pos' = next /\ UNCHANGED data

(* Mutant: the buffer is kept once it has been parsed.                     *)
completeLineKeepsQueue ==
  /\ endsFromPos # {}
  /\ LET eolPos == Min(endsFromPos)
     IN /\ parsed' = Append(parsed, inputQueue \o SubSeq(data, pos, eolPos - 1))
        /\ continueFrom(afterLine(eolPos))
  /\ UNCHANGED <<inputQueue, stream, leftover>>

(* A line ends: it is parsed, behind what is buffered.                     *)
completeLine ==
  /\ endsFromPos # {}
  /\ LET eolPos == Min(endsFromPos)
     IN /\ parsed' = Append(parsed, inputQueue \o SubSeq(data, pos, eolPos - 1))
        /\ continueFrom(afterLine(eolPos))
  /\ inputQueue' = <<>>
  /\ UNCHANGED <<stream, leftover>>
-----------------------------------------------------------------------------
(* One round of the loop                                                   *)
parse == incompleteLine \/ completeLine
-----------------------------------------------------------------------------
(* The lines of a stream as its sender means them, read character by       *)
(* character: a line is what is between two of CR and LF, and empty ones,  *)
(* which parseLine() ignores, do not count.                                *)
withLine(lines, line) == IF line = <<>> THEN lines ELSE Append(lines, line)

Nothing == [lines |-> <<>>, text |-> <<>>]

Reading(r, c) ==
  IF c \in EOL_CR_LF THEN [lines |-> withLine(r.lines, r.text), text |-> <<>>]
  ELSE [r EXCEPT !.text = Append(@, c)]

Meaning(s) ==
  LET read[n \in 0..Len(s)] == IF n = 0 THEN Nothing ELSE Reading(read[n - 1], s[n])
  IN read[Len(s)]

Lines == Meaning(stream).lines

(* What was parsed, but for empty lines                                    *)
NotEmpty(lines) ==
  LET found[n \in 0..Len(lines)] ==
        IF n = 0 THEN <<>> ELSE withLine(found[n - 1], lines[n])
  IN found[Len(lines)]

Parsed == NotEmpty(parsed)

(* Every variable has its type, and the loop never looks past the chunk.   *)
ClbpTypeOK ==
  /\ inputQueue \in Seq(Text \cup EOL_CR_LF)
  /\ data \in Seq(Text \cup EOL_CR_LF)
  /\ pos \in 1..Max({1, Len(data)})
  /\ parsed \in Seq(Seq(Text \cup EOL_CR_LF))
  /\ stream \in Seq(Text \cup EOL_CR_LF)
  /\ leftover \in BOOLEAN

(* However the stream is cut into chunks, between the bytes of "\r\n" too, *)
(* every line is parsed once, in order, and no text of it is lost: what    *)
(* handleInput() gives parseLine() ends in the line.                       *)
EveryLineIsParsed ==
  data = <<>> =>
    LET meant == Lines
        found == Parsed
    IN /\ Len(found) = Len(meant)
       /\ \A k \in DOMAIN meant : IsSuffix(meant[k], found[k])

(* As long as no chunk goes on after a line without reaching the end of    *)
(* another, which is when the loop buffers what it has parsed already, the *)
(* lines parsed are the lines sent, and the buffer is what has come of the *)
(* next one.                                                               *)
LinesAreExact ==
  data = <<>> /\ ~leftover =>
    /\ Parsed = Lines
    /\ inputQueue = Meaning(stream).text

(* include/kineircd/libclbp/input.h:59, "Parse a line": parseLine() is     *)
(* given a line, with no terminator inside it.  A chunk such as "a\nb"     *)
(* leaves "a\nb" in the buffer, to be parsed in front of the next line.    *)
ParsesLines ==
  \A k \in DOMAIN parsed : \A i \in DOMAIN parsed[k] :
    parsed[k][i] \notin EOL_CR_LF
=============================================================================
