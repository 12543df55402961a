------------------------------- MODULE Logging ------------------------------
(***************************************************************************)
(* The loggers of the daemon (registerLogger() and log() in                *)
(* src/lib/daemon.cpp), the masks that select what each of them takes      *)
(* (src/lib/logger.cpp.tpl), and the lines that the file logger writes     *)
(* (src/mod_filelog/filelog.cpp).                                          *)
(*                                                                         *)
(* A logger is known by the place of its module in the list of modules, a  *)
(* bit of a mask by its name.  What a logger has been given is a sequence  *)
(* of messages; how the file logger writes one is a function of its format,*)
(* the message and the time, here as a sequence of fields.                 *)
(***************************************************************************)
EXTENDS Integers, Sequences, FiniteSets, SequencesExt

CONSTANTS
  MaskNames,  \* Logger::maskTable: the names of the masks, in upper case
  Formats,    \* formats of the file logger: sequences of characters
  Now         \* the time when the modules start, as struct tm has it

(* A word of LOGMASK, with what is in front of it                          *)
Words == [prefix : STRING, word : STRING]

ASSUME LoggingAssumption ==
  /\ MaskNames \in Seq(STRING) /\ {"HOUSEKEEPING", "WARNING"} \subseteq ToSet(MaskNames)
  /\ Formats \subseteq Seq(STRING)

VARIABLES
  loggers,    \* Daemon::loggers: whether each is ok()
  logged      \* the messages each logger has taken

(* What is registered with the daemon has a place in a map.                *)
withEntry(map, key, value) ==
  [k \in DOMAIN map \cup {key} |-> IF k = key THEN value ELSE map[k]]

Everything == ToSet(MaskNames)

(* Mutant: a word that is to be taken away is added.                       *)
withWordAdded(mask, w) ==
  mask \cup IF w.word \in {"EVERYTHING", "ALL"} THEN Everything ELSE Everything \cap {w.word}

(* A word of LOGMASK changes the mask, unless nothing has its name.        *)
withWord(mask, w) ==
  LET bits == IF w.word \in {"EVERYTHING", "ALL"} THEN Everything
              ELSE Everything \cap {w.word}
  IN IF w.prefix = "-" THEN mask \ bits ELSE mask \cup bits

(* varHandleLogMask(): LOGMASK without words logs everything.              *)
maskOf(words) ==
  LET after[i \in 0..Len(words)] ==
        IF i = 0 THEN {} ELSE withWord(after[i - 1], words[i])
  IN IF words = <<>> THEN Everything ELSE after[Len(words)]

(* Logger::Config: the last LOGMASK of a class counts; without one nothing *)
(* is logged.                                                              *)
logMask(masks) == IF masks = <<>> THEN {} ELSE maskOf(Last(masks))

(* Daemon::log(): every logger that is ok and whose mask has the bit takes *)
(* the message.  Masks are those of the modules' configurations.           *)
log(message, mask, masks) ==
  logged' = [l \in DOMAIN loggers' |->
    LET before == IF l \in DOMAIN logged THEN logged[l] ELSE <<>>
    IN IF loggers'[l] /\ mask \in logMask(masks[l]) THEN Append(before, message)
       ELSE before]
-----------------------------------------------------------------------------
(* Logger::getMaskMapper() searches the table from the entry behind its end*)
(* down to the second; what it does not find is the first.  The entry that *)
(* is not there may look like any.                                         *)
maskMapper(mask) == {mask, "behind the table"}

(* Fields: a number padded with zeros or blanks, a number, text, a message *)
Zeros(width, n) == [kind |-> "zeros", width |-> width, of |-> n]
Blanks(width, n) == [kind |-> "blanks", width |-> width, of |-> n]
Plain(n) == [kind |-> "number", of |-> n]
Text(t) == [kind |-> "text", of |-> t]
Message(m) == [kind |-> "message", of |-> m]

(* The 12-hour clock of the file logger, which shows midnight as 1 and noon*)
(* as 0.                                                                   *)
hour12(hour) == IF hour < 12 THEN hour + 1 ELSE hour - 12

Half(hour) == IF hour < 12 THEN "AM" ELSE "PM"

(* The time of day, by either clock                                        *)
hoursAndMinutes(hours, t) == <<Zeros(2, hours), Text(":"), Zeros(2, t.min)>>
hoursToSeconds(hours, t) == hoursAndMinutes(hours, t) \o <<Text(":"), Zeros(2, t.sec)>>
twelveHours(t) == hoursToSeconds(hour12(t.hour), t) \o <<Text(" "), Text(Half(t.hour))>>

(* What a character behind a percent sign stands for                       *)
Field(c, message, mapper, t) ==
  CASE c \in {"!", "#", "@"} -> <<Text(mapper)>>
    [] c = "$" -> <<Message(message)>>
    [] c \in {"%", "n", "t"} -> <<Text(c)>>
    [] c = "C" -> <<Plain((t.year + 1900) \div 100)>>
    [] c = "d" -> <<Zeros(2, t.mday)>>
    [] c = "e" -> <<Blanks(2, t.mday)>>
    [] c = "H" -> <<Zeros(2, t.hour)>>
    [] c = "I" -> <<Zeros(2, hour12(t.hour))>>
    [] c = "j" -> <<Zeros(3, t.yday)>>
    [] c = "k" -> <<Blanks(2, t.hour)>>
    [] c = "l" -> <<Blanks(2, hour12(t.hour))>>
    [] c = "m" -> <<Zeros(2, t.mon + 1)>>
    [] c = "M" -> <<Zeros(2, t.min)>>
    [] c \in {"p", "P"} -> <<Text(Half(t.hour))>>
    [] c = "r" -> twelveHours(t)
    [] c = "R" -> hoursAndMinutes(t.hour, t)
    [] c = "s" -> <<Plain(t.seconds)>>
    [] c = "S" -> <<Zeros(2, t.sec)>>
    [] c = "T" -> hoursToSeconds(t.hour, t)
    [] c = "u" -> <<Plain(t.wday + 1)>>
    [] c = "w" -> <<Plain(t.wday)>>
    [] c = "y" -> <<Zeros(2, t.year % 100)>>
    [] c = "Y" -> <<Plain(t.year + 1900)>>
    [] OTHER -> <<>>

(* Mutant: a percent sign that is doubled begins a conversion.             *)
writtenRescans(s, c, message, mapper, t) ==
  IF c = "%" THEN [line |-> s.line, behind |-> TRUE]
  ELSE [line |-> s.line \o (IF s.behind THEN Field(c, message, mapper, t) ELSE <<Text(c)>>),
        behind |-> FALSE]

(* One more character of the format: behind a percent sign it stands for   *)
(* something.                                                              *)
written(s, c, message, mapper, t) ==
  IF ~s.behind /\ c = "%" THEN [line |-> s.line, behind |-> TRUE]
  ELSE [line |-> s.line \o (IF s.behind THEN Field(c, message, mapper, t) ELSE <<Text(c)>>),
        behind |-> FALSE]

(* FileLog::logLine(): what the format makes of a message.  A percent sign *)
(* at its end is dropped.                                                  *)
logLine(format, message, mapper, t) ==
  LET after[i \in 0..Len(format)] ==
        IF i = 0 THEN [line |-> <<>>, behind |-> FALSE]
        ELSE written(after[i - 1], format[i], message, mapper, t)
  IN after[Len(format)].line

(* What the file of a logger that has taken some messages holds            *)
fileOf(messages, format, mapper) ==
  FlattenSeq([i \in DOMAIN messages |-> logLine(format, messages[i], mapper, Now)])

=============================================================================
