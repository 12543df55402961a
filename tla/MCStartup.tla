----------------------------- MODULE MCStartup ------------------------------
(* A services database in which one name stands for two TCP ports, with its*)
(* UDP namesake between them, and the configurations of up to three lines  *)
(* over some LISTEN classes and modules.                                   *)
EXTENDS Startup

MCServices == <<
  [names |-> {"irc"}, proto |-> "TCP", port |-> 194],
  [names |-> {"irc"}, proto |-> "UDP", port |-> 194],
  [names |-> {"ircd", "irc"}, proto |-> "TCP", port |-> 6667],
  [names |-> {"http"}, proto |-> "TCP", port |-> 80]>>

Number(n) == [text |-> "", value |-> n, whole |-> TRUE]
Name(t) == [text |-> t, value |-> 0, whole |-> FALSE]
Mixed == [text |-> "80irc", value |-> 80, whole |-> FALSE]

Line(d, sets) == [domain |-> d, sets |-> sets]
Port(p) == "PORT" :> p
Users == "ALLOWUSERS" :> TRUE

MCListenLines == {
  Line("IPV4", Port(Number(6667)) @@ Users), Line("IPV4", Port(Name("irc"))),
  Line("IPV4", Port(Mixed) @@ Users), Line("IPV6", "ADDRESS" :> "bad" @@ Port(Name("http"))),
  Line("IPX", Port(Name("irc"))),
  Line("UNIX", "ADDRESS" :> "ircd.sock" @@ Users @@ "ALLOWSERVERS" :> TRUE)}

Word(p, w) == [prefix |-> p, word |-> w]
Module(m) == [module |-> m, class |-> FALSE, variables |-> {}, masks |-> <<>>]
Class(m, variables, masks) ==
  [module |-> m, class |-> TRUE, variables |-> variables, masks |-> masks]

MCModuleLines == {
  Module("irc2registrar"), Module("irc2user"), Class("irc2user", {}, <<>>),
  Class("filelog", {"LOGMASK"},
        <<<<Word("", "ALL"), Word("-", "HOUSEKEEPING"), Word("", "NONE")>>>>),
  Class("syslog", {"LOGMASK", "IDENTITY"}, <<<<Word("-", "ALL")>>, <<>>>>),
  Class("channellog", {"CHANNELNAME"}, <<>>), Class("channellog", {"LOGMASK"}, <<<<>>>>),
  Module("missing"), Module("without symbol")}

ASSUME MCEveryPortOnce == EveryPortOnce

MCMaskNames == <<"DEBUG", "WARNING", "HOUSEKEEPING">>

MCFormats == {
  <<"%", "Y", "%", "m", "%", "d", "T", "%", "H", "%", "M", "%", "S", "Z", " ",
    "%", "!", " ", "%", "$", "%", "n">>,
  <<"%", "%", "$", "%", "q", "%", "$", "%", "r", "%">>}

MCNow == [year |-> 103, mon |-> 4, mday |-> 19, yday |-> 138, wday |-> 1,
          hour |-> 12, min |-> 0, sec |-> 0, seconds |-> 1053345600]

MCBuilds ==
  [debug : BOOLEAN, byType : BOOLEAN, reuse : BOOLEAN, standard : BOOLEAN,
   fileOpen : BOOLEAN, taken : {{}, {<<"IPV4", 194>>}}]
=============================================================================
