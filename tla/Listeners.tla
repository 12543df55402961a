----------------------------- MODULE Listeners ------------------------------
(***************************************************************************)
(* The listeners of the daemon (src/lib/listener/): what a LISTEN class of *)
(* the configuration file opens, and how the sockets come to listen.       *)
(*                                                                         *)
(* A LISTEN class is a record of its domain and of the variables it sets.  *)
(* A port is a text as strtol() reads it ("value" is the number it starts  *)
(* with, 0 if none, and "whole" says that nothing follows).  Names of      *)
(* services are compared without regard to case, so they are given folded. *)
(* What getservent() returns is a sequence.                                *)
(***************************************************************************)
EXTENDS Integers, FiniteSets, SequencesExt

Standard == 0..2

CONSTANTS
  Services,     \* the services database: records of names, proto, port
  MaxFd         \* the last descriptor the process may open

ASSUME ListenersAssumption ==
  /\ MaxFd \in Nat \ Standard
  /\ Services \in Seq([names : SUBSET STRING, proto : STRING, port : Nat])

VARIABLES
  build,        \* what the daemon was built for and is run in
  descriptors,  \* what each descriptor of the process is
  listeners     \* ListenerList::listeners, newest first

Fds == 0..MaxFd

Free == {f \in Fds : descriptors[f] = "free"}
AnyFree == Free # {}
firstFree == Min(Free)

(* What is left when the services database is open                         *)
FreeBeside == IF AnyFree THEN Free \ {firstFree} ELSE {}

Place(domain, where) == <<domain, where>>

(* bind(): another program has the place, or one of our own sockets has it *)
(* and the library does not ask for addresses to be reused.                *)
canBind(place, ours) ==
  /\ place \notin build.taken
  /\ place \in ours => build.reuse

OwnPlaces == {listeners[i].place : i \in DOMAIN listeners}

(* The flags, with the variables of the class that set them, and all the   *)
(* variables it may have.  The backlog and "secure" are kept and not used. *)
Flags == {"ALLOWNETWORKS", "ALLOWSERVERS", "ALLOWSERVICES", "ALLOWUSERS"}
classDefs == Flags \cup {"ADDRESS", "LISTENBACKLOG", "PORT", "SECURE"}

(* Nobody is allowed to come by default.                                   *)
ListenerConfig == [v \in Flags |-> FALSE] @@
  [ADDRESS |-> "", LISTENBACKLOG |-> 0, SECURE |-> FALSE,
   PORT |-> [text |-> "", value |-> 0, whole |-> TRUE]]

config(l) == l.sets @@ ListenerConfig
flags(l) == {f \in Flags : config(l)[f]}

(* A process without a free descriptor gets a socket that cannot be bound. *)
setupSocket(l, place, ours, free) ==
  config(l).ADDRESS # "bad" /\ canBind(place, ours) /\ free # {}

NewListener(l, f, place) ==
  [fd |-> f, place |-> place, line |-> l, flags |-> flags(l), listening |-> FALSE]

domainTypes == {"IPV4", "IPV6", "IPX", "UNIX"}
-----------------------------------------------------------------------------
Named(l, s) == s.proto = "TCP" /\ config(l).PORT.text \in s.names

(* The places and descriptors that are left by the entries before          *)
Found(acc) == {m.place : m \in ToSet(acc.made)} \cup OwnPlaces
Left(acc) == FreeBeside \ {m.fd : m \in ToSet(acc.made)}

(* Mutants: a port that was opened is not forgotten before the next entry  *)
(* is looked at; aliases and services over UDP count as well.              *)
serviceEntryKeepsPort(l, acc, s) ==
  LET port == IF Named(l, s) THEN s.port ELSE acc.port
      place == Place(l.domain, port)
  IN IF port <= 0 THEN [acc EXCEPT !.port = port]
     ELSE IF setupSocket(l, place, Found(acc), Left(acc))
     THEN [acc EXCEPT !.port = port,
                      !.made = <<NewListener(l, Min(Left(acc)), place)>> \o @]
     ELSE [acc EXCEPT !.port = port, !.manyErrors = @ + 1]

serviceEntryAnyProtocol(l, acc, s) ==
  LET port == IF config(l).PORT.text \in s.names THEN s.port ELSE acc.port
      place == Place(l.domain, port)
  IN IF port <= 0 THEN [acc EXCEPT !.port = port]
     ELSE IF setupSocket(l, place, Found(acc), Left(acc))
     THEN [acc EXCEPT !.port = -2,
                      !.made = <<NewListener(l, Min(Left(acc)), place)>> \o @]
     ELSE [acc EXCEPT !.port = port, !.manyErrors = @ + 1]

(* One entry of the services database.  "port" goes from entry to entry:   *)
(* the number the text starts with is opened at the first entry whatever   *)
(* that is, and a port that could not be opened is tried again at the next.*)
serviceEntry(l, acc, s) ==
  LET port == IF Named(l, s) THEN s.port ELSE acc.port
      place == Place(l.domain, port)
  IN IF port <= 0 THEN [acc EXCEPT !.port = port]
     ELSE IF setupSocket(l, place, Found(acc), Left(acc))
     THEN [acc EXCEPT !.port = -2,
                      !.made = <<NewListener(l, Min(Left(acc)), place)>> \o @]
     ELSE [acc EXCEPT !.port = port, !.manyErrors = @ + 1]

(* The entries of the database one by one, if it can be opened at all      *)
lookupNames(l) ==
  LET entries == IF AnyFree THEN Services ELSE <<>>
      after[n \in 0..Len(entries)] ==
        IF n = 0 THEN [port |-> config(l).PORT.value, made |-> <<>>, manyErrors |-> 0]
        ELSE serviceEntry(l, after[n - 1], entries[n])
      end == after[Len(entries)]
  IN [ok |-> end.manyErrors = 0, made |-> end.made]

openPlace(l, where) ==
  LET place == Place(l.domain, where)
  IN IF setupSocket(l, place, OwnPlaces, Free)
     THEN [ok |-> TRUE, made |-> <<NewListener(l, firstFree, place)>>]
     ELSE [ok |-> FALSE, made |-> <<>>]

refused == [ok |-> FALSE, made |-> <<>>]

(* ListenerConfig::classHandler(): whether the class is accepted, and the  *)
(* listeners it made (also of a class that is refused in the end).         *)
classHandler(l) ==
  CASE l.domain \notin domainTypes \/ ~(DOMAIN l.sets \subseteq classDefs) -> refused
    [] l.domain = "UNIX" /\ DOMAIN l.sets \subseteq classDefs ->
         IF config(l).ADDRESS = "" THEN refused ELSE openPlace(l, config(l).ADDRESS)
    [] l.domain \in domainTypes \ {"UNIX"} /\ DOMAIN l.sets \subseteq classDefs
       /\ config(l).PORT.whole ->
         IF config(l).PORT.value <= 0 THEN refused ELSE openPlace(l, config(l).PORT.value)
    [] l.domain = "IPX" /\ ~config(l).PORT.whole -> refused
    [] OTHER -> lookupNames(l)
-----------------------------------------------------------------------------
(* A LISTEN class is read: its listeners go in front of the list.          *)
addListeners(made) ==
  /\ listeners' = made \o listeners
  /\ descriptors' = [f \in Fds |->
       IF \E i \in DOMAIN made : made[i].fd = f THEN "socket" ELSE descriptors[f]]

(* ListenerList::startAll(): each listener that can listens.  One whose    *)
(* descriptor is no socket of its own any more cannot, nor can one whose   *)
(* place a listener before it has.                                         *)
listenAll ==
  LET Open(i) == descriptors[listeners[i].fd] = "socket"
      First(i) == \A j \in 1..(i - 1) : Open(j) => listeners[j].place # listeners[i].place
  IN listeners' = [i \in DOMAIN listeners |->
       [listeners[i] EXCEPT !.listening = Open(i) /\ First(i)]]

(* The descriptors have kinds, and no two listeners share one.             *)
ListenersTypeOK ==
  /\ descriptors \in [Fds -> {"free", "standard", "file", "socket", "log"}]
  /\ \A i, j \in DOMAIN listeners :
       /\ listeners[i].fd \in Fds
       /\ listeners[i].fd = listeners[j].fd => i = j
=============================================================================
