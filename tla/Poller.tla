------------------------------- MODULE Poller -------------------------------
(***************************************************************************)
(* The main loop of the daemon: Daemon::run(), newConnection() and the     *)
(* Connection operations it calls, around select().                        *)
(*                                                                         *)
(* What a chunk of input makes the protocols do is reduced to what the loop*)
(* can see: which connections are left with more output to send, and       *)
(* whether the connection was told goodbye.  A unit of output is what      *)
(* sendOutput() writes in one call.  There is one listener (the code loops *)
(* over a list of them).  A peer has one connection at a time, and is      *)
(* known by it.                                                            *)
(***************************************************************************)
EXTENDS Integers, FiniteSets, SequencesExt

CONSTANTS
  Conns,        \* the peers, each with the connection it may have
  Listener,     \* the descriptor of the listener
  ConnFds,      \* the descriptors the process can still open
  NoFd,         \* the descriptor of a connection that is not open
  MaxQueue,     \* bound on a connection's units of queued output
  MaxChunks     \* bound on the chunks of a peer that wait to be read

ASSUME PollerAssumption ==
  /\ IsFiniteSet(ConnFds) /\ ConnFds \subseteq Nat /\ ConnFds # {}
  /\ Listener \in Nat \ (ConnFds \cup {0}) /\ 0 \notin ConnFds
  /\ NoFd \notin Nat
  /\ MaxQueue \in Nat /\ MaxChunks \in Nat

VARIABLES
  connections,     \* Daemon::connections, newest first
  fd,              \* the descriptor of each connection's socket
  connected,       \* Connection::connected
  queue,           \* units in the output queue of each connection's protocol
  inFDSET, outFDSET, maxDescriptors,
  inFDtemp, outFDtemp,      \* what select() left of the sets; {} before it
  at,              \* where the loop is: "select", "listeners" or "walk"
  it,              \* the position in "connections" the walk has come to
  calling,         \* peers in the listener's backlog
  unread,          \* the peers' chunks that have not been read
  hungUp           \* peers that have closed their end

daemonVars == <<connections, fd, connected, queue, inFDSET, outFDSET,
                maxDescriptors, inFDtemp, outFDtemp, at, it>>
peerVars == <<calling, unread, hungUp>>
vars == <<daemonVars, peerVars>>

Open == {c \in Conns : fd[c] # NoFd}

Init ==
  /\ connections = <<>>
  /\ fd = [c \in Conns |-> NoFd]
  /\ connected = [c \in Conns |-> TRUE]
  /\ queue = [c \in Conns |-> 0]
  /\ inFDSET = {0, Listener} /\ outFDSET = {}
  /\ maxDescriptors = Listener + 1
  /\ inFDtemp = {} /\ outFDtemp = {}
  /\ at = "select" /\ it = 1
  /\ calling = {} /\ hungUp = {}
  /\ unread = [c \in Conns |-> 0]
-----------------------------------------------------------------------------
(* The peers.  Nothing makes them do any of this.  The loop learns of it   *)
(* from select() only, so it is enough that they act between two rounds.   *)

Call(c) ==
  /\ at = "select"
  /\ c \notin calling \cup Open
  /\ calling' = calling \cup {c}
  /\ UNCHANGED <<daemonVars, unread, hungUp>>

Send(c) ==
  /\ at = "select"
  /\ c \in Open \ hungUp
  /\ unread[c] < MaxChunks
  /\ unread' = [unread EXCEPT ![c] = @ + 1]
  /\ UNCHANGED <<daemonVars, calling, hungUp>>

HangUp(c) ==
  /\ at = "select"
  /\ c \in Open \ hungUp
  /\ hungUp' = hungUp \cup {c}
  /\ UNCHANGED <<daemonVars, calling, unread>>
-----------------------------------------------------------------------------
Readable(c) == unread[c] > 0 \/ c \in hungUp

(* What select() finds: descriptors that can be read or written without    *)
(* waiting.  Nobody types at the console (descriptor 0).                   *)
readyToRead ==
  {f \in inFDSET : /\ f < maxDescriptors
                   /\ \/ f = Listener /\ calling # {}
                      \/ \E c \in Open : fd[c] = f /\ Readable(c)}
readyToWrite == {f \in outFDSET : f < maxDescriptors}

(* Mutant: the sets are used although select() was interrupted, which      *)
(* leaves them as they were given.                                         *)
selectReturnsInterrupted ==
  /\ at = "select"
  /\ inFDtemp' = inFDSET /\ outFDtemp' = outFDSET
  /\ at' = "listeners" /\ it' = 1
  /\ UNCHANGED <<connections, fd, connected, queue, inFDSET, outFDSET,
                 maxDescriptors, peerVars>>

(* select() returns: there is no timeout, so not before something is ready.*)
(* (A signal makes it return -1, after which the loop calls it again.)  A  *)
(* socket cannot be written to while its peer is slow to read.             *)
selectReturns ==
  /\ at = "select"
  /\ readyToRead \cup readyToWrite # {}
  /\ inFDtemp' = readyToRead
  /\ \E slow \in SUBSET readyToWrite :
       /\ outFDtemp' = readyToWrite \ slow
       /\ inFDtemp' \cup outFDtemp' # {}
  /\ at' = "listeners" /\ it' = 1
  /\ UNCHANGED <<connections, fd, connected, queue, inFDSET, outFDSET,
                 maxDescriptors, peerVars>>

freeFds == ConnFds \ {fd[c] : c \in Open}

(* The lowest descriptor that is free, if one is                           *)
lowestFree == {f \in freeFds : \A g \in freeFds : f <= g}

raised(f) == IF f >= maxDescriptors THEN f + 1 ELSE maxDescriptors

(* newConnection(): the socket has the lowest free descriptor.             *)
newConnection(c) ==
  /\ at = "listeners"
  /\ Listener \in inFDtemp
  /\ c \in calling
  /\ calling' = calling \ {c}
  /\ \E f \in lowestFree :
       /\ fd' = [fd EXCEPT ![c] = f]
       /\ inFDSET' = inFDSET \cup {f}
       /\ maxDescriptors' = raised(f)
  /\ connections' = <<c>> \o connections
  /\ at' = "walk"
  /\ UNCHANGED <<it, connected, queue, outFDSET, inFDtemp, outFDtemp, unread, hungUp>>

(* No caller, or no descriptor for one: accept() gives a null socket.      *)
noNewConnection ==
  /\ at = "listeners"
  /\ Listener \notin inFDtemp \/ freeFds = {}
  /\ at' = "walk"
  /\ UNCHANGED <<it, connections, fd, connected, queue, inFDSET, outFDSET,
                 maxDescriptors, inFDtemp, outFDtemp, peerVars>>
-----------------------------------------------------------------------------
(* The sets are copied anew before the next select().                      *)
endRound == at' = "select" /\ it' = 1 /\ inFDtemp' = {} /\ outFDtemp' = {}

(* The loop has come to c.  (There always is a connection to walk to: when *)
(* there is none, select() returns for a caller only, and has room for it.)*)
AtConnection(c) ==
  /\ at = "walk"
  /\ connections # <<>>
  /\ connections[it] = c

(* Mutant: a read that fails goes unnoticed.                               *)
RefusesGoodbyesOnly(c) == ~connected[c]

(* handleInput() returns false for c: it was told goodbye, or its read     *)
(* fails.                                                                  *)
Refuses(c) == ~connected[c] \/ unread[c] = 0

(* Mutant: the bit that asks for writing is left behind.                   *)
destroyLeavesOutput(c) ==
  /\ AtConnection(c)
  /\ fd[c] \in inFDtemp /\ Refuses(c)
  /\ inFDSET' = inFDSET \ {fd[c]}
  /\ fd' = [fd EXCEPT ![c] = NoFd]
  /\ connections' = RemoveAt(connections, it)
  /\ endRound
  /\ connected' = [connected EXCEPT ![c] = TRUE]
  /\ queue' = [queue EXCEPT ![c] = 0]
  /\ unread' = [unread EXCEPT ![c] = 0]
  /\ hungUp' = hungUp \ {c}
  /\ UNCHANGED <<outFDSET, maxDescriptors, calling>>

(* The connection is taken out of the sets and deleted with its protocol,  *)
(* and the walk over the connections ends there.  (What is kept for c goes *)
(* back to what a new connection of c will start with.)                    *)
destroy(c) ==
  /\ AtConnection(c)
  /\ fd[c] \in inFDtemp /\ Refuses(c)
  /\ inFDSET' = inFDSET \ {fd[c]}
  /\ outFDSET' = outFDSET \ {fd[c]}
  /\ fd' = [fd EXCEPT ![c] = NoFd]
  /\ connections' = RemoveAt(connections, it)
  /\ endRound
  /\ connected' = [connected EXCEPT ![c] = TRUE]
  /\ queue' = [queue EXCEPT ![c] = 0]
  /\ unread' = [unread EXCEPT ![c] = 0]
  /\ hungUp' = hungUp \ {c}
  /\ UNCHANGED <<maxDescriptors, calling>>

(* Mutant: the round ends with the first connection.                       *)
nextNever == endRound

(* The walk goes on, or was at its end.                                    *)
next ==
  \/ it < Len(connections) /\ it' = it + 1 /\ UNCHANGED <<at, inFDtemp, outFDtemp>>
  \/ it = Len(connections) /\ endRound

(* Mutant: nothing more is asked for once something was written.           *)
afterOutputAsksOnce(c, queued, asked) ==
  /\ queue' = [queued EXCEPT ![c] = IF fd[c] \in outFDtemp /\ @ > 0 THEN @ - 1 ELSE @]
  /\ outFDSET' = IF fd[c] \in outFDtemp THEN asked \ {fd[c]} ELSE asked

(* sendOutput() of c when c has "queued" units and the poller asks for     *)
(* writing to "asked"                                                      *)
afterOutput(c, queued, asked) ==
  /\ queue' = [queued EXCEPT ![c] = IF fd[c] \in outFDtemp /\ @ > 0 THEN @ - 1 ELSE @]
  /\ outFDSET' = IF fd[c] \in outFDtemp /\ queued[c] <= 1 THEN asked \ {fd[c]} ELSE asked

(* handleInput() of c reads a chunk, which leaves the connections in       *)
(* "answered" with one more unit to send; the poller is asked to send what *)
(* c itself has, and nobody else's.                                        *)
handleInput(c) ==
  /\ AtConnection(c)
  /\ fd[c] \in inFDtemp /\ ~Refuses(c)
  /\ unread' = [unread EXCEPT ![c] = @ - 1]
  /\ connected' \in {connected, [connected EXCEPT ![c] = FALSE]}
  /\ \E answered \in SUBSET {d \in Open : queue[d] < MaxQueue} :
       LET queued == [d \in Conns |-> IF d \in answered THEN queue[d] + 1 ELSE queue[d]]
       IN afterOutput(c, queued,
            IF queued[c] > 0 THEN outFDSET \cup {fd[c]} ELSE outFDSET)
  /\ next
  /\ UNCHANGED <<connections, fd, inFDSET, maxDescriptors, calling, hungUp>>

(* c has nothing to read: its output is sent if it can be.                 *)
noInput(c) ==
  /\ AtConnection(c)
  /\ fd[c] \notin inFDtemp
  /\ afterOutput(c, queue, outFDSET)
  /\ next
  /\ UNCHANGED <<connections, fd, connected, inFDSET, maxDescriptors, peerVars>>
-----------------------------------------------------------------------------
Loop ==
  \/ selectReturns \/ noNewConnection
  \/ \E c \in Conns : newConnection(c) \/ destroy(c) \/ handleInput(c) \/ noInput(c)

Peers == \E c \in Conns : Call(c) \/ Send(c) \/ HangUp(c)

Next == Loop \/ Peers

(* The loop runs whenever it can: it is the only thread of the process.    *)
(* Peers need not do anything, but the network takes what is written: a    *)
(* socket that can be reported writable again and again is, sometimes.     *)
Spec ==
  /\ Init /\ [][Next]_vars
  /\ WF_vars(Loop)
  /\ \A f \in ConnFds : SF_vars(selectReturns /\ f \in outFDtemp')
-----------------------------------------------------------------------------
(* Every variable has its type.                                            *)
PollerTypeOK ==
  /\ connections \in Seq(Conns)
  /\ fd \in [Conns -> ConnFds \cup {NoFd}]
  /\ connected \in [Conns -> BOOLEAN]
  /\ queue \in [Conns -> 0..MaxQueue]
  /\ inFDSET \subseteq ConnFds \cup {0, Listener} /\ outFDSET \subseteq ConnFds
  /\ inFDtemp \subseteq inFDSET \cup ConnFds /\ outFDtemp \subseteq ConnFds
  /\ maxDescriptors \in Nat
  /\ at \in {"select", "listeners", "walk"} /\ it \in Nat
  /\ at = "walk" => it \in DOMAIN connections
  /\ calling \subseteq Conns /\ hungUp \subseteq Conns
  /\ unread \in [Conns -> 0..MaxChunks]

(* The sets select() is given are exactly those of the open connections:   *)
(* every one is listened to, no descriptor is left in a set by a connection*)
(* that is gone (the next connection with that descriptor would inherit    *)
(* it), all are below the number of descriptors select() looks at, and     *)
(* writing is asked for only where there is something to write.            *)
SetsMatchConnections ==
  /\ {connections[i] : i \in DOMAIN connections} = Open
  /\ \A c, d \in Open : c # d => fd[c] # fd[d]
  /\ inFDSET = {0, Listener} \cup {fd[c] : c \in Open}
  /\ \A f \in inFDSET \cup outFDSET : f < maxDescriptors
  /\ \A f \in outFDSET : \E c \in Open : fd[c] = f /\ queue[c] > 0

(* handleInput() never reads where there is nothing to read, which would   *)
(* stop the daemon until there is: what select() reported is still true of *)
(* the connection the walk has come to, whatever happened before it in the *)
(* round.                                                                  *)
ReadsDoNotWait ==
  \A c \in Conns : AtConnection(c) /\ fd[c] \in inFDtemp => Readable(c)

(* Connections are destroyed again and again.  Each ends the walk of its   *)
(* round, and new ones stand at the front of the list, so that peers who   *)
(* come and go without end keep the loop from whoever stands behind them.  *)
RoundsAreCutShort == []<><<\E c \in Conns : destroy(c)>>_vars

(* A unit of c's output is written in this step.                           *)
Sends(c) ==
  \/ handleInput(c) /\ fd[c] \in outFDtemp
  \/ noInput(c) /\ queue'[c] < queue[c]

(* Each unit that is queued when the poller has been asked to write for a  *)
(* connection is written, or the connection goes away, unless rounds are   *)
(* cut short for ever: the queue comes to be empty, or c is written to     *)
(* again and again, which takes units from the front of a queue where new  *)
(* ones stand at the end.  (A queue with a unit that stays for ever is     *)
(* never empty, and is written to only as often as it has units before it.)*)
AskedOutputIsSent ==
  \/ RoundsAreCutShort
  \/ \A c \in Conns :
       \/ c \in Open /\ fd[c] \in outFDSET ~> queue[c] = 0 \/ c \notin Open
       \/ []<><<Sends(c)>>_vars

(* Each chunk a peer sent is read, or its connection goes away, unless     *)
(* rounds are cut short for ever: there comes to be none, or the peer is   *)
(* read from again and again, the oldest chunk first.                      *)
InputIsServed ==
  \/ RoundsAreCutShort
  \/ \A c \in Conns :
       \/ c \in Open /\ Readable(c) ~> ~Readable(c) \/ c \notin Open
       \/ []<><<handleInput(c)>>_vars
-----------------------------------------------------------------------------
(* src/lib/connection.cpp:105, "If there is something wanting to be        *)
(* outputted, tell the poller": when the loop waits in select(), it waits  *)
(* for every socket that has output queued.  Only the connection whose     *)
(* input was handled tells the poller; what its message queued for others  *)
(* waits until they send something themselves.                             *)
QueuedOutputIsAskedFor ==
  at = "select" => \A c \in Open : queue[c] > 0 => fd[c] \in outFDSET
=============================================================================
