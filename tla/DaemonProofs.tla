---------------------------- MODULE DaemonProofs ----------------------------
(***************************************************************************)
(* Theorems about the daemon: first its main loop, for any peers,          *)
(* descriptors and bounds, then the way to it, for any configuration, any  *)
(* services and any number of descriptors.  The two models share nothing   *)
(* but the process they are about.                                         *)
(***************************************************************************)
EXTENDS Poller, Startup, Loops

(* What an element is taken out of keeps the others in their order.        *)
LEMMA RemoveAtKeepsOthers ==
  ASSUME NEW S, NEW s \in Seq(S), NEW i \in DOMAIN s
  PROVE  /\ RemoveAt(s, i) \in Seq(S)
         /\ Len(RemoveAt(s, i)) = Len(s) - 1
         /\ \A j \in 1..(Len(s) - 1) :
              RemoveAt(s, i)[j] = IF j < i THEN s[j] ELSE s[j + 1]
<1> DEFINE front == SubSeq(s, 1, i - 1)
           rest == SubSeq(s, i + 1, Len(s))
<1>1. Len(s) \in Nat /\ i \in 1..Len(s)
  OBVIOUS
<1>2. /\ front \in Seq(S) /\ Len(front) = i - 1
      /\ \A j \in 1..(i - 1) : front[j] = s[j]
  BY <1>1
<1>3. /\ rest \in Seq(S) /\ Len(rest) = Len(s) - i
      /\ \A j \in 1..(Len(s) - i) : rest[j] = s[i + j]
  BY <1>1
<1>4. RemoveAt(s, i) = front \o rest
  BY DEF RemoveAt
<1> HIDE DEF front, rest
<1>5. RemoveAt(s, i) \in Seq(S) /\ Len(RemoveAt(s, i)) = Len(s) - 1
  BY <1>1, <1>2, <1>3, <1>4
<1>6. ASSUME NEW j \in 1..(Len(s) - 1)
      PROVE  (front \o rest)[j] = IF j < i THEN s[j] ELSE s[j + 1]
  <2>1. CASE j < i
    BY <1>1, <1>2, <1>3, <2>1
  <2>2. CASE ~(j < i)
    <3>1. j - (i - 1) \in 1..(Len(s) - i) /\ i + (j - (i - 1)) = j + 1
      BY <1>1, <2>2
    <3>2. (front \o rest)[j] = rest[j - (i - 1)]
      BY <1>1, <1>2, <1>3, <2>2, SMTT(20)
    <3>3. rest[j - (i - 1)] = s[i + (j - (i - 1))]
      BY <1>3, <3>1
    <3> QED
      BY <2>2, <3>1, <3>2, <3>3
  <2> QED
    BY <2>1, <2>2
<1> QED
  BY <1>4, <1>5, <1>6
-----------------------------------------------------------------------------
(* What select() reported is not used up before the walk comes to it.      *)
Reports ==
  /\ at = "listeners" =>
       /\ it = 1
       /\ inFDtemp \subseteq {Listener} \cup {fd[c] : c \in Open}
       /\ outFDtemp \subseteq outFDSET
       /\ inFDtemp \cup outFDtemp # {}
  /\ at # "select" =>
       \A i \in DOMAIN connections :
         i >= it /\ fd[connections[i]] \in inFDtemp => Readable(connections[i])

(* A connection is in the list once, and a peer that calls has none: so a  *)
(* descriptor is freed with its last use, and what the walk passes it does *)
(* not meet again.                                                         *)
PollerInv ==
  /\ PollerTypeOK
  /\ SetsMatchConnections
  /\ \A i, j \in DOMAIN connections : connections[i] = connections[j] => i = j
  /\ calling \cap Open = {}
  /\ Reports

LEMMA PollerInvInit == Init => PollerInv
<1> SUFFICES ASSUME Init
             PROVE  PollerInv
  OBVIOUS
<1>1. PollerTypeOK
  BY PollerAssumption DEF Init, PollerTypeOK
<1>2. Open = {} /\ DOMAIN connections = {}
  BY DEF Init, Open
<1>3. SetsMatchConnections
  BY <1>2, PollerAssumption DEF Init, SetsMatchConnections
<1> QED
  BY <1>1, <1>2, <1>3 DEF Init, PollerInv, Reports

(* The descriptors of open connections are numbers, and none of the others'*)
LEMMA OpenFds ==
  ASSUME PollerInv
  PROVE  /\ \A c \in Conns : c \in Open <=> fd[c] \in ConnFds
         /\ \A f \in inFDSET \cup inFDtemp \cup outFDSET \cup outFDtemp : f \in Nat /\ f # NoFd
         /\ \A i \in DOMAIN connections : connections[i] \in Open
         /\ \A c \in Open : \E i \in DOMAIN connections : connections[i] = c
         /\ at = "walk" => it \in DOMAIN connections
         /\ Len(connections) \in Nat /\ DOMAIN connections = 1..Len(connections)
<1>1. \A c \in Conns : c \in Open <=> fd[c] \in ConnFds
  BY PollerAssumption DEF PollerInv, PollerTypeOK, Open
<1>2. inFDSET \cup inFDtemp \cup outFDSET \cup outFDtemp \subseteq Nat
  BY PollerAssumption DEF PollerInv, PollerTypeOK
<1>3. /\ \A i \in DOMAIN connections : connections[i] \in Open
      /\ \A c \in Open : \E i \in DOMAIN connections : connections[i] = c
  BY DEF PollerInv, SetsMatchConnections
<1>4. /\ at = "walk" => it \in DOMAIN connections
      /\ Len(connections) \in Nat /\ DOMAIN connections = 1..Len(connections)
  BY DEF PollerInv, PollerTypeOK
<1> QED
  BY <1>1, <1>2, <1>3, <1>4, PollerAssumption

(* Peers change nothing of the daemon's.                                   *)
LEMMA PeersInv ==
  ASSUME PollerInv, NEW c \in Conns, Call(c) \/ Send(c) \/ HangUp(c)
  PROVE  PollerInv'
<1>1. UNCHANGED daemonVars /\ at = "select"
  BY DEF Call, Send, HangUp
<1>2. calling' \cap Open = {} /\ calling' \subseteq Conns /\ hungUp' \subseteq Conns
  BY DEF Call, Send, HangUp, PollerInv, PollerTypeOK, Open
<1>3. unread' \in [Conns -> 0..MaxChunks]
  BY PollerAssumption DEF Call, Send, HangUp, PollerInv, PollerTypeOK
<1> QED
  BY <1>1, <1>2, <1>3
     DEF daemonVars, PollerInv, PollerTypeOK, SetsMatchConnections, Open, Reports

LEMMA SelectInv ==
  ASSUME PollerInv, selectReturns
  PROVE  PollerInv'
<1>1. /\ UNCHANGED <<connections, fd, connected, queue, inFDSET, outFDSET, maxDescriptors, peerVars>>
      /\ at' = "listeners" /\ it' = 1
      /\ inFDtemp' = readyToRead /\ outFDtemp' \subseteq readyToWrite
      /\ inFDtemp' \cup outFDtemp' # {}
  BY DEF selectReturns
<1>2. inFDtemp' \subseteq inFDSET /\ outFDtemp' \subseteq outFDSET
  BY <1>1 DEF readyToRead, readyToWrite
<1>3. inFDtemp' \subseteq {Listener} \cup {fd[c] : c \in Open}
  BY <1>1 DEF readyToRead
<1>4. ASSUME NEW i \in DOMAIN connections, fd[connections[i]] \in inFDtemp'
      PROVE  Readable(connections[i])
  <2>1. connections[i] \in Open /\ fd[connections[i]] # Listener
    <3>1. connections[i] \in Open /\ connections[i] \in Conns
      BY OpenFds DEF Open
    <3>2. fd[connections[i]] \in ConnFds
      BY <3>1, OpenFds
    <3> QED
      BY <3>1, <3>2, PollerAssumption
  <2>2. PICK c \in Open : fd[c] = fd[connections[i]] /\ Readable(c)
    BY <1>1, <1>4, <2>1 DEF readyToRead
  <2> QED
    BY <2>1, <2>2 DEF PollerInv, SetsMatchConnections
<1>5. PollerTypeOK'
  BY <1>1, <1>2 DEF PollerInv, PollerTypeOK, peerVars
<1> QED
  BY <1>1, <1>2, <1>3, <1>4, <1>5
     DEF PollerInv, SetsMatchConnections, Open, Reports, Readable, peerVars

LEMMA NoNewConnectionInv ==
  ASSUME PollerInv, noNewConnection
  PROVE  PollerInv'
<1>1. Open # {}
  <2>1. CASE freeFds = {}
    BY <2>1, PollerAssumption DEF freeFds
  <2>2. CASE Listener \notin inFDtemp
    <3>1. PICK f \in inFDtemp \cup outFDSET : f # Listener \/ f \in outFDSET
      BY <2>2 DEF noNewConnection, PollerInv, Reports
    <3>2. CASE f \in inFDtemp
      BY <2>2, <3>2 DEF noNewConnection, PollerInv, Reports
    <3>3. CASE f \in outFDSET
      BY <3>3 DEF PollerInv, SetsMatchConnections
    <3> QED
      BY <3>2, <3>3
  <2> QED
    BY <2>1, <2>2 DEF noNewConnection
<1>2. it = 1 /\ 1 \in DOMAIN connections
  BY <1>1, OpenFds DEF noNewConnection, PollerInv, Reports
<1> QED
  BY <1>2 DEF noNewConnection, PollerInv, PollerTypeOK, SetsMatchConnections,
              Open, Reports, Readable, peerVars

LEMMA NewConnectionInv ==
  ASSUME PollerInv, NEW c \in Conns, newConnection(c)
  PROVE  PollerInv'
<1>1. PICK f \in lowestFree :
        /\ fd' = [fd EXCEPT ![c] = f]
        /\ inFDSET' = inFDSET \cup {f}
        /\ maxDescriptors' = raised(f)
  BY DEF newConnection
<1>2. /\ c \in calling /\ calling' = calling \ {c}
      /\ connections' = <<c>> \o connections
      /\ at = "listeners" /\ at' = "walk" /\ it = 1
      /\ UNCHANGED <<it, connected, queue, outFDSET, inFDtemp, outFDtemp, unread, hungUp>>
  BY DEF newConnection, PollerInv, Reports
<1>3. /\ f \in ConnFds /\ f \in Nat /\ f # NoFd /\ f # Listener /\ f # 0
      /\ \A d \in Open : fd[d] # f
  BY PollerAssumption DEF lowestFree, freeFds
<1>4. c \notin Open /\ fd[c] = NoFd
  BY <1>2 DEF PollerInv, Open
<1>5. /\ \A d \in Conns : fd'[d] = IF d = c THEN f ELSE fd[d]
      /\ Open' = Open \cup {c}
  BY <1>1, <1>3 DEF PollerInv, PollerTypeOK, Open
<1>6. /\ connections' \in Seq(Conns) /\ Len(connections) \in Nat
      /\ Len(connections') = Len(connections) + 1
      /\ DOMAIN connections' = 1..(Len(connections) + 1)
      /\ \A i \in DOMAIN connections' :
           connections'[i] = IF i = 1 THEN c ELSE connections[i - 1]
      /\ connections'[1] = c
      /\ \A i \in DOMAIN connections : i + 1 \in DOMAIN connections' /\ connections'[i + 1] = connections[i]
  BY <1>2, SMTT(30) DEF PollerInv, PollerTypeOK
<1>7. \A i \in DOMAIN connections' :
        i # 1 => i - 1 \in DOMAIN connections /\ connections'[i] = connections[i - 1]
                 /\ connections[i - 1] \in Open
  BY <1>6, OpenFds
<1>8. PollerTypeOK'
  BY <1>1, <1>2, <1>3, <1>6 DEF PollerInv, PollerTypeOK, raised
<1>9. {connections'[i] : i \in DOMAIN connections'} = Open'
  <2>1. \A i \in DOMAIN connections' : connections'[i] \in Open'
    BY <1>5, <1>6, <1>7
  <2>2. ASSUME NEW d \in Open'
        PROVE  \E i \in DOMAIN connections' : connections'[i] = d
    <3>1. CASE d = c
      <4>1. 1 \in DOMAIN connections'
        BY <1>6
      <4> QED
        BY <1>6, <3>1, <4>1
    <3>2. CASE d # c
      <4>1. PICK i \in DOMAIN connections : connections[i] = d
        BY <1>5, <3>2, OpenFds
      <4> QED
        BY <1>6, <4>1
    <3> QED
      BY <3>1, <3>2
  <2> QED
    BY <2>1, <2>2
<1>10. /\ \A d, e \in Open' : d # e => fd'[d] # fd'[e]
       /\ inFDSET' = {0, Listener} \cup {fd'[d] : d \in Open'}
  BY <1>1, <1>3, <1>4, <1>5 DEF PollerInv, SetsMatchConnections, Open
<1>11. \A g \in inFDSET' \cup outFDSET' : g < maxDescriptors'
  BY <1>1, <1>2, <1>3, OpenFds DEF PollerInv, PollerTypeOK, SetsMatchConnections, raised
<1>12. \A g \in outFDSET' : \E d \in Open' : fd'[d] = g /\ queue'[d] > 0
  BY <1>2, <1>4, <1>5 DEF PollerInv, SetsMatchConnections, Open
<1>13. \A i, j \in DOMAIN connections' : connections'[i] = connections'[j] => i = j
  <2> SUFFICES ASSUME NEW i \in DOMAIN connections', NEW j \in DOMAIN connections',
                      connections'[i] = connections'[j]
               PROVE  i = j
    OBVIOUS
  <2>1. i = 1 <=> j = 1
    BY <1>4, <1>6, <1>7
  <2>2. CASE i # 1
    <3>1. i - 1 = j - 1
      BY <1>7, <2>1, <2>2 DEF PollerInv
    <3> QED
      BY <1>6, <3>1
  <2> QED
    BY <2>1, <2>2
<1>14. Reports'
  <2> SUFFICES ASSUME NEW i \in DOMAIN connections', fd'[connections'[i]] \in inFDtemp
               PROVE  unread'[connections'[i]] > 0 \/ connections'[i] \in hungUp'
    BY <1>2 DEF Reports, Readable
  <2>1. f \notin inFDtemp
    BY <1>2, <1>3 DEF PollerInv, Reports
  <2>2. i # 1
    BY <1>5, <1>6, <2>1
  <2>3. /\ i - 1 \in DOMAIN connections /\ i - 1 >= it
        /\ connections'[i] = connections[i - 1] /\ connections[i - 1] # c
    BY <1>2, <1>4, <1>6, <1>7, <2>2
  <2>4. fd[connections[i - 1]] \in inFDtemp
    BY <1>5, <1>7, <2>2, <2>3 DEF Open
  <2> QED
    BY <1>2, <2>3, <2>4 DEF PollerInv, Reports, Readable
<1>15. calling' \cap Open' = {}
  BY <1>2, <1>5 DEF PollerInv
<1> QED
  BY <1>8, <1>9, <1>10, <1>11, <1>12, <1>13, <1>14, <1>15
     DEF PollerInv, SetsMatchConnections

LEMMA DestroyInv ==
  ASSUME PollerInv, NEW c \in Conns, destroy(c)
  PROVE  PollerInv'
<1>1. /\ at = "walk" /\ it \in DOMAIN connections /\ connections[it] = c
      /\ connections' = RemoveAt(connections, it)
      /\ inFDSET' = inFDSET \ {fd[c]} /\ outFDSET' = outFDSET \ {fd[c]}
      /\ fd' = [fd EXCEPT ![c] = NoFd]
      /\ at' = "select" /\ it' = 1 /\ inFDtemp' = {} /\ outFDtemp' = {}
      /\ connected' = [connected EXCEPT ![c] = TRUE]
      /\ queue' = [queue EXCEPT ![c] = 0]
      /\ unread' = [unread EXCEPT ![c] = 0]
      /\ hungUp' = hungUp \ {c}
      /\ UNCHANGED <<maxDescriptors, calling>>
  BY OpenFds DEF destroy, AtConnection, endRound
<1>2. c \in Open /\ fd[c] \in ConnFds
  BY <1>1, OpenFds
<1>3. /\ Open' = Open \ {c}
      /\ \A d \in Open' : fd'[d] = fd[d] /\ queue'[d] = queue[d] /\ fd[d] # fd[c]
  BY <1>1, <1>2 DEF PollerInv, PollerTypeOK, SetsMatchConnections, Open
<1>4. /\ connections' \in Seq(Conns) /\ Len(connections) \in Nat
      /\ DOMAIN connections = 1..Len(connections)
      /\ DOMAIN connections' = 1..(Len(connections) - 1)
      /\ \A i \in DOMAIN connections' :
           connections'[i] = IF i < it THEN connections[i] ELSE connections[i + 1]
  <2>1. connections \in Seq(Conns)
    BY DEF PollerInv, PollerTypeOK
  <2>2. /\ RemoveAt(connections, it) \in Seq(Conns)
        /\ Len(RemoveAt(connections, it)) = Len(connections) - 1
        /\ \A j \in 1..(Len(connections) - 1) :
              RemoveAt(connections, it)[j] =
                IF j < it THEN connections[j] ELSE connections[j + 1]
    BY <1>1, <2>1, RemoveAtKeepsOthers
  <2>3. connections' = RemoveAt(connections, it)
    BY <1>1
  <2> HIDE DEF PollerInv
  <2>4. connections' \in Seq(Conns) /\ Len(connections') = Len(connections) - 1
    BY <2>2, <2>3
  <2>5. /\ Len(connections) \in Nat
        /\ DOMAIN connections = 1..Len(connections)
        /\ DOMAIN connections' = 1..Len(connections')
    BY <2>1, <2>4
  <2>6. \A i \in 1..(Len(connections) - 1) :
          connections'[i] = IF i < it THEN connections[i] ELSE connections[i + 1]
    BY <2>2, <2>3
  <2> QED
    BY <2>4, <2>5, <2>6
<1>5. it \in Nat /\ \A i, j \in DOMAIN connections : connections[i] = connections[j] => i = j
  BY DEF PollerInv, PollerTypeOK
<1>6. \A i \in DOMAIN connections' :
        LET j == IF i < it THEN i ELSE i + 1
        IN j \in DOMAIN connections /\ j # it /\ connections'[i] = connections[j]
  BY <1>4, <1>5
<1>7. {connections'[i] : i \in DOMAIN connections'} = Open'
  <2>1. \A i \in DOMAIN connections' : connections'[i] \in Open'
    BY <1>1, <1>3, <1>5, <1>6, OpenFds
  <2>2. ASSUME NEW d \in Open'
        PROVE  \E i \in DOMAIN connections' : connections'[i] = d
    <3>1. PICK j \in DOMAIN connections : connections[j] = d
      BY <1>3, OpenFds
    <3>2. j # it
      BY <1>1, <1>3, <3>1
    <3>3. CASE j < it
      BY <1>1, <1>4, <1>5, <3>1, <3>3
    <3>4. CASE j > it
      <4>1. j - 1 \in DOMAIN connections' /\ ~(j - 1 < it) /\ (j - 1) + 1 = j
        BY <1>1, <1>4, <1>5, <3>4
      <4>2. connections'[j - 1] = connections[j]
        BY <1>4, <4>1
      <4> QED
        BY <3>1, <4>1, <4>2
    <3> QED
      BY <1>4, <1>5, <3>2, <3>3, <3>4
  <2> QED
    BY <2>1, <2>2
<1>8. PollerTypeOK'
  <2>1. /\ fd' \in [Conns -> ConnFds \cup {NoFd}]
        /\ connected' \in [Conns -> BOOLEAN]
        /\ queue' \in [Conns -> 0..MaxQueue] /\ unread' \in [Conns -> 0..MaxChunks]
    BY <1>1, PollerAssumption DEF PollerInv, PollerTypeOK
  <2>2. /\ inFDSET' \subseteq ConnFds \cup {0, Listener} /\ outFDSET' \subseteq ConnFds
        /\ maxDescriptors' \in Nat /\ calling' \subseteq Conns /\ hungUp' \subseteq Conns
    BY <1>1 DEF PollerInv, PollerTypeOK
  <2> QED
    BY <1>1, <1>4, <2>1, <2>2 DEF PollerTypeOK
<1>9. /\ \A d, e \in Open' : d # e => fd'[d] # fd'[e]
      /\ inFDSET' = {0, Listener} \cup {fd'[d] : d \in Open'}
  BY <1>1, <1>2, <1>3, PollerAssumption DEF PollerInv, SetsMatchConnections
<1>10. \A g \in inFDSET' \cup outFDSET' : g < maxDescriptors'
  BY <1>1 DEF PollerInv, SetsMatchConnections
<1>11. \A g \in outFDSET' : \E d \in Open' : fd'[d] = g /\ queue'[d] > 0
  BY <1>1, <1>3 DEF PollerInv, SetsMatchConnections
<1>12. \A i, j \in DOMAIN connections' : connections'[i] = connections'[j] => i = j
  <2> SUFFICES ASSUME NEW i \in DOMAIN connections', NEW j \in DOMAIN connections',
                      connections'[i] = connections'[j]
               PROVE  i = j
    OBVIOUS
  <2>1. (IF i < it THEN i ELSE i + 1) = (IF j < it THEN j ELSE j + 1)
    BY <1>5, <1>6
  <2> QED
    BY <1>4, <1>5, <2>1
<1>13. calling' \cap Open' = {}
  BY <1>1, <1>3 DEF PollerInv
<1> QED
  BY <1>1, <1>7, <1>8, <1>9, <1>10, <1>11, <1>12, <1>13
     DEF PollerInv, SetsMatchConnections, Reports
-----------------------------------------------------------------------------
(* Writing to c is asked for no longer when its last unit is sent.         *)
LEMMA AfterOutputInv ==
  ASSUME PollerInv, NEW c \in Open, NEW queued \in [Conns -> 0..MaxQueue],
         \A d \in Conns : queued[d] >= queue[d],
         NEW asked, asked = outFDSET \/ (asked = outFDSET \cup {fd[c]} /\ queued[c] > 0),
         afterOutput(c, queued, asked)
  PROVE  /\ queue' \in [Conns -> 0..MaxQueue]
         /\ outFDSET' \subseteq {fd[d] : d \in Open}
         /\ \A g \in outFDSET' : \E d \in Open : fd[d] = g /\ queue'[d] > 0
<1>1. /\ queue' = [queued EXCEPT ![c] = IF fd[c] \in outFDtemp /\ @ > 0 THEN @ - 1 ELSE @]
      /\ outFDSET' = IF fd[c] \in outFDtemp /\ queued[c] <= 1 THEN asked \ {fd[c]} ELSE asked
  BY DEF afterOutput
<1>2. MaxQueue \in Nat /\ c \in Conns /\ queue \in [Conns -> 0..MaxQueue]
  BY PollerAssumption DEF PollerInv, PollerTypeOK, Open
<1>3. queue' \in [Conns -> 0..MaxQueue]
  BY <1>1, <1>2
<1>4. \A d \in Conns : d # c => queue'[d] = queued[d]
  BY <1>1, <1>2
<1>5. ASSUME NEW g \in outFDSET'
      PROVE  \E d \in Open : fd[d] = g /\ queue'[d] > 0
  <2>1. g \in asked
    BY <1>1, <1>5
  <2>2. PICK d \in Open : fd[d] = g /\ queued[d] > 0
    <3>1. CASE g \in outFDSET
      <4>1. PICK d \in Open : fd[d] = g /\ queue[d] > 0
        BY <3>1 DEF PollerInv, SetsMatchConnections
      <4> QED
        BY <1>2, <4>1 DEF Open
    <3>2. CASE g \notin outFDSET
      BY <2>1, <3>2
    <3> QED
      BY <3>1, <3>2
  <2>3. CASE d # c
    BY <1>4, <2>2, <2>3 DEF Open
  <2>4. CASE d = c
    <3>1. ~(fd[c] \in outFDtemp /\ queued[c] <= 1)
      BY <1>1, <2>2, <2>4
    <3>2. queue'[c] = IF fd[c] \in outFDtemp /\ queued[c] > 0 THEN queued[c] - 1 ELSE queued[c]
      BY <1>1, <1>2
    <3>3. queued[c] \in Nat
      BY <1>2
    <3>4. queue'[c] > 0
      BY <2>2, <2>4, <3>1, <3>2, <3>3
    <3> QED
      BY <2>2, <2>4, <3>4
  <2> QED
    BY <2>3, <2>4
<1> QED
  BY <1>3, <1>5

(* The walk leaves behind a connection whose output was looked at.         *)
LEMMA WalkInv ==
  ASSUME PollerInv, NEW c \in Conns, AtConnection(c), next,
         UNCHANGED <<connections, fd, inFDSET, maxDescriptors, calling, hungUp>>,
         connected' \in [Conns -> BOOLEAN],
         queue' \in [Conns -> 0..MaxQueue],
         outFDSET' \subseteq {fd[d] : d \in Open},
         \A g \in outFDSET' : \E d \in Open : fd[d] = g /\ queue'[d] > 0,
         unread' \in [Conns -> 0..MaxChunks],
         \A d \in Conns : d # c => unread'[d] = unread[d]
  PROVE  PollerInv'
<1>1. /\ at = "walk" /\ it \in DOMAIN connections /\ connections[it] = c
      /\ Len(connections) \in Nat /\ DOMAIN connections = 1..Len(connections)
  BY OpenFds DEF AtConnection
<1>2. \/ /\ it' = it + 1 /\ it' \in DOMAIN connections
         /\ UNCHANGED <<at, inFDtemp, outFDtemp>>
      \/ at' = "select" /\ it' = 1 /\ inFDtemp' = {} /\ outFDtemp' = {}
  BY <1>1 DEF next, endRound
<1>3. Open' = Open
  BY DEF Open
<1>4. outFDSET' \subseteq ConnFds /\ \A d \in Open : fd[d] \in inFDSET
  BY OpenFds DEF Open, PollerInv, SetsMatchConnections
<1>5. PollerTypeOK'
  <2>1. CASE it' = it + 1 /\ it' \in DOMAIN connections /\ UNCHANGED <<at, inFDtemp, outFDtemp>>
    <3>1. it' \in Nat
      BY <1>1, <2>1
    <3>2. inFDtemp' \subseteq inFDSET' \cup ConnFds
      BY <2>1 DEF PollerInv, PollerTypeOK
    <3>3. outFDtemp' \subseteq ConnFds /\ at' = "walk" /\ it' \in DOMAIN connections'
      BY <1>1, <2>1 DEF PollerInv, PollerTypeOK
    <3> QED
      BY <1>4, <3>1, <3>2, <3>3 DEF PollerInv, PollerTypeOK
  <2>2. CASE at' = "select" /\ it' = 1 /\ inFDtemp' = {} /\ outFDtemp' = {}
    BY <1>1, <1>4, <2>2 DEF PollerInv, PollerTypeOK
  <2> QED
    BY <1>2, <2>1, <2>2
<1>6. SetsMatchConnections'
  BY <1>3, <1>4 DEF PollerInv, SetsMatchConnections
<1>7. Reports'
  <2>1. CASE it' = it + 1 /\ UNCHANGED <<at, inFDtemp, outFDtemp>>
    <3> SUFFICES ASSUME NEW i \in DOMAIN connections, i >= it + 1,
                        fd[connections[i]] \in inFDtemp
                 PROVE  unread'[connections[i]] > 0 \/ connections[i] \in hungUp
      BY <1>1, <2>1 DEF Reports, Readable
    <3>1. connections[i] # c /\ connections[i] \in Conns /\ i >= it
      BY <1>1, OpenFds DEF PollerInv, Open
    <3> QED
      BY <1>1, <3>1 DEF PollerInv, Reports, Readable
  <2>2. CASE at' = "select"
    BY <2>2 DEF Reports
  <2> QED
    BY <1>2, <2>1, <2>2
<1> QED
  BY <1>3, <1>5, <1>6, <1>7 DEF PollerInv

LEMMA HandleInputInv ==
  ASSUME PollerInv, NEW c \in Conns, handleInput(c)
  PROVE  PollerInv'
<1>1. c \in Open /\ unread[c] # 0
  BY OpenFds DEF handleInput, AtConnection, Refuses
<1>2. PICK answered \in SUBSET {d \in Open : queue[d] < MaxQueue} :
        LET queued == [d \in Conns |-> IF d \in answered THEN queue[d] + 1 ELSE queue[d]]
        IN afterOutput(c, queued,
             IF queued[c] > 0 THEN outFDSET \cup {fd[c]} ELSE outFDSET)
  BY DEF handleInput
<1> DEFINE queued == [d \in Conns |-> IF d \in answered THEN queue[d] + 1 ELSE queue[d]]
           asked == IF queued[c] > 0 THEN outFDSET \cup {fd[c]} ELSE outFDSET
<1>3. queued \in [Conns -> 0..MaxQueue] /\ \A d \in Conns : queued[d] >= queue[d]
  BY PollerAssumption DEF PollerInv, PollerTypeOK
<1>4. afterOutput(c, queued, asked)
  BY <1>2
<1> HIDE DEF queued
<1>5. asked = outFDSET \/ (asked = outFDSET \cup {fd[c]} /\ queued[c] > 0)
  OBVIOUS
<1> HIDE DEF asked
<1>6. /\ queue' \in [Conns -> 0..MaxQueue]
      /\ outFDSET' \subseteq {fd[d] : d \in Open}
      /\ \A g \in outFDSET' : \E d \in Open : fd[d] = g /\ queue'[d] > 0
  BY <1>1, <1>3, <1>4, <1>5, AfterOutputInv
<1>7. /\ unread' \in [Conns -> 0..MaxChunks]
      /\ \A d \in Conns : d # c => unread'[d] = unread[d]
  BY <1>1, PollerAssumption DEF handleInput, PollerInv, PollerTypeOK
<1>8. connected' \in [Conns -> BOOLEAN]
  BY DEF handleInput, PollerInv, PollerTypeOK
<1> QED
  BY <1>6, <1>7, <1>8, WalkInv DEF handleInput

LEMMA NoInputInv ==
  ASSUME PollerInv, NEW c \in Conns, noInput(c)
  PROVE  PollerInv'
<1>1. c \in Open /\ afterOutput(c, queue, outFDSET)
  BY OpenFds DEF noInput, AtConnection
<1>2. queue \in [Conns -> 0..MaxQueue] /\ \A d \in Conns : queue[d] >= queue[d]
  BY PollerAssumption DEF PollerInv, PollerTypeOK
<1>3. /\ queue' \in [Conns -> 0..MaxQueue]
      /\ outFDSET' \subseteq {fd[d] : d \in Open}
      /\ \A g \in outFDSET' : \E d \in Open : fd[d] = g /\ queue'[d] > 0
  <2> DEFINE asked == outFDSET
  <2>1. asked = outFDSET \/ (asked = outFDSET \cup {fd[c]} /\ queue[c] > 0)
    OBVIOUS
  <2>2. afterOutput(c, queue, asked)
    BY <1>1
  <2> HIDE DEF asked
  <2> QED
    BY <1>1, <1>2, <2>1, <2>2, AfterOutputInv
<1> QED
  BY <1>3, WalkInv DEF noInput, peerVars, PollerInv, PollerTypeOK

LEMMA PollerInvNext == PollerInv /\ [Next]_vars => PollerInv'
<1> SUFFICES ASSUME PollerInv, [Next]_vars
             PROVE  PollerInv'
  OBVIOUS
<1>1. CASE UNCHANGED vars
  BY <1>1 DEF vars, daemonVars, peerVars, PollerInv, PollerTypeOK, SetsMatchConnections,
              Open, Reports, Readable
<1>2. CASE Loop
  BY <1>2, SelectInv, NoNewConnectionInv, NewConnectionInv, DestroyInv, HandleInputInv,
     NoInputInv DEF Loop
<1>3. CASE Peers
  BY <1>3, PeersInv DEF Peers
<1> QED
  BY <1>1, <1>2, <1>3 DEF Next

LEMMA PollerInvariant == Spec => []PollerInv
  BY PollerInvInit, PollerInvNext, PTL DEF Spec

(* The variables of the loop have their types, so that the walk is always  *)
(* at a connection there is, whatever was created or destroyed before.     *)
THEOREM PollerIsTyped == Spec => []PollerTypeOK
  BY PollerInvariant, PTL DEF PollerInv

(* The sets that Daemon::run() gives to select() are those of the open     *)
(* connections, for any number of peers and descriptors.                   *)
THEOREM SetsAreExact == Spec => []SetsMatchConnections
  BY PollerInvariant, PTL DEF PollerInv

(* Connection::handleInput() is never called where there is nothing to     *)
(* read: the daemon waits nowhere but in select().                         *)
THEOREM WaitsInSelectOnly == Spec => []ReadsDoNotWait
<1>1. PollerInv => ReadsDoNotWait
  <2> SUFFICES ASSUME PollerInv, NEW c \in Conns, AtConnection(c), fd[c] \in inFDtemp
               PROVE  Readable(c)
    BY DEF ReadsDoNotWait
  <2>1. it \in DOMAIN connections /\ connections[it] = c /\ it >= it /\ at # "select"
    BY OpenFds DEF AtConnection
  <2> QED
    BY <2>1 DEF PollerInv, Reports
<1> QED
  BY <1>1, PollerInvariant, PTL
-----------------------------------------------------------------------------
(* From main() to the first connection                                     *)

(* The listeners there may be                                              *)
Sockets ==
  [fd : Fds, place : {Place(d, w) : d \in STRING, w \in STRING \cup Int}, line : ListenLines,
   flags : SUBSET Flags, listening : BOOLEAN]

(* What a class may have made: listeners of its own, on descriptors that   *)
(* were free, one each                                                     *)
OpenedFor(l) ==
  {made \in Seq(Sockets) :
     \A i \in DOMAIN made :
       /\ made[i].fd \in Free /\ made[i].line = l /\ made[i].flags = flags(l)
       /\ \A j \in DOMAIN made : made[i].fd = made[j].fd => i = j}

EntriesOf(l) == [port : Int, made : OpenedFor(l), manyErrors : Nat]

(* The system gives out the lowest descriptor that is free.                *)
LEMMA FirstFreeIs ==
  ASSUME AnyFree
  PROVE  firstFree \in Free /\ \A f \in Free : firstFree <= f
<1>1. Free \subseteq Nat /\ Free # {}
  BY ListenersAssumption DEF Free, Fds, AnyFree
<1> QED
  BY <1>1, MinOfNumbers DEF firstFree

(* While the services are read, one that no listener of the class has yet  *)
LEMMA LeftIs ==
  ASSUME NEW acc, Left(acc) # {}
  PROVE  Min(Left(acc)) \in Free /\ Min(Left(acc)) \notin {m.fd : m \in ToSet(acc.made)}
<1>1. Left(acc) \subseteq Free
  BY DEF Left, FreeBeside
<1>2. Left(acc) \subseteq Nat
  BY <1>1, ListenersAssumption DEF Free, Fds
<1>3. Min(Left(acc)) \in Left(acc)
  BY <1>2, MinOfNumbers
<1> QED
  BY <1>1, <1>3 DEF Left

(* A listener that is made for a class is of that class.                   *)
LEMMA NewListenerIs ==
  ASSUME NEW l \in ListenLines, NEW f \in Free, NEW w \in STRING \cup Int
  PROVE  /\ NewListener(l, f, Place(l.domain, w)) \in Sockets
         /\ NewListener(l, f, Place(l.domain, w)).fd = f
         /\ NewListener(l, f, Place(l.domain, w)).line = l
         /\ NewListener(l, f, Place(l.domain, w)).flags = flags(l)
<1>1. Place(l.domain, w) \in {Place(d, v) : d \in STRING, v \in STRING \cup Int}
  BY StartupAssumption
<1>2. f \in Fds /\ flags(l) \in SUBSET Flags
  BY DEF Free, flags
<1> QED
  BY <1>1, <1>2 DEF NewListener, Sockets

(* One more listener, on a descriptor that none of them has                *)
LEMMA OneMoreListener ==
  ASSUME NEW l \in ListenLines, NEW made \in OpenedFor(l), NEW x \in Sockets,
         x.fd \in Free, x.line = l, x.flags = flags(l),
         \A i \in DOMAIN made : made[i].fd # x.fd
  PROVE  <<x>> \o made \in OpenedFor(l)
<1> DEFINE n == Len(made)
           more == <<x>> \o made
<1>1. made \in Seq(Sockets) /\ n \in Nat /\ <<x>> \in Seq(Sockets) /\ Len(<<x>>) = 1
  BY DEF OpenedFor
<1>2. /\ more \in Seq(Sockets) /\ DOMAIN more = 1..(n + 1) /\ more[1] = x
      /\ \A i \in 2..(n + 1) : more[i] = made[i - 1] /\ i - 1 \in DOMAIN made
  BY <1>1
<1> HIDE DEF more
<1>3. ASSUME NEW i \in DOMAIN more
      PROVE  /\ more[i].fd \in Free /\ more[i].line = l /\ more[i].flags = flags(l)
             /\ \A j \in DOMAIN more : more[i].fd = more[j].fd => i = j
  <2>1. CASE i = 1
    <3>1. \A j \in 2..(n + 1) : more[j].fd # x.fd
      BY <1>2
    <3> QED
      BY <1>1, <1>2, <2>1, <3>1
  <2>2. CASE i \in 2..(n + 1)
    <3>1. /\ more[i].fd \in Free /\ more[i].line = l /\ more[i].flags = flags(l)
          /\ more[i].fd # x.fd
      BY <1>2, <2>2 DEF OpenedFor
    <3>2. ASSUME NEW j \in 2..(n + 1), more[i].fd = more[j].fd
          PROVE  i = j
      <4>1. i - 1 = j - 1
        BY <1>2, <2>2, <3>2 DEF OpenedFor
      <4> QED
        BY <1>1, <2>2, <4>1
    <3> QED
      BY <1>1, <1>2, <3>1, <3>2
  <2> QED
    BY <1>1, <1>2, <2>1, <2>2
<1> QED
  BY <1>2, <1>3 DEF OpenedFor, more

(* An entry of the services makes no listener or one more.                 *)
LEMMA EntryOpens ==
  ASSUME NEW l \in ListenLines, NEW acc \in EntriesOf(l), NEW k \in DOMAIN Services
  PROVE  serviceEntry(l, acc, Services[k]) \in EntriesOf(l)
<1> DEFINE s == Services[k]
           port == IF Named(l, s) THEN s.port ELSE acc.port
           place == Place(l.domain, port)
           free == Min(Left(acc))
           x == NewListener(l, free, place)
<1>1. acc.port \in Int /\ acc.made \in OpenedFor(l) /\ acc.manyErrors \in Nat
  BY DEF EntriesOf
<1>2. port \in Int
  <2>1. s.port \in Nat
    <3> DEFINE S == [names : SUBSET STRING, proto : STRING, port : Nat]
    <3>1. s \in S
      <4>1. Services \in Seq(S)
        BY ListenersAssumption
      <4> HIDE DEF S
      <4> QED
        BY <4>1
    <3> QED
      BY <3>1
  <2> QED
    BY <1>1, <2>1
<1> HIDE DEF port
<1>3. CASE port <= 0
  <2>1. serviceEntry(l, acc, s) =
          [port |-> port, made |-> acc.made, manyErrors |-> acc.manyErrors]
    BY <1>3 DEF serviceEntry, port, EntriesOf
  <2> QED
    BY <1>1, <1>2, <2>1 DEF EntriesOf
<1>4. CASE ~(port <= 0) /\ setupSocket(l, place, Found(acc), Left(acc))
  <2>1. Left(acc) # {}
    BY <1>4 DEF setupSocket
  <2>2. free \in Free /\ free \notin {m.fd : m \in ToSet(acc.made)}
    BY <2>1, LeftIs
  <2> HIDE DEF free
  <2>3. x \in Sockets /\ x.fd = free /\ x.line = l /\ x.flags = flags(l)
    <3>1. port \in STRING \cup Int
      BY <1>2
    <3> QED
      BY <2>2, <3>1, NewListenerIs
  <2>4. \A i \in DOMAIN acc.made : acc.made[i].fd # x.fd
    BY <2>2, <2>3 DEF ToSet
  <2> HIDE DEF x
  <2>5. <<x>> \o acc.made \in OpenedFor(l)
    BY <1>1, <2>2, <2>3, <2>4, OneMoreListener
  <2>6. serviceEntry(l, acc, s) =
          [port |-> -2, made |-> <<x>> \o acc.made, manyErrors |-> acc.manyErrors]
    BY <1>4 DEF serviceEntry, port, free, x, EntriesOf
  <2> QED
    BY <1>1, <2>5, <2>6 DEF EntriesOf
<1>5. CASE ~(port <= 0) /\ ~setupSocket(l, place, Found(acc), Left(acc))
  <2>1. serviceEntry(l, acc, s) =
          [port |-> port, made |-> acc.made, manyErrors |-> acc.manyErrors + 1]
    BY <1>5 DEF serviceEntry, port, EntriesOf
  <2> QED
    BY <1>1, <1>2, <2>1 DEF EntriesOf
<1> QED
  BY <1>3, <1>4, <1>5

(* What there is after each entry, by the rounds of the loop over them     *)
AfterEntries(l, n, after) ==
  /\ n \in Nat /\ n = IF AnyFree THEN Len(Services) ELSE 0
  /\ after[0] = [port |-> config(l).PORT.value, made |-> <<>>, manyErrors |-> 0]
  /\ \A i \in 1..n : /\ i \in DOMAIN Services
                     /\ after[i] = serviceEntry(l, after[i - 1], Services[i])
  /\ \A i \in 0..n : after[i] \in EntriesOf(l)
  /\ lookupNames(l) = [ok |-> after[n].manyErrors = 0, made |-> after[n].made]

LEMMA NamesLoop ==
  ASSUME NEW l \in ListenLines
  PROVE  \E n, after : AfterEntries(l, n, after)
<1> DEFINE entries == IF AnyFree THEN Services ELSE <<>>
           n == Len(entries)
           first == [port |-> config(l).PORT.value, made |-> <<>>, manyErrors |-> 0]
           step == [p \in EntriesOf(l) \X (DOMAIN Services) |->
                      serviceEntry(l, p[1], Services[p[2]])]
           places == [i \in 1..n |-> i]
           After(f) == f = [i \in 0..n |->
                              IF i = 0 THEN first ELSE serviceEntry(l, f[i - 1], entries[i])]
           after == CHOOSE f : After(f)
<1>0. n = IF AnyFree THEN Len(Services) ELSE 0
  OBVIOUS
<1>1. /\ n \in Nat /\ places \in Seq(DOMAIN Services) /\ Len(places) = n
      /\ \A i \in 1..n : i \in DOMAIN Services /\ entries[i] = Services[i]
  <2>1. Services \in Seq([names : SUBSET STRING, proto : STRING, port : Nat])
    BY ListenersAssumption
  <2>2. /\ Len(Services) \in Nat /\ DOMAIN Services = 1..Len(Services)
    BY <2>1
  <2>3. n \in Nat /\ 1..n \subseteq DOMAIN Services
    BY <2>2
  <2> HIDE DEF n
  <2>4. places \in Seq(DOMAIN Services) /\ Len(places) = n
    BY <2>3
  <2>5. \A i \in 1..n : entries[i] = Services[i]
    BY DEF n
  <2> QED
    BY <2>3, <2>4, <2>5
<1>2. first \in EntriesOf(l)
  <2>1. <<>> \in OpenedFor(l)
    BY DEF OpenedFor
  <2> QED
    BY <2>1, StartupAssumption DEF EntriesOf
<1>3. step \in [EntriesOf(l) \X (DOMAIN Services) -> EntriesOf(l)]
  BY EntryOpens
<1> HIDE DEF n, first, entries
<1>4. \E f : After(f)
  <2> HIDE DEF places, step
  <2>1. PICK f \in [0..n -> EntriesOf(l)] : Looping(f, first, step, places)
    BY <1>1, <1>2, <1>3, LoopsRun
  <2>2. f = [i \in 0..n |-> IF i = 0 THEN first ELSE step[<<f[i - 1], places[i]>>]]
    BY <1>1, <2>1 DEF Looping
  <2>3. ASSUME NEW i \in 0..n, i # 0
        PROVE  step[<<f[i - 1], places[i]>>] = serviceEntry(l, f[i - 1], entries[i])
    <3>1. i \in 1..n /\ i - 1 \in 0..n
      BY <1>1, <2>3
    <3> QED
      BY <1>1, <2>1, <3>1 DEF step, places
  <2> QED
    BY <2>2, <2>3
<1>5. After(after)
  BY <1>4
<1>6. lookupNames(l) = [ok |-> after[n].manyErrors = 0, made |-> after[n].made]
  BY DEF lookupNames, entries, n, first
<1> HIDE DEF after, step, places
<1>7. after[0] = first /\ \A i \in 1..n : after[i] = serviceEntry(l, after[i - 1], entries[i])
  BY <1>1, <1>5
<1> DEFINE Opening == {i \in 0..n : after[i] \in EntriesOf(l)}
<1>8. 0..n \subseteq Opening
  <2>1. 0 \in Opening
    BY <1>1, <1>2, <1>7
  <2>2. ASSUME NEW i \in 1..n, i - 1 \in Opening
        PROVE  i \in Opening
    BY <1>1, <1>7, <2>2, EntryOpens
  <2> HIDE DEF Opening
  <2> QED
    BY <1>1, <2>1, <2>2, RoundByRound
<1>9. \A i \in 1..n : /\ i \in DOMAIN Services
                     /\ after[i] = serviceEntry(l, after[i - 1], Services[i])
  BY <1>1, <1>7
<1>10. AfterEntries(l, n, after)
  BY <1>0, <1>1, <1>6, <1>7, <1>8, <1>9 DEF AfterEntries, first
<1> QED
  BY <1>10

(* So all entries together make listeners of the class.                    *)
LEMMA NamesOpen ==
  ASSUME NEW l \in ListenLines
  PROVE  lookupNames(l).made \in OpenedFor(l)
<1>1. PICK n, after : AfterEntries(l, n, after)
  BY NamesLoop
<1>2. after[n] \in EntriesOf(l) /\ lookupNames(l).made = after[n].made
  BY <1>1 DEF AfterEntries
<1> QED
  BY <1>2 DEF EntriesOf

(* A port given by its number and a file make one listener at most.        *)
LEMMA PlaceOpens ==
  ASSUME NEW l \in ListenLines, NEW w \in STRING \cup Int
  PROVE  openPlace(l, w).made \in OpenedFor(l)
<1> DEFINE x == NewListener(l, firstFree, Place(l.domain, w))
<1>1. <<>> \in OpenedFor(l)
  BY DEF OpenedFor
<1>2. CASE ~setupSocket(l, Place(l.domain, w), OwnPlaces, Free)
  BY <1>1, <1>2 DEF openPlace
<1>3. CASE setupSocket(l, Place(l.domain, w), OwnPlaces, Free)
  <2>1. firstFree \in Free
    BY <1>3, FirstFreeIs DEF setupSocket, AnyFree
  <2>2. x \in Sockets /\ x.fd \in Free /\ x.line = l /\ x.flags = flags(l)
    BY <2>1, NewListenerIs
  <2>3. openPlace(l, w).made = <<x>>
    BY <1>3 DEF openPlace
  <2> HIDE DEF x
  <2>4. <<x>> \o <<>> \in OpenedFor(l)
    <3>1. \A i \in DOMAIN <<>> : <<>>[i].fd # x.fd
      OBVIOUS
    <3> QED
      BY <1>1, <2>2, <3>1, OneMoreListener
  <2>5. <<x>> \o <<>> = <<x>>
    OBVIOUS
  <2> QED
    BY <2>3, <2>4, <2>5
<1> QED
  BY <1>2, <1>3

(* Whatever a LISTEN class says, the listeners it makes have descriptors of*)
(* their own, and what the class says of who may come by them.             *)
LEMMA ClassOpens ==
  ASSUME NEW l \in ListenLines
  PROVE  classHandler(l).made \in OpenedFor(l)
<1>1. <<>> \in OpenedFor(l)
  BY DEF OpenedFor
<1>2. config(l).ADDRESS \in STRING \cup Int /\ config(l).PORT.value \in STRING \cup Int
  BY StartupAssumption
<1>3. \/ classHandler(l) = refused \/ classHandler(l) = lookupNames(l)
      \/ classHandler(l) = openPlace(l, config(l).ADDRESS)
      \/ classHandler(l) = openPlace(l, config(l).PORT.value)
  <2> DEFINE known == DOMAIN l.sets \subseteq classDefs
             whole == config(l).PORT.whole
             valued == config(l).PORT.value <= 0
             address == config(l).ADDRESS
             port == config(l).PORT.value
  <2>1. whole \in BOOLEAN /\ known \in BOOLEAN /\ valued \in BOOLEAN
    BY StartupAssumption
  <2>2. classHandler(l) =
          CASE l.domain \notin domainTypes \/ ~known -> refused
            [] l.domain = "UNIX" /\ known ->
                 IF address = "" THEN refused ELSE openPlace(l, address)
            [] l.domain \in domainTypes \ {"UNIX"} /\ known /\ whole ->
                 IF valued THEN refused ELSE openPlace(l, port)
            [] l.domain = "IPX" /\ ~whole -> refused
            [] OTHER -> lookupNames(l)
    BY DEF classHandler
  <2> HIDE DEF known, whole, valued, address, port
  <2>3. \/ classHandler(l) = refused \/ classHandler(l) = lookupNames(l)
        \/ classHandler(l) = openPlace(l, address) \/ classHandler(l) = openPlace(l, port)
    BY <2>1, <2>2, Zenon
  <2> QED
    BY <2>3 DEF address, port
<1> QED
  <2>1. refused.made \in OpenedFor(l) /\ lookupNames(l).made \in OpenedFor(l)
    BY <1>1, NamesOpen DEF refused
  <2>2. /\ openPlace(l, config(l).ADDRESS).made \in OpenedFor(l)
        /\ openPlace(l, config(l).PORT.value).made \in OpenedFor(l)
    BY <1>2, PlaceOpens
  <2> QED
    BY <1>3, <2>1, <2>2
-----------------------------------------------------------------------------
(* A module in the list, and what has become of the first connection       *)
Loaded ==
  [kind : Modules, masks : {l.masks : l \in ModuleLines}, start : {"no", "yes", "failed"}]
Links ==
  [state : {"none", "registering", "disallowed", "complete", "user", "refused", "crashed"},
   allowed : SUBSET Flags]

StartupTypes ==
  /\ build \in Builds
  /\ descriptors \in [Fds -> {"free", "standard", "file", "socket", "log"}]
  /\ listeners \in Seq(Sockets)
  /\ phase \in Ends \cup {"main", "configuring", "daemon", "network", "server",
                          "initialised", "startModules", "startListeners"}
  /\ lines \in Seq(ListenLines \cup ModuleLines)
  /\ modules \in Seq(Loaded)
  /\ references \in Nat /\ tagMaps \subseteq IRC \cup {"libirc2"}
  /\ \A k \in DOMAIN protocols : protocols[k] \in IRC
  /\ DOMAIN loggers \subseteq DOMAIN modules /\ DOMAIN logged = DOMAIN loggers
  /\ inputSet \subseteq Fds
  /\ instances \subseteq {"Languages", "Commands", "Daemon", "Registry", "MyNetwork", "MyServer",
                           "ISupport"}
  /\ connection \in Links

(* The phases behind some steps of main()                                  *)
Closed == {"startModules", "startListeners", "running"}
Initialised == {"server", "initialised"} \cup Closed
Networked == {"network"} \cup Initialised
Served == {"daemon"} \cup Networked

(* Listeners have sockets of their own, until descriptors 0 to 2 are closed*)
(* under them, which cannot be if those were open in the beginning.        *)
OwnSockets ==
  /\ phase = "main" => descriptors[3] = "free"
  /\ \A i, j \in DOMAIN listeners : listeners[i].fd = listeners[j].fd => i = j
  /\ phase \notin Closed \/ build.standard =>
       \A i \in DOMAIN listeners : descriptors[listeners[i].fd] = "socket"
  /\ build.standard => \A i \in DOMAIN listeners : listeners[i].fd \notin Standard

(* What descriptors 0 to 2 are then: closed, and given to logs from the    *)
(* lowest on, or still what they were                                      *)
Console ==
  build.standard =>
    IF phase \in Closed /\ ~build.debug
    THEN /\ \A f \in Standard : descriptors[f] \in {"free", "log"}
         /\ (\E f \in Standard : descriptors[f] = "log") => descriptors[0] = "log"
    ELSE \A f \in Standard : descriptors[f] = "standard"

(* What select() is asked about once the loop runs                         *)
Selected ==
  phase = "running" =>
    /\ inputSet = {listeners[i].fd : i \in DOMAIN listeners} \cup {0}
    /\ build.standard =>
         \A i \in DOMAIN listeners :
           \E j \in DOMAIN listeners :
             listeners[j].listening /\ listeners[j].place = listeners[i].place

(* A listener allows what a line has said.                                 *)
SaidByLines ==
  \A i \in DOMAIN listeners :
    /\ listeners[i].flags = flags(listeners[i].line)
    /\ \E k \in DOMAIN lines : lines[k] = listeners[i].line

(* Which single instances there are                                        *)
MadeInOrder ==
  /\ phase = "configuring" \/ phase \in Served => "Languages" \in instances
  /\ phase \in Served => {"Registry", "Daemon"} \subseteq instances
  /\ phase \in Networked => "MyNetwork" \in instances
  /\ phase \in Initialised => "MyServer" \in instances
  /\ \A m \in DOMAIN modules : modules[m].kind = "irc2user" =>
       /\ "Commands" \in instances
       /\ modules[m].start = "yes" => "ISupport" \in instances

(* Protocols are loaded once, and a module that has not been started has   *)
(* not asked for the library.                                              *)
OnceEach ==
  /\ \A m, n \in DOMAIN modules :
       modules[m].kind \in IRC /\ modules[m].kind = modules[n].kind => m = n
  /\ references <= Len(modules)
  /\ \A m \in DOMAIN modules : modules[m].start = "no" => references < m

(* A protocol is registered, under its key, if its module has started.     *)
HasStarted(kind) ==
  \E m \in DOMAIN modules : modules[m].kind = kind /\ modules[m].start = "yes"
Registered ==
  /\ \A k \in DOMAIN protocols : k = Key(protocolType[protocols[k]])
  /\ \A kind \in IRC :
       HasStarted(kind) <=> \E k \in DOMAIN protocols : protocols[k] = kind
  /\ build.byType => \A m \in DOMAIN modules : modules[m].start # "failed"

(* What has become of the first connection follows from what has started,  *)
(* and from what its listener allows.                                      *)
Connected ==
  /\ connection.state # "none" => phase = "running"
  /\ connection.state = "crashed" => ~HasStarted("irc2registrar")
  /\ connection.state \in {"registering", "disallowed", "complete", "user", "refused"} =>
       /\ HasStarted("irc2registrar")
       /\ \E i \in DOMAIN listeners : connection.allowed = listeners[i].flags
  /\ connection.state \in {"complete", "user", "refused"} => "ALLOWUSERS" \in connection.allowed
  /\ connection.state = "user" => HasStarted("irc2user")
  /\ connection.state = "refused" => ~HasStarted("irc2user")

(* The inductive invariant of the way to the main loop                     *)
ModulesInv == OnceEach /\ Registered
StartupInv ==
  /\ StartupTypes /\ OwnSockets /\ Console /\ Selected /\ SaidByLines
  /\ MadeInOrder /\ ModulesInv /\ Connected

(* Before main() there is nothing that could be wrong.                     *)
LEMMA StartupInvInit == StartupInit => StartupInv
<1> SUFFICES ASSUME StartupInit
             PROVE  StartupInv
  OBVIOUS
<1> USE DEF StartupInit, DaemonInit, NoConnection
<1>0. <<>> \in Seq(Sockets) /\ <<>> \in Seq(Loaded) /\ DOMAIN <<>> = {}
  OBVIOUS
<1>1. StartupTypes
  <2>1. connection \in Links
    BY DEF Links
  <2>2. descriptors \in [Fds -> {"free", "standard", "file", "socket", "log"}]
    OBVIOUS
  <2> QED
    BY <1>0, <2>1, <2>2 DEF StartupTypes
<1>2. OwnSockets
  <2>1. 3 \in Fds /\ 3 \notin Standard
    BY ListenersAssumption DEF Fds, Standard
  <2> QED
    BY <1>0, <2>1 DEF OwnSockets
<1>3. Console
  <2>1. Standard \subseteq Fds
    BY ListenersAssumption DEF Fds, Standard
  <2> QED
    BY <2>1 DEF Console, Closed
<1>4. Selected /\ SaidByLines /\ MadeInOrder /\ OnceEach
  BY <1>0 DEF Selected, SaidByLines, MadeInOrder, OnceEach, Served, Networked, Initialised, Closed
<1>5. Registered /\ Connected
  BY <1>0 DEF Registered, Connected, HasStarted
<1> QED
  BY <1>1, <1>2, <1>3, <1>4, <1>5 DEF StartupInv, ModulesInv
-----------------------------------------------------------------------------
(* A descriptor that is taken was free, and nothing else changes.          *)
LEMMA TakesFree ==
  ASSUME AnyFree, descriptors \in [Fds -> {"free", "standard", "file", "socket", "log"}],
         NEW kind \in {"file", "log"}, descriptors' = [descriptors EXCEPT ![firstFree] = kind]
  PROVE  /\ firstFree \in Fds /\ descriptors[firstFree] = "free"
         /\ \A f \in Fds : firstFree <= f \/ descriptors[f] # "free"
         /\ \A f \in Fds : descriptors'[f] = IF f = firstFree THEN kind ELSE descriptors[f]
         /\ descriptors' \in [Fds -> {"free", "standard", "file", "socket", "log"}]
<1>1. firstFree \in Free /\ \A f \in Free : firstFree <= f
  BY FirstFreeIs
<1> QED
  BY <1>1 DEF Free

(* There is room for descriptors 0 to 2 and for one more.                  *)
StandardIn == 3 \in Fds /\ Standard \subseteq Fds /\ 0 \in Standard
LEMMA StandardFds == StandardIn
  BY ListenersAssumption DEF Fds, Standard, StandardIn

(* What the list of listeners holds                                        *)
LEMMA ListenersAre ==
  ASSUME listeners \in Seq(Sockets)
  PROVE  \A i \in DOMAIN listeners :
           /\ listeners[i].fd \in Fds /\ listeners[i].line \in ListenLines
           /\ listeners[i].flags \subseteq Flags
<1>1. \A i \in DOMAIN listeners : listeners[i] \in Sockets
  OBVIOUS
<1> QED
  BY <1>1 DEF Sockets

(* The parser takes a descriptor for the file, and may keep it.            *)
LEMMA ConfigureInv == StartupInv /\ configure => StartupInv'
<1> SUFFICES ASSUME StartupInv, configure
             PROVE  StartupInv'
  OBVIOUS
<1> USE DEF StartupInv, ModulesInv
<1>1. /\ phase = "main" /\ phase' = "configuring" /\ instances' = instances \cup {"Languages"}
      /\ UNCHANGED <<build, listeners, lines, modules, references, tagMaps, protocols, loggers,
                     logged, inputSet, connection>>
  BY DEF configure, moduleVars
<1>2. AnyFree
  BY StandardFds DEF StandardIn, StartupTypes, OwnSockets, AnyFree, Free, configure
<1>3. \/ UNCHANGED descriptors
      \/ /\ descriptors[firstFree] = "free"
         /\ \A f \in Fds : descriptors'[f] = IF f = firstFree THEN "file" ELSE descriptors[f]
         /\ descriptors' \in [Fds -> {"free", "standard", "file", "socket", "log"}]
  BY <1>2, TakesFree DEF configure, StartupTypes
<1>4. StartupTypes'
  BY <1>1, <1>3 DEF StartupTypes
<1>5. OwnSockets'
  <2>1. \A i \in DOMAIN listeners : listeners[i].fd \in Fds /\ descriptors[listeners[i].fd] = "socket"
    BY <1>1, ListenersAre DEF OwnSockets, StartupTypes, Closed
  <2> QED
    BY <1>1, <1>3, <2>1 DEF OwnSockets
<1>6. Console'
  BY <1>1, <1>3, StandardFds DEF Console, Closed, StandardIn
<1>7. (Selected /\ SaidByLines /\ MadeInOrder /\ OnceEach)'
  BY <1>1 DEF Selected, SaidByLines, MadeInOrder, OnceEach, Served, Networked, Initialised, Closed
<1>8. (Registered /\ Connected)'
  BY <1>1 DEF Registered, Connected, HasStarted, Key
<1> QED
  BY <1>4, <1>5, <1>6, <1>7, <1>8

(* The order in which main() makes the single instances is the one in which*)
(* they need each other.                                                   *)
LEMMA MainInv ==
  StartupInv /\ (initLibtoolFails \/ initDaemon \/ initNetwork \/ initServer \/ background
                \/ modulesStarted \/ configurationFails \/ configurationCrashes) => StartupInv'
<1> SUFFICES ASSUME StartupInv, initLibtoolFails \/ initDaemon \/ initNetwork \/ initServer
                                \/ background \/ modulesStarted \/ configurationFails
                                \/ configurationCrashes
             PROVE  StartupInv'
  OBVIOUS
<1> USE DEF StartupInv, ModulesInv
<1>1. /\ phase # "running" /\ phase' # "running" /\ phase' # "main"
      /\ (phase' \in Closed) = (phase \in Closed)
      /\ phase' \in Ends \cup {"daemon", "network", "server", "initialised", "startListeners"}
      /\ UNCHANGED <<build, listeners, lines, modules, references, tagMaps, protocols, loggers,
                     logged, inputSet, connection>>
  <2>1. CASE initDaemon
    BY <2>1 DEF initDaemon, moduleVars, Closed
  <2>2. CASE initNetwork
    BY <2>2 DEF initNetwork, moduleVars, Closed, Use, MadeInOrder, Served
  <2>3. CASE initServer
    BY <2>3 DEF initServer, moduleVars, Closed, Use, MadeInOrder, Served, Networked
  <2>4. CASE background
    BY <2>4 DEF background, moduleVars, Closed, Ends
  <2>5. CASE modulesStarted
    BY <2>5 DEF modulesStarted, moduleVars, Closed
  <2>6. CASE configurationFails
    BY <2>6 DEF configurationFails, moduleVars, Closed, Ends
  <2>7. CASE configurationCrashes
    BY <2>7 DEF configurationCrashes, moduleVars, Closed, Ends
  <2>8. CASE initLibtoolFails
    BY <2>8 DEF initLibtoolFails, moduleVars, Closed, Ends
  <2> QED
    BY <2>1, <2>2, <2>3, <2>4, <2>5, <2>6, <2>7, <2>8
<1>2. /\ descriptors' \in [Fds -> {"free", "standard", "file", "socket", "log"}]
      /\ \A f \in Fds : \/ descriptors'[f] = descriptors[f]
                        \/ descriptors[f] = "file" /\ descriptors'[f] = "free"
  <2>1. CASE initDaemon
    <3>1. descriptors' = [f \in Fds |-> IF descriptors[f] = "file" THEN "free"
                                       ELSE descriptors[f]]
      BY <2>1 DEF initDaemon
    <3>2. descriptors \in [Fds -> {"free", "standard", "file", "socket", "log"}]
      BY DEF StartupTypes
    <3> QED
      BY <3>1, <3>2
  <2>2. CASE ~initDaemon
    <3>1. UNCHANGED descriptors
      BY <2>2 DEF initLibtoolFails, initNetwork, initServer, background, modulesStarted,
                  configurationFails, configurationCrashes
    <3> QED
      BY <3>1 DEF StartupTypes
  <2> QED
    BY <2>1, <2>2
<1>3. /\ instances \subseteq instances' /\ MadeInOrder'
      /\ instances' \subseteq {"Languages", "Commands", "Daemon", "Registry", "MyNetwork",
                               "MyServer", "ISupport"}
  <2> USE DEF MadeInOrder, Served, Networked, Initialised, Closed, moduleVars, Ends, StartupTypes
  <2>1. CASE initDaemon
    BY <2>1 DEF initDaemon, initRegistry
  <2>2. CASE initNetwork
    BY <2>2 DEF initNetwork, Use
  <2>3. CASE initServer
    BY <2>3 DEF initServer, Use
  <2>4. CASE background
    BY <2>4 DEF background
  <2>5. CASE modulesStarted
    BY <2>5 DEF modulesStarted
  <2>6. CASE configurationFails
    BY <2>6 DEF configurationFails
  <2>7. CASE configurationCrashes
    BY <2>7 DEF configurationCrashes
  <2>8. CASE initLibtoolFails
    BY <2>8 DEF initLibtoolFails
  <2> QED
    BY <2>1, <2>2, <2>3, <2>4, <2>5, <2>6, <2>7, <2>8
<1>4. StartupTypes'
  BY <1>1, <1>2, <1>3 DEF StartupTypes
<1>5. OwnSockets'
  <2>1. \A i \in DOMAIN listeners : listeners[i].fd \in Fds
    BY ListenersAre DEF StartupTypes
  <2> QED
    BY <1>1, <1>2, <2>1 DEF OwnSockets
<1>6. Console'
  BY <1>1, <1>2, StandardFds DEF Console, StandardIn
<1>7. (Selected /\ SaidByLines /\ OnceEach)'
  BY <1>1 DEF Selected, SaidByLines, OnceEach
<1>8. (Registered /\ Connected)'
  BY <1>1 DEF Registered, Connected, HasStarted, Key
<1> QED
  BY <1>3, <1>4, <1>5, <1>6, <1>7, <1>8

(* What closes descriptors 0 to 2 closes no listener, unless one was given *)
(* such a number.                                                          *)
LEMMA CloseStandardInv == StartupInv /\ closeStandard => StartupInv'
<1> SUFFICES ASSUME StartupInv, closeStandard
             PROVE  StartupInv'
  OBVIOUS
<1> USE DEF StartupInv, ModulesInv
<1>1. /\ phase = "initialised" /\ phase' = "startModules"
      /\ descriptors' = [f \in Fds |->
           IF f \in Standard /\ ~build.debug THEN "free" ELSE descriptors[f]]
      /\ UNCHANGED <<build, listeners, lines, modules, references, tagMaps, protocols, loggers,
                     logged, inputSet, instances, connection>>
  BY DEF closeStandard, moduleVars
<1>2. StartupTypes'
  BY <1>1 DEF StartupTypes
<1>3. OwnSockets'
  <2>1. \A i \in DOMAIN listeners : listeners[i].fd \in Fds
    BY ListenersAre DEF StartupTypes
  <2> QED
    BY <1>1, <2>1 DEF OwnSockets, Closed
<1>4. Console'
  BY <1>1, StandardFds DEF Console, StandardIn, Closed
<1>5. (Selected /\ SaidByLines /\ MadeInOrder /\ OnceEach)'
  BY <1>1 DEF Selected, SaidByLines, MadeInOrder, OnceEach, Served, Networked, Initialised, Closed
<1>6. (Registered /\ Connected)'
  BY <1>1 DEF Registered, Connected, HasStarted, Key
<1> QED
  BY <1>2, <1>3, <1>4, <1>5, <1>6

(* A module that is loaded is one, and no protocol is loaded twice.        *)
LEMMA LoadedIs ==
  ASSUME NEW l \in ModuleLines, Loads(l.module)
  PROVE  /\ l.module \in Modules
         /\ l.module \in IRC => \A m \in DOMAIN modules : modules[m].kind # l.module
<1>1. l.module \notin Broken
  BY DEF Loads, descriptor, Broken
<1>2. l.module \in Modules
  BY <1>1, StartupAssumption
<1>3. l.module \in IRC => getInfo[l.module].unique = TRUE
  <2>1. getInfo["irc2registrar"].unique = TRUE /\ getInfo["irc2user"].unique = TRUE
    BY DEF getInfo, registrarInfo, userProtocolInfo
  <2> QED
    BY <2>1 DEF IRC
<1> QED
  BY <1>2, <1>3 DEF Loads, isLoaded

(* A module that is loaded is put behind the others and not started.       *)
LEMMA ClassHandleModuleInv ==
  ASSUME StartupInv, NEW l \in ModuleLines, classHandleModule(l)
  PROVE  StartupInv'
<1> DEFINE n == Len(modules)
           x == [kind |-> l.module, masks |-> l.masks, start |-> "no"]
<1> USE DEF StartupInv, ModulesInv
<1>1. /\ phase = "configuring" /\ lines' = Append(lines, l) /\ Loads(l.module)
      /\ modules' = Append(modules, x) /\ instances' = instances \cup moduleInit(l.module)
      /\ UNCHANGED <<build, descriptors, listeners, phase, references, tagMaps, protocols,
                     loggers, logged, inputSet, connection>>
  BY DEF classHandleModule, loadModule
<1>2. x \in Loaded
  BY <1>1, LoadedIs DEF Loaded
<1>3. modules \in Seq(Loaded) /\ n \in Nat /\ lines \in Seq(ListenLines \cup ModuleLines)
  BY DEF StartupTypes
<1> HIDE DEF x
<1>4. /\ modules' \in Seq(Loaded) /\ DOMAIN modules = 1..n /\ DOMAIN modules' = 1..(n + 1)
      /\ Len(modules') = n + 1
      /\ modules'[n + 1] = x /\ \A m \in 1..n : modules'[m] = modules[m]
  BY <1>1, <1>2, <1>3
<1>5. /\ lines' \in Seq(ListenLines \cup ModuleLines)
      /\ \A k \in DOMAIN lines : k \in DOMAIN lines' /\ lines'[k] = lines[k]
  BY <1>1, <1>3
<1>6. x.kind = l.module /\ x.start = "no" /\ l.module \in Modules
  BY <1>1, LoadedIs DEF x
<1>7. StartupTypes'
  BY <1>1, <1>3, <1>4, <1>5 DEF StartupTypes, moduleInit
<1>8. (OwnSockets /\ Console /\ Selected)'
  BY <1>1 DEF OwnSockets, Console, Selected
<1>9. SaidByLines'
  BY <1>1, <1>5 DEF SaidByLines
<1>10. MadeInOrder'
  <2>1. ASSUME NEW m \in 1..(n + 1), modules'[m].kind = "irc2user"
        PROVE  "Commands" \in instances' /\ (modules'[m].start = "yes" => "ISupport" \in instances')
    <3>1. CASE m = n + 1
      BY <1>1, <1>4, <1>6, <2>1, <3>1 DEF moduleInit
    <3>2. CASE m \in 1..n
      BY <1>1, <1>4, <2>1, <3>2 DEF MadeInOrder
    <3> QED
      BY <1>3, <3>1, <3>2
  <2> QED
    BY <1>1, <1>4, <2>1 DEF MadeInOrder
<1>11. OnceEach'
  <2>1. references' <= n + 1 /\ references' < n + 1
    BY <1>1, <1>3 DEF OnceEach, StartupTypes
  <2>2. l.module \in IRC => \A m \in 1..n : modules[m].kind # l.module
    BY <1>1, <1>4, LoadedIs
  <2>3. \A m \in 1..(n + 1) : m = n + 1 \/ m \in 1..n
    BY <1>3
  <2> QED
    BY <1>1, <1>4, <1>6, <2>1, <2>2, <2>3 DEF OnceEach
<1>12. \A kind : HasStarted(kind)' <=> HasStarted(kind)
  <2>1. \A m \in 1..(n + 1) : m = n + 1 \/ m \in 1..n
    BY <1>3
  <2>2. 1..n \subseteq 1..(n + 1)
    BY <1>3
  <2> QED
    BY <1>4, <1>6, <2>1, <2>2 DEF HasStarted
<1>13. Registered'
  <2>1. \A m \in 1..(n + 1) : m = n + 1 \/ m \in 1..n
    BY <1>3
  <2>2. build' = build /\ protocols' = protocols
    BY <1>1
  <2>3. (build.byType => \A m \in DOMAIN modules : modules[m].start # "failed")'
    BY <1>4, <1>6, <2>1, <2>2 DEF Registered
  <2> QED
    BY <1>12, <2>2, <2>3 DEF Registered, Key
<1>14. Connected'
  BY <1>1 DEF Connected
<1> QED
  BY <1>7, <1>8, <1>9, <1>10, <1>11, <1>13, <1>14

(* A class's listeners are put in front of the others, with sockets of     *)
(* their own.                                                              *)
LEMMA ListenInv ==
  ASSUME StartupInv, NEW l \in ListenLines, LISTEN(l)
  PROVE  StartupInv'
<1> DEFINE made == classHandler(l).made
           n == Len(made)
           k == Len(listeners)
<1> USE DEF StartupInv, ModulesInv
<1>1. /\ phase = "configuring" /\ lines' = Append(lines, l)
      /\ listeners' = made \o listeners
      /\ descriptors' = [f \in Fds |->
           IF \E i \in DOMAIN made : made[i].fd = f THEN "socket" ELSE descriptors[f]]
      /\ UNCHANGED <<build, phase, modules, references, tagMaps, protocols, loggers, logged,
                     inputSet, instances, connection>>
  BY DEF LISTEN, addListeners, moduleVars
<1>2. made \in OpenedFor(l)
  BY ClassOpens
<1> HIDE DEF made
<1>3. /\ made \in Seq(Sockets) /\ n \in Nat /\ DOMAIN made = 1..n
      /\ \A i \in 1..n : /\ made[i].fd \in Fds /\ descriptors[made[i].fd] = "free"
                         /\ made[i].line = l /\ made[i].flags = flags(l)
                         /\ \A j \in 1..n : made[i].fd = made[j].fd => i = j
  BY <1>2 DEF OpenedFor, Free
<1>4. /\ listeners \in Seq(Sockets) /\ k \in Nat /\ DOMAIN listeners = 1..k
      /\ \A i \in 1..k : listeners[i].fd \in Fds
      /\ lines \in Seq(ListenLines \cup ModuleLines)
  BY ListenersAre DEF StartupTypes
<1>5. /\ listeners' \in Seq(Sockets) /\ DOMAIN listeners' = 1..(n + k)
      /\ \A i \in 1..n : listeners'[i] = made[i]
      /\ \A i \in (n + 1)..(n + k) : i - n \in 1..k /\ listeners'[i] = listeners[i - n]
  BY <1>1, <1>3, <1>4
<1>6. /\ lines' \in Seq(ListenLines \cup ModuleLines)
      /\ \A j \in DOMAIN lines : j \in DOMAIN lines' /\ lines'[j] = lines[j]
      /\ \E j \in DOMAIN lines' : lines'[j] = l
  <2>1. Len(lines) \in Nat /\ Len(lines') = Len(lines) + 1 /\ lines'[Len(lines) + 1] = l
    BY <1>1, <1>4
  <2> QED
    BY <1>1, <1>4, <2>1, SMTT(20)
<1>7. \A i \in 1..(n + k) : i \in 1..n \/ i \in (n + 1)..(n + k)
  BY <1>3, <1>4
<1>8. /\ \A i \in 1..k : descriptors[listeners[i].fd] = "socket"
      /\ \A i, j \in 1..k : listeners[i].fd = listeners[j].fd => i = j
      /\ build.standard => \A i \in 1..k : listeners[i].fd \notin Standard
      /\ build.standard => \A f \in Standard : descriptors[f] = "standard"
  BY <1>1, <1>4 DEF OwnSockets, Console, Closed
<1>9. StartupTypes'
  <2>1. descriptors' \in [Fds -> {"free", "standard", "file", "socket", "log"}]
    BY <1>1 DEF StartupTypes
  <2> QED
    BY <1>1, <1>5, <1>6, <2>1 DEF StartupTypes
<1>10. OwnSockets'
  <2>1. ASSUME NEW i \in 1..(n + k), NEW j \in 1..(n + k), listeners'[i].fd = listeners'[j].fd
        PROVE  i = j
    <3>1. CASE i \in 1..n /\ j \in 1..n
      BY <1>3, <1>5, <2>1, <3>1
    <3>2. CASE i \in (n + 1)..(n + k) /\ j \in (n + 1)..(n + k)
      <4>1. i - n \in 1..k /\ j - n \in 1..k
        BY <1>5, <3>2
      <4>2. listeners[i - n].fd = listeners[j - n].fd
        BY <1>5, <2>1, <3>2
      <4>3. \A a, b \in 1..k : listeners[a].fd = listeners[b].fd => a = b
        BY <1>8
      <4>4. i - n = j - n
        BY <4>1, <4>2, <4>3
      <4> QED
        BY <1>3, <1>4, <4>4
    <3>3. CASE i \in 1..n /\ j \in (n + 1)..(n + k)
      BY <1>3, <1>5, <1>8, <2>1, <3>3
    <3>4. CASE i \in (n + 1)..(n + k) /\ j \in 1..n
      BY <1>3, <1>5, <1>8, <2>1, <3>4
    <3> QED
      BY <1>7, <3>1, <3>2, <3>3, <3>4
  <2>2. ASSUME NEW i \in 1..(n + k)
        PROVE  /\ descriptors'[listeners'[i].fd] = "socket"
               /\ build.standard => listeners'[i].fd \notin Standard
    <3>1. CASE i \in 1..n
      BY <1>1, <1>3, <1>5, <1>8, <3>1
    <3>2. CASE i \in (n + 1)..(n + k)
      BY <1>1, <1>4, <1>5, <1>8, <3>2
    <3> QED
      BY <1>7, <3>1, <3>2
  <2> QED
    BY <1>1, <1>5, <2>1, <2>2 DEF OwnSockets
<1>11. Console'
  BY <1>1, <1>3, <1>8, StandardFds DEF Console, Closed, StandardIn
<1>12. SaidByLines'
  <2>1. ASSUME NEW i \in 1..(n + k)
        PROVE  /\ listeners'[i].flags = flags(listeners'[i].line)
               /\ \E j \in DOMAIN lines' : lines'[j] = listeners'[i].line
    <3>1. CASE i \in 1..n
      BY <1>3, <1>5, <1>6, <3>1
    <3>2. CASE i \in (n + 1)..(n + k)
      <4>1. i - n \in DOMAIN listeners /\ listeners'[i] = listeners[i - n]
        BY <1>4, <1>5, <3>2
      <4>2. /\ listeners[i - n].flags = flags(listeners[i - n].line)
            /\ \E j \in DOMAIN lines : lines[j] = listeners[i - n].line
        BY <4>1 DEF SaidByLines
      <4>3. \A y : (\E j \in DOMAIN lines : lines[j] = y) => \E j \in DOMAIN lines' : lines'[j] = y
        BY <1>6
      <4> QED
        BY <4>1, <4>2, <4>3
    <3> QED
      BY <1>7, <3>1, <3>2
  <2> QED
    BY <1>5, <2>1 DEF SaidByLines
<1>13. (Selected /\ MadeInOrder /\ OnceEach)'
  BY <1>1 DEF Selected, MadeInOrder, OnceEach
<1>14. (Registered /\ Connected)'
  BY <1>1 DEF Registered, Connected, HasStarted, Key
<1> QED
  BY <1>9, <1>10, <1>11, <1>12, <1>13, <1>14
-----------------------------------------------------------------------------
(* startAll() comes to the first module that has not been started, and     *)
(* only what becomes of that changes in the list.                          *)
Starting(m, ok) ==
  /\ m \in DOMAIN modules /\ modules[m].start = "no"
  /\ \A n \in DOMAIN modules : n < m => modules[n].start # "no"
  /\ start(m) /\ logStart(m, ok) /\ DOMAIN logged' = DOMAIN loggers'
  /\ ok <=> (modules[m].kind \in IRC => registered(modules[m].kind))
  /\ modules' \in Seq(Loaded) /\ DOMAIN modules' = DOMAIN modules /\ Len(modules') = Len(modules)
  /\ \A n \in DOMAIN modules :
       /\ modules'[n].kind = modules[n].kind /\ modules'[n].masks = modules[n].masks
       /\ modules'[n].start = IF n = m THEN IF ok THEN "yes" ELSE "failed" ELSE modules[n].start

(* The least of the modules that wait is the next, whatever start() says.  *)
LEMMA StartsNext ==
  ASSUME StartupInv, startModule
  PROVE  \E m \in DOMAIN modules, ok \in BOOLEAN : Starting(m, ok)
<1> DEFINE Waiting == {m \in DOMAIN modules : modules[m].start = "no"}
           m == NextModule
           kind == modules[m].kind
           ok == kind \in IRC => registered(kind)
           result == IF ok THEN "yes" ELSE "failed"
<1>1. modules \in Seq(Loaded) /\ Len(modules) \in Nat /\ DOMAIN modules = 1..Len(modules)
  BY DEF StartupInv, StartupTypes
<1>2. Waiting \subseteq Nat /\ Waiting # {}
  BY <1>1 DEF startModule
<1>3. m \in Waiting /\ \A n \in Waiting : m <= n
  BY <1>2, MinOfNumbers DEF NextModule
<1>4. start(m) /\ logStart(m, ok) /\ modules' = [modules EXCEPT ![m].start = result]
  BY DEF startModule
<1> HIDE DEF m
<1>5. DOMAIN logged' = DOMAIN loggers'
  BY <1>4 DEF logStart, log
<1>6. \A n \in DOMAIN modules : n < m => modules[n].start # "no"
  BY <1>1, <1>3
<1>7. ok \in BOOLEAN /\ result \in {"yes", "failed"}
  OBVIOUS
<1>8. /\ modules' \in Seq(Loaded) /\ DOMAIN modules' = DOMAIN modules
      /\ Len(modules') = Len(modules)
      /\ \A n \in DOMAIN modules :
           /\ modules'[n].kind = modules[n].kind /\ modules'[n].masks = modules[n].masks
           /\ modules'[n].start = IF n = m THEN result ELSE modules[n].start
  <2> HIDE DEF ok, result
  <2>1. \A n \in DOMAIN modules : modules[n] \in Loaded
    BY <1>1
  <2>2. modules' = [n \in DOMAIN modules |->
                      IF n = m THEN [modules[m] EXCEPT !.start = result] ELSE modules[n]]
    BY <1>3, <1>4
  <2>3. [modules[m] EXCEPT !.start = result] \in Loaded
    BY <1>3, <1>7, <2>1 DEF Loaded
  <2>4. /\ [modules[m] EXCEPT !.start = result].kind = modules[m].kind
        /\ [modules[m] EXCEPT !.start = result].masks = modules[m].masks
        /\ [modules[m] EXCEPT !.start = result].start = result
    BY <1>3, <2>1 DEF Loaded
  <2>5. modules' \in Seq(Loaded) /\ DOMAIN modules' = DOMAIN modules /\ Len(modules') = Len(modules)
    BY <1>1, <2>1, <2>2, <2>3
  <2> QED
    BY <1>3, <2>2, <2>4, <2>5
<1>9. Starting(m, ok)
  BY <1>3, <1>4, <1>5, <1>6, <1>8 DEF Starting
<1> HIDE DEF ok
<1> QED
  BY <1>3, <1>7, <1>9

(* What the start of a protocol's module changes                           *)
LEMMA ProtocolStarts ==
  ASSUME NEW m, start(m), modules[m].kind \in IRC
  PROVE  /\ startProtocol(modules[m].kind)
         /\ instances' = instances \cup IF modules[m].kind = "irc2user" THEN {"ISupport"} ELSE {}
  BY DEF start, IRC, startRegistrar, startUserProtocol

(* A logger is registered and may take a descriptor.                       *)
LEMMA LoggerStarts ==
  ASSUME NEW m, start(m), modules[m].kind \notin IRC
  PROVE  /\ UNCHANGED <<references, tagMaps, protocols, instances>>
         /\ DOMAIN loggers' = DOMAIN loggers \cup {m}
         /\ \/ AnyFree /\ descriptors' = [descriptors EXCEPT ![firstFree] = "log"]
            \/ UNCHANGED descriptors
  BY DEF start, IRC, startFileLog, startSyslog, startChannelLog, registerLogger, withEntry

(* The key under which a module's protocol is, and what is then registered *)
LEMMA KeptByKey ==
  ASSUME NEW kind \in IRC, startProtocol(kind), \A k \in DOMAIN protocols : protocols[k] \in IRC,
         \A k \in DOMAIN protocols : k = Key(protocolType[protocols[k]])
  PROVE  /\ references' = references + 1
         /\ tagMaps' \subseteq tagMaps \cup {"libirc2"} \cup IRC
         /\ loggers' = loggers /\ descriptors' = descriptors
         /\ ~registered(kind) => protocols' = protocols
         /\ \A k \in DOMAIN protocols' :
              /\ protocols'[k] \in IRC /\ k = Key(protocolType[protocols'[k]])
         /\ \A other \in IRC :
              (\E k \in DOMAIN protocols' : protocols'[k] = other)
                <=> \/ other = kind /\ registered(kind)
                    \/ \E k \in DOMAIN protocols : protocols[k] = other
<1> DEFINE key == Key(protocolType[kind])
<1>1. /\ references' = references + 1
      /\ tagMaps' \subseteq tagMaps \cup {"libirc2"} \cup IRC
      /\ loggers' = loggers /\ descriptors' = descriptors
  BY DEF startProtocol, initLibrary
<1>2. CASE ~registered(kind)
  <2>1. protocols' = protocols
    BY <1>2 DEF startProtocol
  <2> QED
    BY <1>1, <1>2, <2>1
<1>3. CASE registered(kind)
  <2>1. protocols' = [k \in DOMAIN protocols \cup {key} |-> IF k = key THEN kind ELSE protocols[k]]
    BY <1>3 DEF startProtocol, withEntry
  <2>2. key \notin DOMAIN protocols
    BY <1>3 DEF registered
  <2>3. key = Key(protocolType[kind])
    OBVIOUS
  <2> HIDE DEF key
  <2>4. /\ DOMAIN protocols' = DOMAIN protocols \cup {key} /\ protocols'[key] = kind
        /\ \A k \in DOMAIN protocols : protocols'[k] = protocols[k]
    BY <2>1, <2>2
  <2> QED
    BY <1>1, <1>3, <2>3, <2>4
<1> QED
  BY <1>2, <1>3

(* A module that does not start leaves all but the list and the library's  *)
(* count as it was, one that starts registers what it has.                 *)
LEMMA StartModuleInv == StartupInv /\ startModule => StartupInv'
<1> SUFFICES ASSUME StartupInv, startModule
             PROVE  StartupInv'
  OBVIOUS
<1> USE DEF StartupInv, ModulesInv
<1>1. PICK m \in DOMAIN modules, ok \in BOOLEAN : Starting(m, ok)
  BY StartsNext
<1> DEFINE kind == modules[m].kind
<1>2. /\ phase = "startModules"
      /\ UNCHANGED <<build, listeners, phase, lines, inputSet, connection>>
  BY DEF startModule
<1>3. /\ modules \in Seq(Loaded) /\ DOMAIN modules = 1..Len(modules) /\ Len(modules) \in Nat
      /\ \A n \in DOMAIN modules : modules[n].kind \in Modules
  <2>1. modules \in Seq(Loaded)
    BY DEF StartupTypes
  <2>2. \A n \in DOMAIN modules : modules[n] \in Loaded
    BY <2>1
  <2>3. \A n \in DOMAIN modules : modules[n].kind \in Modules
    BY <2>2 DEF Loaded
  <2> QED
    BY <2>1, <2>3
<1>4. /\ modules[m].start = "no" /\ start(m) /\ DOMAIN logged' = DOMAIN loggers'
      /\ \A n \in DOMAIN modules : n < m => modules[n].start # "no"
      /\ ok <=> (kind \in IRC => registered(kind))
      /\ modules' \in Seq(Loaded) /\ DOMAIN modules' = DOMAIN modules
      /\ Len(modules') = Len(modules)
      /\ \A n \in DOMAIN modules :
           /\ modules'[n].kind = modules[n].kind
           /\ modules'[n].start = IF n = m THEN IF ok THEN "yes" ELSE "failed"
                                           ELSE modules[n].start
  BY <1>1 DEF Starting
<1>5. /\ \A k \in DOMAIN protocols : protocols[k] \in IRC
      /\ \A k \in DOMAIN protocols : k = Key(protocolType[protocols[k]])
  BY DEF StartupTypes, Registered
<1> HIDE DEF kind
<1>6. /\ references' \in {references, references + 1}
      /\ tagMaps' \subseteq tagMaps \cup {"libirc2"} \cup IRC
      /\ DOMAIN loggers' \subseteq DOMAIN loggers \cup {m}
      /\ instances \subseteq instances' /\ instances' \subseteq instances \cup {"ISupport"}
      /\ kind = "irc2user" => "ISupport" \in instances'
      /\ \A k \in DOMAIN protocols' :
           protocols'[k] \in IRC /\ (k = Key(protocolType[protocols[k]]))'
      /\ \A other \in IRC :
           (\E k \in DOMAIN protocols' : protocols'[k] = other)
             <=> \/ other = kind /\ ok
                 \/ \E k \in DOMAIN protocols : protocols[k] = other
      /\ \/ AnyFree /\ descriptors' = [descriptors EXCEPT ![firstFree] = "log"]
         \/ UNCHANGED descriptors
  <2>1. CASE kind \in IRC
    <3>1. startProtocol(kind) /\ instances' = instances \cup IF kind = "irc2user" THEN {"ISupport"} ELSE {}
      BY <1>4, <2>1, ProtocolStarts DEF kind
    <3>2. ok <=> registered(kind)
      BY <1>4, <2>1
    <3> HIDE DEF StartupInv
    <3>3. /\ references' = references + 1
          /\ tagMaps' \subseteq tagMaps \cup {"libirc2"} \cup IRC
          /\ loggers' = loggers /\ descriptors' = descriptors
          /\ \A k \in DOMAIN protocols' :
               protocols'[k] \in IRC /\ k = Key(protocolType[protocols'[k]])
          /\ \A other \in IRC :
               (\E k \in DOMAIN protocols' : protocols'[k] = other)
                 <=> \/ other = kind /\ registered(kind)
                     \/ \E k \in DOMAIN protocols : protocols[k] = other
      BY <1>5, <2>1, <3>1, KeptByKey
    <3>4. \A k \in DOMAIN protocols' :
            protocols'[k] \in IRC /\ (k = Key(protocolType[protocols[k]]))'
      BY <1>2, <3>3 DEF Key
    <3> QED
      BY <3>1, <3>2, <3>3, <3>4
  <2>2. CASE kind \notin IRC
    <3>1. /\ UNCHANGED <<references, tagMaps, protocols, instances>>
          /\ DOMAIN loggers' = DOMAIN loggers \cup {m}
          /\ \/ AnyFree /\ descriptors' = [descriptors EXCEPT ![firstFree] = "log"]
             \/ UNCHANGED descriptors
      BY <1>4, <2>2, LoggerStarts DEF kind
    <3>2. kind # "irc2user" /\ \A other \in IRC : other # kind
      BY <2>2 DEF IRC
    <3> HIDE DEF StartupInv
    <3>3. \A k \in DOMAIN protocols' :
            protocols'[k] \in IRC /\ (k = Key(protocolType[protocols[k]]))'
      BY <1>2, <1>5, <3>1 DEF Key
    <3> QED
      BY <3>1, <3>2, <3>3
  <2> QED
    BY <2>1, <2>2
<1>7. \/ UNCHANGED descriptors
      \/ /\ firstFree \in Fds /\ descriptors[firstFree] = "free"
         /\ \A f \in Fds : firstFree <= f \/ descriptors[f] # "free"
         /\ \A f \in Fds : descriptors'[f] = IF f = firstFree THEN "log" ELSE descriptors[f]
         /\ descriptors' \in [Fds -> {"free", "standard", "file", "socket", "log"}]
  BY <1>6, TakesFree DEF StartupTypes
<1>8. StartupTypes'
  <2>1. \/ descriptors' = descriptors
        \/ descriptors' \in [Fds -> {"free", "standard", "file", "socket", "log"}]
    BY <1>7
  <2> QED
    BY <1>2, <1>4, <1>6, <2>1 DEF StartupTypes
<1>9. OwnSockets'
  <2>1. \A i \in DOMAIN listeners : listeners[i].fd \in Fds
    BY ListenersAre DEF StartupTypes
  <2> QED
    BY <1>2, <1>7, <2>1 DEF OwnSockets
<1>10. Console'
  <2>1. /\ 0 \in Standard /\ Standard \subseteq Fds /\ \A f \in Standard : f \in Nat
        /\ \A f \in Fds : f <= 0 => f = 0
    BY StandardFds, ListenersAssumption DEF StandardIn, Standard, Fds
  <2>2. CASE ~build.debug /\ build.standard
    <3>1. \A f \in Standard : descriptors[f] \in {"free", "log"}
      BY <1>2, <2>2 DEF Console, Closed
    <3>2. (\E f \in Standard : descriptors[f] = "log") => descriptors[0] = "log"
      BY <1>2, <2>2 DEF Console, Closed
    <3>3. \A f \in Standard : descriptors'[f] \in {"free", "log"}
      BY <1>7, <2>1, <3>1
    <3>4. (\E f \in Standard : descriptors'[f] = "log") => descriptors'[0] = "log"
      BY <1>7, <2>1, <3>1, <3>2
    <3> QED
      BY <1>2, <2>2, <3>3, <3>4 DEF Console, Closed
  <2>3. CASE build.debug
    BY <1>2, <1>7, <2>1, <2>3 DEF Console
  <2>4. CASE ~build.standard
    BY <1>2, <2>4 DEF Console
  <2> QED
    BY <2>2, <2>3, <2>4
<1>11. (Selected /\ SaidByLines)'
  BY <1>2 DEF Selected, SaidByLines
<1>12. MadeInOrder'
  <2>1. ASSUME NEW n \in DOMAIN modules', modules'[n].kind = "irc2user"
        PROVE  "Commands" \in instances' /\ (modules'[n].start = "yes" => "ISupport" \in instances')
    BY <1>4, <1>6, <2>1 DEF MadeInOrder, kind
  <2> QED
    BY <1>2, <1>6, <2>1 DEF MadeInOrder
<1>13. OnceEach'
  <2>1. \A a, b \in DOMAIN modules' :
          modules'[a].kind \in IRC /\ modules'[a].kind = modules'[b].kind => a = b
    BY <1>4 DEF OnceEach
  <2>2. references < m /\ m <= Len(modules) /\ references \in Nat /\ m \in Nat
    BY <1>3, <1>4 DEF OnceEach, StartupTypes
  <2>3. references' <= m
    BY <1>6, <2>2
  <2>4. references' \in Nat
    BY <1>6, <2>2
  <2>5. ASSUME NEW n \in DOMAIN modules', modules'[n].start = "no"
        PROVE  references' < n
    <3>1. n \in DOMAIN modules /\ n # m /\ modules[n].start = "no"
      BY <1>4, <2>5
    <3>2. n \in Nat /\ ~(n < m)
      BY <1>3, <1>4, <3>1
    <3> QED
      BY <2>2, <2>3, <2>4, <3>1, <3>2
  <2> QED
    BY <1>3, <1>4, <2>1, <2>2, <2>3, <2>4, <2>5 DEF OnceEach
<1>14. Registered'
  <2>1. \A other \in IRC : HasStarted(other)' <=> HasStarted(other) \/ (other = kind /\ ok)
    <3> TAKE other \in IRC
    <3>1. HasStarted(other) => HasStarted(other)'
      BY <1>4 DEF HasStarted
    <3>2. other = kind /\ ok => HasStarted(other)'
      BY <1>4 DEF HasStarted, kind
    <3>3. HasStarted(other)' => HasStarted(other) \/ (other = kind /\ ok)
      <4> SUFFICES ASSUME NEW n \in DOMAIN modules', modules'[n].kind = other,
                          modules'[n].start = "yes"
                   PROVE  HasStarted(other) \/ (other = kind /\ ok)
        BY DEF HasStarted
      <4> QED
        BY <1>4 DEF HasStarted, kind
    <3> QED
      BY <3>1, <3>2, <3>3
  <2>2. \A other \in IRC :
          HasStarted(other)' <=> \E k \in DOMAIN protocols' : protocols'[k] = other
    BY <1>6, <2>1 DEF Registered
  <2>3. ASSUME build.byType
        PROVE  ok
    <3> SUFFICES ASSUME kind \in IRC, ~registered(kind)
                 PROVE  FALSE
      BY <1>4
    <3>1. protocolType[kind] \in DOMAIN protocols
      BY <2>3 DEF registered, Key
    <3>2. PICK p \in IRC : p = protocols[protocolType[kind]] /\ protocolType[kind] = protocolType[p]
      BY <1>5, <2>3, <3>1 DEF Key
    <3>3. p = kind
      BY <3>2 DEF IRC, protocolType
    <3>4. HasStarted(kind)
      BY <3>1, <3>2, <3>3 DEF Registered
    <3> QED
      BY <1>4, <3>4 DEF HasStarted, OnceEach, kind
  <2>4. (build.byType => \A n \in DOMAIN modules : modules[n].start # "failed")'
    BY <1>2, <1>4, <2>3 DEF Registered
  <2>5. \A k \in DOMAIN protocols' : (k = Key(protocolType[protocols[k]]))'
    BY <1>6
  <2> QED
    BY <2>2, <2>4, <2>5 DEF Registered
<1>15. Connected'
  BY <1>2 DEF Connected
<1> QED
  BY <1>8, <1>9, <1>10, <1>11, <1>12, <1>13, <1>14, <1>15
-----------------------------------------------------------------------------
(* startAll() of the listeners, and the set that select() is given: of the *)
(* listeners at a place the first that has a socket listens.               *)
LEMMA StartListenersInv == StartupInv /\ startListeners => StartupInv'
<1> SUFFICES ASSUME StartupInv, startListeners
             PROVE  StartupInv'
  OBVIOUS
<1> DEFINE HasSocket(i) == descriptors[listeners[i].fd] = "socket"
           FirstThere(i) == \A j \in 1..(i - 1) : HasSocket(j) => listeners[j].place # listeners[i].place
           n == Len(listeners)
<1> USE DEF StartupInv, ModulesInv
<1>1. /\ phase = "startListeners" /\ phase' = "running"
      /\ listeners' = [i \in DOMAIN listeners |->
           [listeners[i] EXCEPT !.listening = HasSocket(i) /\ FirstThere(i)]]
      /\ inputSet' = {listeners[i].fd : i \in DOMAIN listeners} \cup {0}
      /\ UNCHANGED <<build, descriptors, lines, modules, references, tagMaps, protocols, loggers,
                     logged, instances, connection>>
  BY DEF startListeners, moduleVars, listenAll
<1>2. listeners \in Seq(Sockets) /\ n \in Nat /\ DOMAIN listeners = 1..n
  BY DEF StartupTypes
<1>3. \A i \in 1..n : listeners[i] \in Sockets
  BY <1>2
<1>4. ASSUME NEW i \in 1..n
      PROVE  /\ listeners'[i] \in Sockets
             /\ listeners'[i].fd = listeners[i].fd /\ listeners'[i].place = listeners[i].place
             /\ listeners'[i].line = listeners[i].line /\ listeners'[i].flags = listeners[i].flags
             /\ listeners'[i].listening <=> HasSocket(i) /\ FirstThere(i)
  <2> DEFINE yes == HasSocket(i) /\ FirstThere(i)
  <2>1. listeners'[i] = [listeners[i] EXCEPT !.listening = yes]
    BY <1>1, <1>2
  <2>2. yes \in BOOLEAN
    OBVIOUS
  <2>3. listeners[i] \in Sockets
    BY <1>3
  <2> HIDE DEF yes
  <2>4. /\ listeners'[i] \in Sockets
        /\ listeners'[i].fd = listeners[i].fd /\ listeners'[i].place = listeners[i].place
        /\ listeners'[i].line = listeners[i].line /\ listeners'[i].flags = listeners[i].flags
        /\ listeners'[i].listening = yes
    BY <2>1, <2>2, <2>3 DEF Sockets
  <2> QED
    BY <2>4 DEF yes
<1>5. listeners' \in Seq(Sockets) /\ DOMAIN listeners' = 1..n
  <2>1. DOMAIN listeners' = 1..n /\ listeners' = [i \in 1..n |-> listeners'[i]]
    BY <1>1, <1>2
  <2> QED
    BY <1>2, <1>4, <2>1, SequenceOf
<1>6. StartupTypes'
  <2>1. \A i \in 1..n : listeners[i].fd \in Fds
    BY <1>2, ListenersAre
  <2>2. inputSet' \subseteq Fds
    BY <1>1, <1>2, <2>1, StandardFds DEF StandardIn, Standard
  <2> QED
    BY <1>1, <1>5, <2>2 DEF StartupTypes, Ends
<1>7. OwnSockets'
  <2>1. \A i \in 1..n : listeners'[i].fd = listeners[i].fd
    BY <1>4
  <2>2. UNCHANGED <<build, descriptors>> /\ phase' \in Closed /\ phase' # "main" /\ phase \in Closed
    BY <1>1 DEF Closed
  <2> QED
    BY <1>2, <1>5, <2>1, <2>2 DEF OwnSockets
<1>8. Console'
  BY <1>1 DEF Console, Closed
<1>9. Selected'
  <2>1. inputSet' = {listeners'[i].fd : i \in DOMAIN listeners'} \cup {0}
    BY <1>1, <1>2, <1>4, <1>5
  <2>2. ASSUME build.standard, NEW i \in 1..n
        PROVE  \E j \in 1..n : listeners'[j].listening /\ listeners'[j].place = listeners'[i].place
    <3> DEFINE Same == {j \in 1..n : listeners[j].place = listeners[i].place}
    <3>1. Same \subseteq Nat /\ i \in Same
      BY <1>2
    <3> HIDE DEF Same
    <3>2. PICK j \in Same : \A o \in Same : j <= o
      BY <3>1, LeastElement
    <3>3. j \in 1..n /\ listeners[j].place = listeners[i].place
      BY <3>2 DEF Same
    <3>4. FirstThere(j)
      <4> SUFFICES ASSUME NEW o \in 1..(j - 1), listeners[o].place = listeners[j].place
                   PROVE  FALSE
        OBVIOUS
      <4>1. o \in 1..n /\ ~(j <= o)
        BY <1>2, <3>3
      <4>2. o \in Same
        BY <3>3, <4>1 DEF Same
      <4> QED
        BY <3>2, <4>1, <4>2
    <3>5. HasSocket(j)
      BY <1>1, <1>2, <2>2, <3>3 DEF OwnSockets
    <3> QED
      BY <1>4, <3>3, <3>4, <3>5
  <2>3. build' = build
    BY <1>1
  <2> QED
    BY <1>5, <2>1, <2>2, <2>3 DEF Selected
<1>10. SaidByLines'
  <2>1. ASSUME NEW i \in 1..n
        PROVE  /\ listeners'[i].flags = flags(listeners'[i].line)
               /\ \E k \in DOMAIN lines' : lines'[k] = listeners'[i].line
    <3>1. listeners'[i].line = listeners[i].line /\ listeners'[i].flags = listeners[i].flags
      BY <1>4
    <3>2. lines' = lines
      BY <1>1
    <3> QED
      BY <1>2, <3>1, <3>2 DEF SaidByLines
  <2> QED
    BY <1>5, <2>1 DEF SaidByLines
<1>11. MadeInOrder'
  BY <1>1 DEF MadeInOrder, Served, Networked, Initialised, Closed
<1>12. OnceEach'
  BY <1>1 DEF OnceEach
<1>13. Registered'
  BY <1>1 DEF Registered, HasStarted, Key
<1>14. Connected'
  BY <1>1 DEF Connected
<1> QED
  BY <1>6, <1>7, <1>8, <1>9, <1>10, <1>11, <1>12, <1>13, <1>14

(* Daemon::findProtocol() finds the protocol of a type if its module has   *)
(* started, and it is the only one that could be under its key.            *)
LEMMA FindsProtocol ==
  ASSUME Registered, NEW kind \in IRC
  PROVE  /\ findProtocol(protocolType[kind]) = kind => HasStarted(kind)
         /\ HasStarted(kind) => findProtocol(protocolType[kind]) = kind
<1>1. \A k \in DOMAIN protocols : k = Key(protocolType[protocols[k]])
  BY DEF Registered
<1>2. HasStarted(kind) => \E k \in DOMAIN protocols : protocols[k] = kind
  BY DEF Registered
<1>3. (\E k \in DOMAIN protocols : protocols[k] = kind) => HasStarted(kind)
  BY DEF Registered
<1>4. kind # "none"
  BY DEF IRC
<1> QED
  BY <1>1, <1>2, <1>3, <1>4 DEF findProtocol

(* The first connection comes by a listener; what becomes of it is decided *)
(* by what the modules have registered, and by who may come that way.      *)
LEMMA ConnectionInv ==
  StartupInv /\ (firstConnection \/ parseUSER \/ handOver) => StartupInv'
<1> SUFFICES ASSUME StartupInv, firstConnection \/ parseUSER \/ handOver
             PROVE  StartupInv'
  OBVIOUS
<1> USE DEF StartupInv, ModulesInv
<1>1. UNCHANGED <<build, descriptors, listeners, phase, lines, modules, references, tagMaps,
                  protocols, loggers, logged, inputSet, instances>>
  BY DEF firstConnection, parseUSER, handOver, moduleVars
<1>2. connection \in Links
  BY DEF StartupTypes
<1>3. protocolType["irc2registrar"] = "PRIMARY" /\ protocolType["irc2user"] = "USER"
  BY DEF protocolType
<1>4. connection' \in Links /\ Connected'
  <2>1. CASE firstConnection
    <3> DEFINE found == findProtocol("PRIMARY") = "irc2registrar"
               state == IF found THEN "registering" ELSE "crashed"
    <3>1. /\ phase = "running"
          /\ \E i \in DOMAIN listeners :
               connection' = [state |-> state, allowed |-> listeners[i].flags]
      BY <2>1 DEF firstConnection
    <3>2. PICK i \in DOMAIN listeners :
            connection' = [state |-> state, allowed |-> listeners[i].flags]
      BY <3>1
    <3>3. listeners[i].flags \in SUBSET Flags
      BY ListenersAre DEF StartupTypes
    <3>4. found <=> HasStarted("irc2registrar")
      BY <1>3, FindsProtocol DEF IRC
    <3> HIDE DEF found
    <3>5. connection' \in Links
      BY <3>2, <3>3 DEF Links
    <3>6. /\ connection'.state = state /\ connection'.allowed = listeners[i].flags
          /\ \/ state = "registering" /\ found
             \/ state = "crashed" /\ ~found
      BY <3>2
    <3>7. HasStarted("irc2registrar")' <=> HasStarted("irc2registrar")
      BY <1>1 DEF HasStarted
    <3> HIDE DEF state
    <3> QED
      BY <1>1, <3>1, <3>4, <3>5, <3>6, <3>7 DEF Connected
  <2>2. CASE parseUSER
    <3> DEFINE state == IF "ALLOWUSERS" \in connection.allowed THEN "complete" ELSE "disallowed"
    <3>1. connection.state = "registering" /\ connection' = [connection EXCEPT !.state = state]
      BY <2>2 DEF parseUSER
    <3>2. \/ state = "complete" /\ "ALLOWUSERS" \in connection.allowed
          \/ state = "disallowed"
      OBVIOUS
    <3> HIDE DEF state
    <3>3. /\ connection' \in Links /\ connection'.state = state
          /\ connection'.allowed = connection.allowed
      <4>1. state \in {"none", "registering", "disallowed", "complete", "user", "refused", "crashed"}
        BY <3>2
      <4> QED
        BY <1>2, <3>1, <4>1 DEF Links
    <3> QED
      BY <1>1, <3>1, <3>2, <3>3 DEF Connected, HasStarted
  <2>3. CASE handOver
    <3> DEFINE found == findProtocol("USER") = "irc2user"
               made == {"Commands", "ISupport", "Languages", "Daemon", "Registry", "MyNetwork",
                        "MyServer"} \subseteq instances
               state == IF ~found THEN "refused" ELSE IF made THEN "user" ELSE "crashed"
    <3>1. connection.state = "complete" /\ connection' = [connection EXCEPT !.state = state]
      BY <2>3 DEF handOver
    <3>2. found <=> HasStarted("irc2user")
      BY <1>3, FindsProtocol DEF IRC
    <3>3. phase = "running"
      BY <3>1 DEF Connected
    <3>4. HasStarted("irc2user") => made
      BY <3>3 DEF HasStarted, MadeInOrder, Served, Networked, Initialised, Closed
    <3> HIDE DEF found, made
    <3>5. state \in {"refused", "user"} /\ (state = "user" <=> HasStarted("irc2user"))
      BY <3>2, <3>4
    <3> HIDE DEF state
    <3>6. /\ connection' \in Links /\ connection'.state = state
          /\ connection'.allowed = connection.allowed
      <4>1. state \in {"none", "registering", "disallowed", "complete", "user", "refused", "crashed"}
        BY <3>5
      <4> QED
        BY <1>2, <3>1, <4>1 DEF Links
    <3> QED
      BY <1>1, <3>1, <3>5, <3>6 DEF Connected, HasStarted
  <2> QED
    BY <2>1, <2>2, <2>3
<1>5. StartupTypes'
  BY <1>1, <1>4 DEF StartupTypes
<1>6. (OwnSockets /\ Console /\ Selected /\ SaidByLines)'
  BY <1>1 DEF OwnSockets, Console, Selected, SaidByLines
<1>7. (MadeInOrder /\ OnceEach)'
  BY <1>1 DEF MadeInOrder, OnceEach
<1>8. Registered'
  BY <1>1 DEF Registered, HasStarted, Key
<1> QED
  BY <1>4, <1>5, <1>6, <1>7, <1>8

(* Every step keeps the invariant, so it always holds.                     *)
LEMMA StartupInvNext == StartupInv /\ [StartupNext]_startupVars => StartupInv'
<1> SUFFICES ASSUME StartupInv, [StartupNext]_startupVars
             PROVE  StartupInv'
  OBVIOUS
<1>1. CASE Progress
  BY <1>1, ConfigureInv, MainInv, CloseStandardInv, StartModuleInv, StartListenersInv DEF Progress
<1>2. CASE \E l \in ModuleLines : classHandleModule(l)
  BY <1>2, ClassHandleModuleInv
<1>3. CASE \E l \in ListenLines : LISTEN(l)
  BY <1>3, ListenInv
<1>4. CASE configurationFails \/ configurationCrashes
  BY <1>4, MainInv
<1>5. CASE firstConnection \/ parseUSER \/ handOver
  BY <1>5, ConnectionInv
<1>6. CASE UNCHANGED startupVars
  <2> USE <1>6 DEF StartupInv, startupVars, moduleVars
  <2>1. StartupTypes'
    BY DEF StartupTypes
  <2>2. (OwnSockets /\ Console /\ Selected /\ SaidByLines)'
    BY DEF OwnSockets, Console, Selected, SaidByLines
  <2>3. (MadeInOrder /\ ModulesInv /\ Connected)'
    BY DEF MadeInOrder, ModulesInv, OnceEach, Registered, Connected, HasStarted, Key
  <2> QED
    BY <2>1, <2>2, <2>3
<1> QED
  BY <1>1, <1>2, <1>3, <1>4, <1>5, <1>6 DEF StartupNext

LEMMA StartupInvariant == StartupSpec => []StartupInv
BY StartupInvInit, StartupInvNext, PTL DEF StartupSpec
-----------------------------------------------------------------------------
(* Whatever the configuration and the build, the containers of the launcher*)
(* and the daemon hold what they are for: no two listeners are made on one *)
(* descriptor, the library counts no more modules than there are, and      *)
(* every key leads to a protocol.                                          *)
THEOREM StartupIsTyped == StartupSpec => []StartupTypeOK
<1>1. StartupInv => StartupTypeOK
  <2> SUFFICES ASSUME StartupInv
               PROVE  StartupTypeOK
    OBVIOUS
  <2> USE DEF StartupInv, StartupTypes
  <2>1. ListenersTypeOK
    <3>1. \A i \in DOMAIN listeners : listeners[i].fd \in Fds
      BY ListenersAre
    <3> QED
      BY <3>1 DEF ListenersTypeOK, OwnSockets
  <2>2. \A m \in DOMAIN modules : /\ modules[m].kind \in DOMAIN getInfo
                                  /\ modules[m].start \in {"no", "yes", "failed"}
    <3>1. \A m \in DOMAIN modules : modules[m] \in Loaded
      OBVIOUS
    <3>2. DOMAIN getInfo = Modules
      BY DEF getInfo, Modules, IRC
    <3> QED
      BY <3>1, <3>2 DEF Loaded
  <2>3. references \in 0..Len(modules)
    <3>1. Len(modules) \in Nat /\ references \in Nat /\ references <= Len(modules)
      BY DEF ModulesInv, OnceEach
    <3> QED
      BY <3>1
  <2>4. /\ connection.state \in {"none", "registering", "disallowed", "complete", "user", "refused",
                                 "crashed"}
        /\ connection.allowed \subseteq Flags
    BY DEF Links
  <2> QED
    BY <2>1, <2>2, <2>3, <2>4 DEF StartupTypeOK
<1> QED
  BY <1>1, StartupInvariant, PTL

(* The daemon never follows the null pointer of a protocol it does not find*)
(* where the registrar has started, and a connection becomes a user only   *)
(* by a listener for users and with both protocols: for every              *)
(* configuration, and whichever way the keys of the protocols are compared.*)
THEOREM ProtocolsAreFound == StartupSpec => []ConnectionsFindTheirProtocols
<1>1. StartupInv => ConnectionsFindTheirProtocols
  <2> SUFFICES ASSUME StartupInv
               PROVE  ConnectionsFindTheirProtocols
    OBVIOUS
  <2> USE DEF StartupInv
  <2>1. connection.state = "crashed" => ~HasStarted("irc2registrar")
    BY DEF Connected
  <2>2. ASSUME connection.state = "user"
        PROVE  /\ HasStarted("irc2registrar") /\ HasStarted("irc2user")
               /\ \E i \in DOMAIN lines :
                    lines[i] \in ListenLines /\ "ALLOWUSERS" \in flags(lines[i])
    <3>1. PICK i \in DOMAIN listeners : connection.allowed = listeners[i].flags
      BY <2>2 DEF Connected
    <3>2. listeners[i].line \in ListenLines
      BY ListenersAre DEF StartupTypes
    <3>3. PICK k \in DOMAIN lines : lines[k] = listeners[i].line
      BY DEF SaidByLines
    <3>4. "ALLOWUSERS" \in flags(lines[k])
      BY <2>2, <3>1, <3>3 DEF Connected, SaidByLines
    <3> QED
      BY <2>2, <3>2, <3>3, <3>4 DEF Connected
  <2>3. build.byType => \A m \in DOMAIN modules : modules[m].start # "failed"
    BY DEF ModulesInv, Registered
  <2>4. connection.state = "refused" => ~HasStarted("irc2user")
    BY DEF Connected
  <2> QED
    BY <2>1, <2>2, <2>3, <2>4 DEF ConnectionsFindTheirProtocols, HasStarted
<1> QED
  BY <1>1, StartupInvariant, PTL

(* In a process that was given descriptors 0 to 2, select() is asked about *)
(* open sockets only, besides descriptor 0, and fails just when the        *)
(* launcher has closed that and no logger has taken one of the three since:*)
(* for every configuration and any number of descriptors.                  *)
THEOREM OnlyClosedConsoleFails == StartupSpec => []OnlyTheConsoleFails
<1>1. StartupInv => OnlyTheConsoleFails
  <2> SUFFICES ASSUME StartupInv, phase = "running", build.standard
               PROVE  /\ \A f \in inputSet \ {0} :
                           /\ descriptors[f] = "socket"
                           /\ \E i, j \in DOMAIN listeners :
                                /\ listeners[i].fd = f
                                /\ listeners[j].listening
                                /\ listeners[j].place = listeners[i].place
                      /\ selectWorks <=> \/ build.debug
                                         \/ \E f \in Standard : descriptors[f] = "log"
    BY DEF OnlyTheConsoleFails
  <2> USE DEF StartupInv
  <2>1. inputSet = {listeners[i].fd : i \in DOMAIN listeners} \cup {0}
    BY DEF Selected
  <2>2. \A i \in DOMAIN listeners : descriptors[listeners[i].fd] = "socket"
    BY DEF OwnSockets
  <2>3. \A i \in DOMAIN listeners : \E j \in DOMAIN listeners :
          listeners[j].listening /\ listeners[j].place = listeners[i].place
    BY DEF Selected
  <2>4. \A f \in inputSet \ {0} :
          /\ descriptors[f] = "socket"
          /\ \E i, j \in DOMAIN listeners :
               /\ listeners[i].fd = f
               /\ listeners[j].listening /\ listeners[j].place = listeners[i].place
    BY <2>1, <2>2, <2>3
  <2>5. selectWorks <=> descriptors[0] # "free"
    BY <2>1, <2>2 DEF selectWorks
  <2>6. descriptors[0] # "free" <=> build.debug \/ \E f \in Standard : descriptors[f] = "log"
    BY StandardFds DEF Console, Closed, StandardIn
  <2> QED
    BY <2>4, <2>5, <2>6
<1> QED
  BY <1>1, StartupInvariant, PTL
-----------------------------------------------------------------------------
(* The words of a LOGMASK, one after the other                             *)
Masks == SUBSET Everything
MaskStep == [p \in Masks \X Words |-> withWord(p[1], p[2])]

LEMMA MaskTyped ==
  ASSUME NEW mask \in Masks, NEW w \in Words
  PROVE  withWord(mask, w) \in Masks /\ MaskStep[<<mask, w>>] = withWord(mask, w)
  BY DEF Masks, withWord, MaskStep

(* What a word does to one of the masks' names                             *)
LEMMA WordSpeaks ==
  ASSUME NEW mask \in Masks, NEW w \in Words, NEW bit \in Everything
  PROVE  bit \in withWord(mask, w)
           <=> IF w.word \in {bit, "ALL", "EVERYTHING"} THEN w.prefix # "-" ELSE bit \in mask
<1> DEFINE bits == IF w.word \in {"EVERYTHING", "ALL"} THEN Everything
                   ELSE Everything \cap {w.word}
<1>1. withWord(mask, w) = IF w.prefix = "-" THEN mask \ bits ELSE mask \cup bits
  BY DEF withWord
<1>2. bit \in bits <=> w.word \in {bit, "ALL", "EVERYTHING"}
  OBVIOUS
<1> HIDE DEF bits
<1> QED
  BY <1>1, <1>2

LEMMA MaskLoops ==
  ASSUME NEW words \in Seq(Words), words # <<>>
  PROVE  \E f \in [0..Len(words) -> Masks] :
           /\ f[0] = {} /\ \A i \in 1..Len(words) : f[i] = withWord(f[i - 1], words[i])
           /\ maskOf(words) = f[Len(words)]
<1> DEFINE n == Len(words)
           Round(f, i) == IF i = 0 THEN {} ELSE withWord(f[i - 1], words[i])
           After(f) == f = [i \in 0..n |-> Round(f, i)]
           after == CHOOSE f : After(f)
<1>0. n \in Nat /\ \A i \in 1..n : words[i] \in Words
  OBVIOUS
<1>1. {} \in Masks /\ MaskStep \in [Masks \X Words -> Masks]
  <2>1. {} \in Masks
    BY DEF Masks
  <2>2. \A p \in Masks \X Words : withWord(p[1], p[2]) \in Masks
    BY MaskTyped
  <2> QED
    BY <2>1, <2>2 DEF MaskStep
<1>2. \E f : After(f)
  <2>1. PICK f \in [0..n -> Masks] : Looping(f, {}, MaskStep, words)
    BY <1>1, LoopsRun
  <2>2. f = [i \in 0..n |-> IF i = 0 THEN {} ELSE MaskStep[<<f[i - 1], words[i]>>]]
    BY <2>1 DEF Looping
  <2>3. \A i \in 0..n :
          (IF i = 0 THEN {} ELSE MaskStep[<<f[i - 1], words[i]>>]) = Round(f, i)
    <3> SUFFICES ASSUME NEW i \in 0..n, i # 0
                 PROVE  MaskStep[<<f[i - 1], words[i]>>] = withWord(f[i - 1], words[i])
      OBVIOUS
    <3>1. f[i - 1] \in Masks /\ words[i] \in Words
      BY <1>0, <2>1
    <3> QED
      BY <3>1, MaskTyped
  <2> HIDE DEF Round
  <2>4. After(f)
    BY <2>2, <2>3
  <2> HIDE DEF After
  <2> QED
    BY <2>4
<1>3. After(after)
  BY <1>2
<1>4. maskOf(words) = after[n]
  BY DEF maskOf
<1> HIDE DEF after
<1>5. after = [i \in 0..n |-> Round(after, i)]
  BY <1>3
<1> HIDE DEF Round
<1>6. \A i \in 0..n : after[i] = Round(after, i)
  BY <1>5
<1>7. after[0] = {} /\ \A i \in 1..n : after[i] = withWord(after[i - 1], words[i])
  <2>1. 0 \in 0..n /\ \A i \in 1..n : i \in 0..n /\ i # 0
    BY <1>0
  <2> QED
    BY <1>6, <2>1 DEF Round
<1>8. \A i \in 0..n : after[i] \in Masks
  <2> DEFINE Typed == {i \in 0..n : after[i] \in Masks}
  <2>1. 0 \in Typed
    <3>1. after[0] \in Masks /\ 0 \in 0..n
      BY <1>0, <1>1, <1>7
    <3> QED
      BY <3>1
  <2>2. ASSUME NEW i \in 1..n, i - 1 \in Typed
        PROVE  i \in Typed
    <3>1. after[i - 1] \in Masks /\ words[i] \in Words /\ i \in 0..n
      BY <1>0, <2>2
    <3>2. after[i] \in Masks
      BY <1>7, <3>1, MaskTyped
    <3> QED
      BY <3>1, <3>2
  <2> HIDE DEF Typed
  <2>3. 0..n \subseteq Typed
    BY <1>0, <2>1, <2>2, RoundByRound
  <2> QED
    BY <2>3 DEF Typed
<1>9. after \in [0..n -> Masks]
  BY <1>5, <1>8
<1> QED
  BY <1>4, <1>7, <1>9

(* The last word that speaks of a mask decides.                            *)
LEMMA MaskIs ==
  ASSUME NEW masks \in Seq(Seq(Words)), NEW bit \in Everything
  PROVE  bit \in logMask(masks) <=> Takes(masks, bit)
<1>1. CASE masks = <<>>
  BY <1>1 DEF logMask, Takes
<1>2. CASE masks # <<>>
  <2> DEFINE words == Last(masks)
             n == Len(words)
             Speaking == {i \in DOMAIN words : words[i].word \in {bit, "ALL", "EVERYTHING"}}
             Spoken(i) == {k \in Speaking : k <= i}
             Decided(i) == Spoken(i) # {} /\ words[Max(Spoken(i))].prefix # "-"
  <2>1. words \in Seq(Words)
    <3> DEFINE Y == Seq(Words)
    <3>1. masks \in Seq(Y)
      OBVIOUS
    <3> HIDE DEF Y
    <3>2. Last(masks) \in Y
      BY <1>2, <3>1, FrontAndLast
    <3> QED
      BY <3>2 DEF Y
  <2>2. /\ logMask(masks) = maskOf(words)
        /\ Takes(masks, bit)
             <=> words = <<>> \/ (Speaking # {} /\ words[Max(Speaking)].prefix # "-")
    BY <1>2 DEF logMask, Takes
  <2> HIDE DEF words
  <2>3. CASE words = <<>>
    BY <2>2, <2>3 DEF maskOf
  <2>4. CASE words # <<>>
    <3>0. /\ n \in Nat /\ DOMAIN words = 1..n /\ \A i \in 1..n : words[i] \in Words
          /\ Speaking \subseteq 1..n
      BY <2>1
    <3>1. PICK f \in [0..n -> Masks] :
            /\ f[0] = {} /\ \A i \in 1..n : f[i] = withWord(f[i - 1], words[i])
            /\ maskOf(words) = f[n]
      BY <2>1, <2>4, MaskLoops
    <3> DEFINE Holds(i) == bit \in f[i] <=> Decided(i)
               Rounds == {i \in 0..n : Holds(i)}
    <3> HIDE DEF n
    <3>2. 0 \in Rounds
      <4>1. Spoken(0) = {}
        BY <3>0
      <4>2. Holds(0)
        BY <3>1, <4>1
      <4> HIDE DEF Holds
      <4> QED
        BY <3>0, <4>2
    <3>3. ASSUME NEW i \in 1..n, i - 1 \in Rounds
          PROVE  i \in Rounds
      <4>1. /\ i - 1 \in 0..n /\ i \in 0..n /\ f[i - 1] \in Masks /\ words[i] \in Words
            /\ f[i] = withWord(f[i - 1], words[i]) /\ Holds(i - 1)
        <5>1. i - 1 \in 0..n /\ i \in 0..n
          BY <3>0
        <5>2. Holds(i - 1)
          <6> HIDE DEF Holds
          <6> QED
            BY <3>3
        <5> HIDE DEF Holds
        <5> QED
          BY <3>0, <3>1, <5>1, <5>2
      <4>2. bit \in f[i] <=> IF i \in Speaking THEN words[i].prefix # "-" ELSE bit \in f[i - 1]
        BY <3>0, <4>1, WordSpeaks
      <4>3. CASE i \in Speaking
        <5>1. i \in Spoken(i) /\ Spoken(i) \subseteq Int /\ \A y \in Spoken(i) : y <= i
          BY <3>0, <4>3
        <5> HIDE DEF Spoken
        <5>2. Max(Spoken(i)) = i
          BY <5>1, MaxIs
        <5> QED
          BY <4>2, <4>3, <5>1, <5>2
      <4>4. CASE i \notin Speaking
        <5>1. Spoken(i) = Spoken(i - 1)
          BY <3>0, <4>4
        <5> HIDE DEF Spoken
        <5> QED
          BY <4>1, <4>2, <4>4, <5>1
      <4>5. Holds(i)
        BY <4>3, <4>4
      <4> HIDE DEF Holds
      <4> QED
        BY <4>1, <4>5
    <3> HIDE DEF Rounds
    <3>4. n \in Rounds
      <4>1. 0..n \subseteq Rounds
        BY <3>0, <3>2, <3>3, RoundByRound
      <4> QED
        BY <3>0, <4>1
    <3>5. Spoken(n) = Speaking
      BY <3>0
    <3>6. Holds(n)
      BY <3>4 DEF Rounds
    <3> HIDE DEF Spoken, Speaking
    <3> QED
      BY <2>2, <2>4, <3>1, <3>5, <3>6
  <2> QED
    BY <2>3, <2>4
<1> QED
  BY <1>1, <1>2
-----------------------------------------------------------------------------
(* What loggers are told, and what of it is about the modules from l on    *)
Told == {"Started", "Unable to start"} \X Nat
Row(l) == [i \in 1..(Len(modules) - l + 1) |-> ToldOf(l, l + i - 1)]

(* The inductive invariant of the logs, besides the one of the way to the  *)
(* main loop: modules wait in their order, and a logger is that of a module*)
(* that does not wait.                                                     *)
LogsInv ==
  /\ phase \notin Closed => DOMAIN loggers = {}
  /\ \A m, n \in DOMAIN modules : m < n /\ modules[m].start = "no" => modules[n].start = "no"
  /\ \A l \in DOMAIN loggers :
       /\ loggers[l] \in BOOLEAN /\ modules[l].start # "no"
       /\ logged[l] = IF loggers[l] THEN FlattenSeq(Row(l)) ELSE <<>>

LEMMA LogsInvInit == StartupInit => LogsInv
<1>1. ASSUME StartupInit
      PROVE  DOMAIN loggers = {} /\ modules = <<>>
  BY <1>1 DEF StartupInit, DaemonInit
<1> QED
  BY <1>1 DEF LogsInv

(* What does not touch the modules does not touch their logs.              *)
LEMMA QuietLogs ==
  ASSUME LogsInv, UNCHANGED <<modules, loggers, logged>>, phase \in Closed => phase' \in Closed
  PROVE  LogsInv'
<1>1. \A l : Row(l)' = Row(l)
  BY DEF Row, ToldOf
<1>2. (phase \notin Closed => DOMAIN loggers = {})'
  BY DEF LogsInv
<1>3. \A l \in DOMAIN loggers :
        /\ loggers[l] \in BOOLEAN /\ modules[l].start # "no"
        /\ logged[l] = IF loggers[l] THEN FlattenSeq(Row(l)') ELSE <<>>
  BY <1>1 DEF LogsInv
<1> QED
  BY <1>2, <1>3 DEF LogsInv

(* What is loaded waits behind the others, and nothing is logged yet.      *)
LEMMA LoadedLogs ==
  ASSUME StartupInv, LogsInv, NEW l \in ModuleLines, classHandleModule(l)
  PROVE  LogsInv'
<1> DEFINE n == Len(modules)
           x == [kind |-> l.module, masks |-> l.masks, start |-> "no"]
<1>1. /\ phase' = "configuring" /\ phase = "configuring"
      /\ modules' = Append(modules, x) /\ loggers' = loggers
  BY DEF classHandleModule, loadModule
<1>2. DOMAIN loggers' = {}
  BY <1>1 DEF LogsInv, Closed
<1>3. modules \in Seq(Loaded) /\ n \in Nat
  BY DEF StartupInv, StartupTypes
<1>4. x.start = "no"
  OBVIOUS
<1> HIDE DEF x
<1>5. DOMAIN modules' = 1..(n + 1) /\ modules'[n + 1] = x /\ \A i \in 1..n : modules'[i] = modules[i]
  BY <1>1, <1>3
<1>6. ASSUME NEW i \in 1..(n + 1), NEW j \in 1..(n + 1), i < j, modules'[i].start = "no"
      PROVE  modules'[j].start = "no"
  <2>1. i \in 1..n /\ (j = n + 1 \/ j \in 1..n)
    BY <1>3, <1>6
  <2> QED
    BY <1>3, <1>4, <1>5, <1>6, <2>1 DEF LogsInv
<1> QED
  BY <1>2, <1>5, <1>6 DEF LogsInv

(* What a logger is told of a module                                       *)
LEMMA ToldIs ==
  ASSUME NEW l, NEW n \in Nat
  PROVE  /\ modules[n].start = "no" => ToldOf(l, n) = <<>>
         /\ ToldOf(l, n) \in Seq(Told)
<1> DEFINE started == modules[n].start = "yes"
           mask == IF started THEN "HOUSEKEEPING" ELSE "WARNING"
           message == <<IF started THEN "Started" ELSE "Unable to start", n>>
           takes == modules[n].start # "no" /\ Takes(modules[l].masks, mask)
<1>1. ToldOf(l, n) = IF takes THEN <<message>> ELSE <<>>
  BY DEF ToldOf
<1>2. message \in Told
  BY DEF Told
<1>3. takes => modules[n].start # "no"
  OBVIOUS
<1> HIDE DEF takes, message
<1>4. \A X : \A x \in X : <<x>> \in Seq(X) /\ <<>> \in Seq(X)
  OBVIOUS
<1>5. <<message>> \in Seq(Told) /\ <<>> \in Seq(Told)
  BY <1>2, <1>4
<1> QED
  BY <1>1, <1>3, <1>5

(* What a logger is told of the modules grows by what the one that starts  *)
(* gives.                                                                  *)
LEMMA RowsGrow ==
  ASSUME StartupInv, LogsInv, NEW m, NEW ok \in BOOLEAN, Starting(m, ok), NEW l \in 1..m
  PROVE  /\ FlattenSeq(Row(l)) \in Seq(Told)
         /\ FlattenSeq(Row(l))' = FlattenSeq(Row(l)) \o ToldOf(l, m)'
         /\ l = m => FlattenSeq(Row(l)) = <<>>
<1> DEFINE n == Len(modules)
           k == m - l + 1
           ss == Row(l)
           tt == Row(l)'
           len == n - l + 1
<1>1. /\ n \in Nat /\ DOMAIN modules = 1..n /\ m \in 1..n /\ l \in Nat /\ modules[m].start = "no"
      /\ Len(modules') = n
      /\ \A i \in 1..n : /\ modules'[i].masks = modules[i].masks
                         /\ i # m => modules'[i].start = modules[i].start
                         /\ i >= m => modules[i].start = "no"
  <2>1. modules \in Seq(Loaded)
    BY DEF StartupInv, StartupTypes
  <2>2. n \in Nat /\ DOMAIN modules = 1..n
    BY <2>1
  <2>3. \A i \in 1..n : i > m => modules[i].start = "no"
    BY <2>2 DEF LogsInv, Starting
  <2> QED
    BY <2>2, <2>3 DEF Starting
<1>2. len \in Nat /\ k \in 1..len /\ l + k - 1 = m
      /\ \A i \in 1..len : /\ l + i - 1 \in 1..n /\ l + i - 1 \in Nat
                           /\ i # k => l + i - 1 # m
                           /\ i \in k..len => l + i - 1 >= m
  BY <1>1
<1>3. ss = [i \in 1..len |-> ToldOf(l, l + i - 1)] /\ tt = [i \in 1..len |-> ToldOf(l, l + i - 1)']
  BY <1>1 DEF Row
<1> HIDE DEF ss, tt, k, len
<1>4. \A i \in 1..len :
        /\ ss[i] \in Seq(Told) /\ tt[i] \in Seq(Told)
        /\ i # k => tt[i] = ss[i]
        /\ i \in k..len => ss[i] = <<>>
  <2> SUFFICES ASSUME NEW i \in 1..len
               PROVE  /\ ss[i] \in Seq(Told) /\ tt[i] \in Seq(Told)
                      /\ i # k => tt[i] = ss[i]
                      /\ i \in k..len => ss[i] = <<>>
    OBVIOUS
  <2> DEFINE j == l + i - 1
  <2>1. j \in Nat /\ j \in 1..n /\ (i # k => j # m) /\ (i \in k..len => j >= m)
    BY <1>2
  <2>2. ss[i] = ToldOf(l, j) /\ tt[i] = ToldOf(l, j)'
    BY <1>3
  <2> HIDE DEF j
  <2>3. ToldOf(l, j) \in Seq(Told) /\ (i \in k..len => ToldOf(l, j) = <<>>)
    BY <1>1, <2>1, ToldIs
  <2>4. i # k => ToldOf(l, j)' = ToldOf(l, j)
    <3>1. l \in 1..n
      BY <1>1
    <3> QED
      BY <1>1, <2>1, <3>1 DEF ToldOf
  <2>5. ToldOf(l, j)' \in Seq(Told)
    <3> DEFINE started == modules'[j].start = "yes"
               message == <<IF started THEN "Started" ELSE "Unable to start", j>>
    <3>1. ToldOf(l, j)' \in {<<message>>, <<>>}
      BY DEF ToldOf
    <3>2. message \in Told
      BY <2>1 DEF Told
    <3> HIDE DEF message
    <3>3. \A X : \A x \in X : <<x>> \in Seq(X) /\ <<>> \in Seq(X)
      OBVIOUS
    <3>4. <<message>> \in Seq(Told) /\ <<>> \in Seq(Told)
      BY <3>2, <3>3
    <3> QED
      BY <3>1, <3>4
  <2> QED
    BY <2>2, <2>3, <2>4, <2>5
<1>5. ss \in Seq(Seq(Told)) /\ tt \in Seq(Seq(Told)) /\ Len(ss) = len /\ Len(tt) = len
  <2> DEFINE Y == Seq(Told)
  <2>1. \A i \in 1..len : ss[i] \in Y /\ tt[i] \in Y
    BY <1>4
  <2> HIDE DEF Y
  <2>2. ss = [i \in 1..len |-> ss[i]] /\ tt = [i \in 1..len |-> tt[i]]
    BY <1>3
  <2>3. ss \in Seq(Y) /\ tt \in Seq(Y)
    BY <1>2, <2>1, <2>2, SequenceOf
  <2>4. Len(ss) = len /\ Len(tt) = len
    BY <1>2, <1>3
  <2> QED
    BY <2>3, <2>4 DEF Y
<1>6. FlattenSeq(ss) \in Seq(Told)
  BY <1>5, FlattenOver
<1>7. FlattenSeq(tt) = FlattenSeq(ss) \o tt[k]
  <2>1. Len(tt) = Len(ss) /\ k \in 1..Len(ss)
    BY <1>2, <1>5
  <2>2. \A i \in 1..Len(ss) : i # k => tt[i] = ss[i]
    BY <1>4, <1>5
  <2>3. \A i \in k..Len(ss) : ss[i] = <<>>
    BY <1>2, <1>4, <1>5
  <2> QED
    BY <1>5, <2>1, <2>2, <2>3, FlattenFilled
<1>8. tt[k] = ToldOf(l, m)'
  BY <1>2, <1>3
<1>9. l = m => FlattenSeq(ss) = <<>>
  <2> SUFFICES ASSUME l = m
               PROVE  FlattenSeq(ss) = <<>>
    OBVIOUS
  <2>1. k = 1
    BY <1>1 DEF k
  <2>2. \A i \in 1..Len(ss) : ss[i] = <<>>
    BY <1>4, <1>5, <2>1
  <2> QED
    BY <1>5, <2>2, FlattenNothing
<1>10. FlattenSeq(Row(l))' = FlattenSeq(tt)
  BY DEF tt
<1> QED
  BY <1>6, <1>7, <1>8, <1>9, <1>10 DEF ss

(* The logger of a module that starts comes to the others.                 *)
LEMMA LoggersGrow ==
  ASSUME NEW m, start(m), m \notin DOMAIN loggers
  PROVE  /\ DOMAIN loggers \subseteq DOMAIN loggers'
         /\ \A l \in DOMAIN loggers' :
              IF l = m THEN loggers'[m] \in BOOLEAN
              ELSE l \in DOMAIN loggers /\ loggers'[l] = loggers[l]
<1>1. CASE UNCHANGED loggers
  BY <1>1
<1>2. CASE \E b \in BOOLEAN : registerLogger(m, b)
  <2>1. PICK b \in BOOLEAN : registerLogger(m, b)
    BY <1>2
  <2>2. loggers' = [l \in DOMAIN loggers \cup {m} |-> IF l = m THEN b ELSE loggers[l]]
    BY <2>1 DEF registerLogger, withEntry
  <2> QED
    BY <2>2
<1>3. UNCHANGED loggers \/ \E b \in BOOLEAN : registerLogger(m, b)
  BY DEF start, startRegistrar, startUserProtocol, startProtocol, startFileLog, startSyslog,
         startChannelLog
<1> QED
  BY <1>1, <1>2, <1>3

(* A logger takes what its LOGMASK lets it be told.                        *)
LEMMA TakesTold ==
  ASSUME StartupInv, NEW m, NEW ok \in BOOLEAN, Starting(m, ok), NEW l \in DOMAIN modules
  PROVE  ToldOf(l, m)' =
           IF (IF ok THEN "HOUSEKEEPING" ELSE "WARNING") \in logMask(modules[l].masks)
           THEN << <<IF ok THEN "Started" ELSE "Unable to start", m>> >> ELSE <<>>
<1> DEFINE bit == IF ok THEN "HOUSEKEEPING" ELSE "WARNING"
<1>1. /\ modules'[m].start = IF ok THEN "yes" ELSE "failed"
      /\ modules'[l].masks = modules[l].masks
  BY DEF Starting
<1>2. bit \in Everything
  BY LoggingAssumption DEF Everything
<1>3. modules[l].masks \in Seq(Seq(Words))
  <2>1. modules[l] \in Loaded
    BY DEF StartupInv, StartupTypes
  <2>2. PICK line \in ModuleLines : modules[l].masks = line.masks
    BY <2>1 DEF Loaded
  <2> QED
    BY <2>2, StartupAssumption
<1> HIDE DEF bit
<1>4. bit \in logMask(modules[l].masks) <=> Takes(modules[l].masks, bit)
  BY <1>2, <1>3, MaskIs
<1>5. ToldOf(l, m)' = IF Takes(modules'[l].masks, bit)
                      THEN << <<IF ok THEN "Started" ELSE "Unable to start", m>> >> ELSE <<>>
  BY <1>1 DEF ToldOf, bit
<1> QED
  BY <1>1, <1>4, <1>5 DEF bit

(* That a module has started is put behind what each logger that can write *)
(* has been told before.                                                   *)
LEMMA StartedLogs == StartupInv /\ LogsInv /\ startModule => LogsInv'
<1> SUFFICES ASSUME StartupInv, LogsInv, startModule
             PROVE  LogsInv'
  OBVIOUS
<1>1. PICK m \in DOMAIN modules, ok \in BOOLEAN : Starting(m, ok)
  BY StartsNext
<1> DEFINE n == Len(modules)
           bit == IF ok THEN "HOUSEKEEPING" ELSE "WARNING"
           message == <<IF ok THEN "Started" ELSE "Unable to start", m>>
           before(l) == IF l \in DOMAIN logged THEN logged[l] ELSE <<>>
           takes(l) == bit \in logMask(modules[l].masks)
<1>2. /\ n \in Nat /\ DOMAIN modules = 1..n /\ m \in 1..n
      /\ DOMAIN loggers \subseteq 1..n /\ DOMAIN logged = DOMAIN loggers
  <2>1. modules \in Seq(Loaded)
    BY DEF StartupInv, StartupTypes
  <2> QED
    BY <1>1, <2>1 DEF StartupInv, StartupTypes
<1>3. /\ modules[m].start = "no" /\ start(m) /\ logStart(m, ok) /\ DOMAIN modules' = 1..n
      /\ \A i \in 1..n : i < m => modules[i].start # "no"
      /\ \A i \in 1..n : modules'[i].start = IF i = m THEN IF ok THEN "yes" ELSE "failed"
                                                      ELSE modules[i].start
  BY <1>1, <1>2 DEF Starting
<1>4. m \notin DOMAIN loggers
  BY <1>3 DEF LogsInv
<1>5. /\ DOMAIN loggers \subseteq DOMAIN loggers'
      /\ \A l \in DOMAIN loggers' :
           IF l = m THEN loggers'[m] \in BOOLEAN
           ELSE l \in DOMAIN loggers /\ loggers'[l] = loggers[l]
  BY <1>3, <1>4, LoggersGrow
<1>6. phase \in Closed /\ phase' \in Closed
  BY DEF startModule, Closed
<1>7. ASSUME NEW i \in 1..n, NEW j \in 1..n, i < j, modules'[i].start = "no"
      PROVE  modules'[j].start = "no"
  <2>1. i # m /\ modules[i].start = "no"
    BY <1>3, <1>7
  <2>2. ~(i < m)
    BY <1>3, <2>1
  <2>3. j # m /\ modules[j].start = "no"
    BY <1>2, <1>7, <2>1, <2>2 DEF LogsInv
  <2> QED
    BY <1>3, <2>3
<1>8. ASSUME NEW l \in DOMAIN loggers'
      PROVE  l \in 1..m /\ loggers'[l] \in BOOLEAN /\ modules'[l].start # "no"
  <2>1. CASE l = m
    BY <1>2, <1>3, <1>5, <2>1
  <2>2. CASE l # m
    <3>1. l \in DOMAIN loggers /\ l \in 1..n /\ loggers'[l] = loggers[l]
      BY <1>2, <1>5, <1>8, <2>2
    <3>2. modules[l].start # "no" /\ loggers[l] \in BOOLEAN
      BY <3>1 DEF LogsInv
    <3>3. ~(m < l)
      BY <1>2, <1>3, <3>1, <3>2 DEF LogsInv
    <3> QED
      BY <1>2, <1>3, <2>2, <3>1, <3>2, <3>3
  <2> QED
    BY <2>1, <2>2
<1>9. ASSUME NEW l \in DOMAIN loggers'
      PROVE  logged'[l] = IF loggers'[l] /\ takes(l) THEN Append(before(l), message) ELSE before(l)
  <2>1. l \in 1..n
    BY <1>2, <1>8, <1>9
  <2>2. [i \in DOMAIN modules |-> modules[i].masks][l] = modules[l].masks
    BY <1>2, <2>1
  <2> DEFINE masks == [i \in DOMAIN modules |-> modules[i].masks]
  <2>3. log(message, bit, masks)
    BY <1>3 DEF logStart
  <2> HIDE DEF masks, message, bit
  <2> QED
    BY <1>9, <2>2, <2>3 DEF log, masks
<1>10. ASSUME NEW l \in DOMAIN loggers'
       PROVE  logged'[l] = IF loggers'[l] THEN FlattenSeq(Row(l))' ELSE <<>>
  <2>1. l \in 1..m /\ l \in 1..n
    BY <1>2, <1>8, <1>10
  <2>2. /\ FlattenSeq(Row(l)) \in Seq(Told)
        /\ FlattenSeq(Row(l))' = FlattenSeq(Row(l)) \o ToldOf(l, m)'
        /\ l = m => FlattenSeq(Row(l)) = <<>>
    BY <1>1, <2>1, RowsGrow
  <2>3. ToldOf(l, m)' = IF takes(l) THEN <<message>> ELSE <<>>
    BY <1>1, <1>2, <2>1, TakesTold
  <2>4. before(l) = IF l = m \/ ~loggers'[l] THEN <<>> ELSE FlattenSeq(Row(l))
    <3>1. CASE l = m
      BY <1>2, <1>4, <3>1
    <3>2. CASE l # m
      BY <1>2, <1>5, <1>10, <3>2 DEF LogsInv
    <3> QED
      BY <3>1, <3>2
  <2> DEFINE flat == FlattenSeq(Row(l))
  <2>5. message \in Told
    <3>1. m \in Nat
      BY <1>2
    <3> QED
      BY <3>1 DEF Told
  <2>6. flat \o <<message>> = Append(flat, message) /\ flat \o <<>> = flat
    <3> HIDE DEF flat, message
    <3>1. \A X : \A s \in Seq(X) : \A x \in X : s \o <<x>> = Append(s, x) /\ s \o <<>> = s
      OBVIOUS
    <3>2. flat \in Seq(Told)
      BY <2>2 DEF flat
    <3> QED
      BY <2>5, <3>1, <3>2
  <2> HIDE DEF message, takes, before
  <2>7. CASE ~loggers'[l]
    BY <1>9, <1>10, <2>4, <2>7
  <2>8. CASE loggers'[l]
    <3>1. before(l) = flat
      BY <2>2, <2>4, <2>8
    <3> HIDE DEF flat
    <3>2. FlattenSeq(Row(l))' = flat \o ToldOf(l, m)'
      BY <2>2 DEF flat
    <3> QED
      BY <1>9, <1>10, <2>3, <2>6, <2>8, <3>1, <3>2
  <2> QED
    BY <2>7, <2>8
<1>11. \A l : FlattenSeq(Row(l))' = FlattenSeq(Row(l)')
  OBVIOUS
<1> HIDE DEF n, takes, before, message, bit
<1> QED
  BY <1>3, <1>6, <1>7, <1>8, <1>10, <1>11 DEF LogsInv

(* Every step keeps the invariant of the logs, too.                        *)
LEMMA LogsInvNext == StartupInv /\ LogsInv /\ [StartupNext]_startupVars => LogsInv'
<1> SUFFICES ASSUME StartupInv, LogsInv, [StartupNext]_startupVars
             PROVE  LogsInv'
  OBVIOUS
<1>1. CASE startModule
  BY <1>1, StartedLogs
<1>2. CASE \E l \in ModuleLines : classHandleModule(l)
  BY <1>2, LoadedLogs
<1>3. CASE UNCHANGED moduleVars /\ (phase \in Closed => phase' \in Closed)
  BY <1>3, QuietLogs DEF moduleVars
<1>4. \/ startModule \/ (\E l \in ModuleLines : classHandleModule(l))
      \/ UNCHANGED moduleVars /\ (phase \in Closed => phase' \in Closed)
  <2>1. CASE Progress /\ ~startModule
    BY <2>1 DEF Progress, initLibtoolFails, configure, initDaemon, initNetwork, initServer,
                background, Use, closeStandard, modulesStarted, startListeners, Closed
  <2>2. CASE \E l \in ListenLines : LISTEN(l)
    BY <2>2 DEF LISTEN
  <2>3. CASE configurationFails \/ configurationCrashes
    BY <2>3 DEF configurationFails, configurationCrashes, Closed
  <2>4. CASE firstConnection \/ parseUSER \/ handOver
    BY <2>4 DEF firstConnection, parseUSER, handOver
  <2>5. CASE UNCHANGED startupVars
    BY <2>5 DEF startupVars
  <2> QED
    BY <2>1, <2>2, <2>3, <2>4, <2>5 DEF StartupNext
<1> QED
  BY <1>1, <1>2, <1>3, <1>4

LEMMA LogsInvariant == StartupSpec => []LogsInv
BY LogsInvInit, LogsInvNext, StartupInvariant, PTL DEF StartupSpec
-----------------------------------------------------------------------------
(* Nothing in a sequence is a message.                                     *)
IsSilent(s) == \E Y : s \in Seq(Y) /\ \A y \in Y : y.kind # "message"

LEMMA SilentTogether ==
  ASSUME NEW a, NEW b, IsSilent(a), IsSilent(b)
  PROVE  IsSilent(a \o b)
<1>1. PICK A : a \in Seq(A) /\ \A y \in A : y.kind # "message"
  BY DEF IsSilent
<1>2. PICK B : b \in Seq(B) /\ \A y \in B : y.kind # "message"
  BY DEF IsSilent
<1> DEFINE Y == A \cup B
<1>3. a \in Seq(Y) /\ b \in Seq(Y)
  <2>1. \A X : A \subseteq X => a \in Seq(X)
    BY <1>1
  <2>2. \A X : B \subseteq X => b \in Seq(X)
    BY <1>2
  <2> QED
    BY <2>1, <2>2
<1>4. \A y \in Y : y.kind # "message"
  BY <1>1, <1>2
<1> HIDE DEF Y
<1>5. a \o b \in Seq(Y)
  BY <1>3
<1> QED
  BY <1>4, <1>5 DEF IsSilent

LEMMA FewAreSilent ==
  ASSUME NEW a, NEW b, NEW c, a.kind # "message", b.kind # "message", c.kind # "message"
  PROVE  IsSilent(<<>>) /\ IsSilent(<<a>>) /\ IsSilent(<<a, b>>) /\ IsSilent(<<a, b, c>>)
<1> DEFINE Y == {a, b, c}
<1>1. a \in Y /\ b \in Y /\ c \in Y /\ \A y \in Y : y.kind # "message"
  OBVIOUS
<1> HIDE DEF Y
<1>2. <<>> \in Seq(Y) /\ <<a>> \in Seq(Y) /\ <<a, b>> \in Seq(Y) /\ <<a, b, c>> \in Seq(Y)
  BY <1>1
<1> QED
  BY <1>1, <1>2 DEF IsSilent

(* The time of day is no message.                                          *)
LEMMA TimesAreSilent ==
  ASSUME NEW hours, NEW t
  PROVE  IsSilent(hoursAndMinutes(hours, t)) /\ IsSilent(hoursToSeconds(hours, t))
<1>1. \A x : Zeros(2, x).kind # "message" /\ Text(x).kind # "message"
  BY DEF Zeros, Text
<1>4. IsSilent(hoursAndMinutes(hours, t))
  BY <1>1, FewAreSilent DEF hoursAndMinutes
<1>5. IsSilent(<<Text(":"), Zeros(2, t.sec)>>)
  BY <1>1, FewAreSilent
<1> QED
  BY <1>4, <1>5, SilentTogether DEF hoursToSeconds

(* What a character stands for is a message if it is a dollar sign.        *)
LEMMA FieldIs ==
  ASSUME NEW c, NEW message, NEW mapper, NEW t
  PROVE  IF c = "$" THEN Field(c, message, mapper, t) = <<Message(message)>>
         ELSE IsSilent(Field(c, message, mapper, t))
<1> DEFINE field == Field(c, message, mapper, t)
<1>1. c = "$" => field = <<Message(message)>>
  BY DEF Field
<1>2. \A x : Zeros(2, x).kind # "message" /\ Zeros(3, x).kind # "message"
             /\ Blanks(2, x).kind # "message" /\ Plain(x).kind # "message"
             /\ Text(x).kind # "message"
  BY DEF Zeros, Blanks, Plain, Text
<1>3. \A x : /\ IsSilent(<<Zeros(2, x)>>) /\ IsSilent(<<Zeros(3, x)>>)
             /\ IsSilent(<<Blanks(2, x)>>) /\ IsSilent(<<Plain(x)>>) /\ IsSilent(<<Text(x)>>)
  BY <1>2, FewAreSilent
<1>4. IsSilent(<<>>) /\ \A x : IsSilent(<<Text(" "), Text(x)>>)
  BY <1>2, FewAreSilent
<1> DEFINE Known == {"$", "!", "#", "@", "%", "n", "t", "C", "d", "e", "H", "I", "j", "k", "l", "m",
                     "M", "p", "P", "r", "R", "s", "S", "T", "u", "w", "y", "Y"}
<1>5. ASSUME c \in Known \ {"$"}
      PROVE  IsSilent(field)
  <2>1. CASE c = "!"
    <3>1. field = <<Text(mapper)>>
      BY <2>1 DEF Field
    <3> HIDE DEF field
    <3> QED
      BY <1>3, <3>1
  <2>2. CASE c = "#"
    <3>1. field = <<Text(mapper)>>
      BY <2>2 DEF Field
    <3> HIDE DEF field
    <3> QED
      BY <1>3, <3>1
  <2>3. CASE c = "@"
    <3>1. field = <<Text(mapper)>>
      BY <2>3 DEF Field
    <3> HIDE DEF field
    <3> QED
      BY <1>3, <3>1
  <2>4. CASE c = "%"
    <3>1. field = <<Text(c)>>
      BY <2>4 DEF Field
    <3> HIDE DEF field
    <3> QED
      BY <1>3, <3>1
  <2>5. CASE c = "n"
    <3>1. field = <<Text(c)>>
      BY <2>5 DEF Field
    <3> HIDE DEF field
    <3> QED
      BY <1>3, <3>1
  <2>6. CASE c = "t"
    <3>1. field = <<Text(c)>>
      BY <2>6 DEF Field
    <3> HIDE DEF field
    <3> QED
      BY <1>3, <3>1
  <2>7. CASE c = "C"
    <3> DEFINE x == (t.year + 1900) \div 100
    <3>1. field = <<Plain(x)>>
      BY <2>7 DEF Field
    <3> HIDE DEF field, x
    <3> QED
      BY <1>3, <3>1
  <2>8. CASE c = "d"
    <3>1. field = <<Zeros(2, t.mday)>>
      BY <2>8 DEF Field
    <3> HIDE DEF field
    <3> QED
      BY <1>3, <3>1
  <2>9. CASE c = "e"
    <3>1. field = <<Blanks(2, t.mday)>>
      BY <2>9 DEF Field
    <3> HIDE DEF field
    <3> QED
      BY <1>3, <3>1
  <2>10. CASE c = "H"
    <3>1. field = <<Zeros(2, t.hour)>>
      BY <2>10 DEF Field
    <3> HIDE DEF field
    <3> QED
      BY <1>3, <3>1
  <2>11. CASE c = "I"
    <3>1. field = <<Zeros(2, hour12(t.hour))>>
      BY <2>11 DEF Field
    <3> HIDE DEF field
    <3> QED
      BY <1>3, <3>1
  <2>12. CASE c = "j"
    <3>1. field = <<Zeros(3, t.yday)>>
      BY <2>12 DEF Field
    <3> HIDE DEF field
    <3> QED
      BY <1>3, <3>1
  <2>13. CASE c = "k"
    <3>1. field = <<Blanks(2, t.hour)>>
      BY <2>13 DEF Field
    <3> HIDE DEF field
    <3> QED
      BY <1>3, <3>1
  <2>14. CASE c = "l"
    <3>1. field = <<Blanks(2, hour12(t.hour))>>
      BY <2>14 DEF Field
    <3> HIDE DEF field
    <3> QED
      BY <1>3, <3>1
  <2>15. CASE c = "m"
    <3>1. field = <<Zeros(2, t.mon + 1)>>
      BY <2>15 DEF Field
    <3> HIDE DEF field
    <3> QED
      BY <1>3, <3>1
  <2>16. CASE c = "M"
    <3>1. field = <<Zeros(2, t.min)>>
      BY <2>16 DEF Field
    <3> HIDE DEF field
    <3> QED
      BY <1>3, <3>1
  <2>17. CASE c = "p"
    <3>1. field = <<Text(Half(t.hour))>>
      BY <2>17 DEF Field
    <3> HIDE DEF field
    <3> QED
      BY <1>3, <3>1
  <2>18. CASE c = "P"
    <3>1. field = <<Text(Half(t.hour))>>
      BY <2>18 DEF Field
    <3> HIDE DEF field
    <3> QED
      BY <1>3, <3>1
  <2>19. CASE c = "s"
    <3>1. field = <<Plain(t.seconds)>>
      BY <2>19 DEF Field
    <3> HIDE DEF field
    <3> QED
      BY <1>3, <3>1
  <2>20. CASE c = "S"
    <3>1. field = <<Zeros(2, t.sec)>>
      BY <2>20 DEF Field
    <3> HIDE DEF field
    <3> QED
      BY <1>3, <3>1
  <2>21. CASE c = "u"
    <3>1. field = <<Plain(t.wday + 1)>>
      BY <2>21 DEF Field
    <3> HIDE DEF field
    <3> QED
      BY <1>3, <3>1
  <2>22. CASE c = "w"
    <3>1. field = <<Plain(t.wday)>>
      BY <2>22 DEF Field
    <3> HIDE DEF field
    <3> QED
      BY <1>3, <3>1
  <2>23. CASE c = "y"
    <3>1. field = <<Zeros(2, t.year % 100)>>
      BY <2>23 DEF Field
    <3> HIDE DEF field
    <3> QED
      BY <1>3, <3>1
  <2>24. CASE c = "Y"
    <3> DEFINE x == t.year + 1900
    <3>1. field = <<Plain(x)>>
      BY <2>24 DEF Field
    <3> HIDE DEF field, x
    <3> QED
      BY <1>3, <3>1
  <2>25. CASE c = "r"
    <3>1. field = twelveHours(t)
      BY <2>25 DEF Field
    <3> HIDE DEF field
    <3> QED
      BY <1>4, <3>1, TimesAreSilent, SilentTogether DEF twelveHours
  <2>26. CASE c = "R"
    <3>1. field = hoursAndMinutes(t.hour, t)
      BY <2>26 DEF Field
    <3> HIDE DEF field
    <3> QED
      BY <3>1, TimesAreSilent
  <2>27. CASE c = "T"
    <3>1. field = hoursToSeconds(t.hour, t)
      BY <2>27 DEF Field
    <3> HIDE DEF field
    <3> QED
      BY <3>1, TimesAreSilent
  <2> HIDE DEF field
  <2> QED
    BY <1>5, <2>1, <2>2, <2>3, <2>4, <2>5, <2>6, <2>7, <2>8, <2>9, <2>10, <2>11, <2>12, <2>13,
       <2>14, <2>15, <2>16, <2>17, <2>18, <2>19, <2>20, <2>21, <2>22, <2>23, <2>24, <2>25,
       <2>26, <2>27
<1>6. c \notin Known => field = <<>>
  BY DEF Field
<1> HIDE DEF field, Known
<1> QED
  BY <1>1, <1>4, <1>5, <1>6 DEF field
-----------------------------------------------------------------------------
(* What a field is of the messages in a file, when those are over M        *)
Part(x) == IF x.kind = "message" THEN <<x.of>> ELSE <<>>
Parts(s) == [i \in DOMAIN s |-> Part(s[i])]
Bears(X, M) == \A x \in X : x.kind = "message" => x.of \in M

LEMMA PartsAre ==
  ASSUME NEW X, NEW M, Bears(X, M), NEW s \in Seq(X)
  PROVE  /\ MessagesIn(s) = FlattenSeq(Parts(s)) /\ MessagesIn(s) \in Seq(M)
         /\ Parts(s) \in Seq(Seq(M)) /\ Len(Parts(s)) = Len(s)
         /\ \A i \in 1..Len(s) : Parts(s)[i] = Part(s[i])
<1> DEFINE n == Len(s)
           Y == Seq(M)
           parts == Parts(s)
<1>1. n \in Nat /\ DOMAIN s = 1..n /\ \A i \in 1..n : s[i] \in X
  OBVIOUS
<1>2. \A x \in X : Part(x) \in Y
  <2> SUFFICES ASSUME NEW x \in X
               PROVE  Part(x) \in Seq(M)
    OBVIOUS
  <2>1. CASE x.kind = "message"
    <3> DEFINE m == x.of
    <3>1. m \in M
      BY <2>1 DEF Bears
    <3> HIDE DEF m
    <3>2. <<m>> \in Seq(M)
      BY <3>1
    <3> QED
      BY <2>1, <3>2 DEF Part, m
  <2>2. CASE x.kind # "message"
    BY <2>2 DEF Part
  <2> QED
    BY <2>1, <2>2
<1>3. parts = [i \in 1..n |-> Part(s[i])]
  BY <1>1 DEF Parts
<1>4. MessagesIn(s) = FlattenSeq(parts)
  BY DEF MessagesIn, Parts, Part
<1> HIDE DEF parts, Y, n
<1>5. \A i \in 1..n : parts[i] = Part(s[i]) /\ parts[i] \in Y
  BY <1>1, <1>2, <1>3
<1>6. parts = [i \in 1..n |-> parts[i]]
  BY <1>3
<1>7. parts \in Seq(Y) /\ Len(parts) = n
  <2>1. parts \in Seq(Y)
    BY <1>1, <1>5, <1>6, SequenceOf
  <2> QED
    BY <1>1, <1>6, <2>1
<1>8. parts \in Seq(Seq(M))
  BY <1>7 DEF Y
<1>9. FlattenSeq(parts) \in Seq(M)
  BY <1>8, FlattenOver
<1> QED
  BY <1>4, <1>5, <1>7, <1>8, <1>9 DEF parts, n

(* The messages of what is put behind come behind.                         *)
LEMMA MessagesOfConcat ==
  ASSUME NEW X, NEW M, Bears(X, M), NEW a \in Seq(X), NEW b \in Seq(X)
  PROVE  MessagesIn(a \o b) = MessagesIn(a) \o MessagesIn(b)
<1> DEFINE ab == a \o b
           Y == Seq(M)
           pa == Parts(a)
           pb == Parts(b)
           pab == Parts(ab)
           n == Len(a)
           k == Len(b)
<1>1. ab \in Seq(X) /\ n \in Nat /\ k \in Nat /\ Len(ab) = n + k
      /\ \A i \in 1..(n + k) : ab[i] = IF i <= n THEN a[i] ELSE b[i - n]
  OBVIOUS
<1>2. /\ MessagesIn(a) = FlattenSeq(pa) /\ pa \in Seq(Seq(M)) /\ Len(pa) = n
      /\ \A i \in 1..n : pa[i] = Part(a[i])
  BY PartsAre
<1>3. /\ MessagesIn(b) = FlattenSeq(pb) /\ pb \in Seq(Seq(M)) /\ Len(pb) = k
      /\ \A i \in 1..k : pb[i] = Part(b[i])
  BY PartsAre
<1> HIDE DEF ab
<1>4. /\ MessagesIn(ab) = FlattenSeq(pab) /\ pab \in Seq(Seq(M)) /\ Len(pab) = n + k
      /\ \A i \in 1..(n + k) : pab[i] = Part(ab[i])
  BY <1>1, PartsAre
<1> HIDE DEF pa, pb, pab, n, k
<1>5. pab = pa \o pb
  <2>1. pa \in Seq(Y) /\ pb \in Seq(Y) /\ pab \in Seq(Y)
    BY <1>2, <1>3, <1>4
  <2> HIDE DEF Y
  <2>2. /\ pa \o pb \in Seq(Y) /\ Len(pa \o pb) = n + k
        /\ \A i \in 1..(n + k) : (pa \o pb)[i] = IF i <= n THEN pa[i] ELSE pb[i - n]
    <3>1. Len(pa) = n /\ Len(pb) = k
      BY <1>2, <1>3
    <3>2. /\ pa \o pb \in Seq(Y) /\ Len(pa \o pb) = Len(pa) + Len(pb)
          /\ \A i \in 1..(Len(pa) + Len(pb)) :
               (pa \o pb)[i] = IF i <= Len(pa) THEN pa[i] ELSE pb[i - Len(pa)]
      BY <2>1, ConcatProperties
    <3> QED
      BY <3>1, <3>2
  <2>3. \A i \in 1..(n + k) : pab[i] = (pa \o pb)[i]
    <3> SUFFICES ASSUME NEW i \in 1..(n + k)
                 PROVE  pab[i] = (pa \o pb)[i]
      OBVIOUS
    <3>1. CASE i <= n
      <4>1. i \in 1..n
        BY <1>1, <3>1
      <4> QED
        BY <1>1, <1>2, <1>4, <2>2, <3>1, <4>1
    <3>2. CASE ~(i <= n)
      <4>1. i - n \in 1..k
        BY <1>1, <3>2
      <4> QED
        BY <1>1, <1>3, <1>4, <2>2, <3>2, <4>1
    <3> QED
      BY <3>1, <3>2
  <2> DEFINE c == pa \o pb
  <2> HIDE DEF c
  <2>4. c \in Seq(Y) /\ Len(c) = n + k /\ \A i \in 1..(n + k) : pab[i] = c[i]
    BY <2>2, <2>3 DEF c
  <2>5. pab = c
    BY <1>4, <2>1, <2>4, SeqEqual
  <2> QED
    BY <2>5 DEF c
<1>6. FlattenSeq(pa \o pb) = FlattenSeq(pa) \o FlattenSeq(pb)
  BY <1>2, <1>3, FlattenOfConcat
<1> QED
  BY <1>2, <1>3, <1>4, <1>5, <1>6 DEF ab

LEMMA SilentHasNone ==
  ASSUME NEW s, IsSilent(s)
  PROVE  MessagesIn(s) = <<>>
<1>1. PICK Y : s \in Seq(Y) /\ \A y \in Y : y.kind # "message"
  BY DEF IsSilent
<1>2. Bears(Y, {})
  BY <1>1 DEF Bears
<1>3. MessagesIn(s) \in Seq({})
  BY <1>1, <1>2, PartsAre
<1> QED
  BY <1>3

LEMMA NothingHasNone == MessagesIn(<<>>) = <<>>
<1>1. Text("").kind # "message"
  BY DEF Text
<1>2. IsSilent(<<>>)
  BY <1>1, FewAreSilent
<1> QED
  BY <1>2, SilentHasNone

LEMMA MessageIsOne ==
  ASSUME NEW m
  PROVE  MessagesIn(<<Message(m)>>) = <<m>>
<1> DEFINE x == Message(m)
<1>1. x.kind = "message" /\ x.of = m
  BY DEF Message
<1> HIDE DEF x
<1> DEFINE s == <<x>>
           parts == Parts(s)
<1>2. s \in Seq({x}) /\ Bears({x}, {m}) /\ Len(s) = 1 /\ s[1] = x
  BY <1>1 DEF Bears
<1> HIDE DEF s
<1>3. /\ MessagesIn(s) = FlattenSeq(parts) /\ parts \in Seq(Seq({m})) /\ Len(parts) = 1
      /\ parts[1] = Part(x)
  <2>1. /\ MessagesIn(s) = FlattenSeq(parts) /\ parts \in Seq(Seq({m})) /\ Len(parts) = Len(s)
        /\ \A i \in 1..Len(s) : parts[i] = Part(s[i])
    BY <1>2, PartsAre
  <2> HIDE DEF parts
  <2> QED
    BY <1>2, <2>1
<1>4. parts[1] = <<m>>
  BY <1>1, <1>3 DEF Part
<1> HIDE DEF parts
<1>5. parts = Append(<<>>, <<m>>)
  <2> DEFINE Y == Seq({m})
             y == <<m>>
  <2>1. y \in Y /\ parts \in Seq(Y) /\ parts[1] = y
    BY <1>3, <1>4
  <2> HIDE DEF Y, y
  <2>2. Append(<<>>, y) \in Seq(Y) /\ Len(Append(<<>>, y)) = 1 /\ Append(<<>>, y)[1] = y
    BY <2>1
  <2>3. parts = Append(<<>>, y)
    BY <1>3, <2>1, <2>2, SeqEqual
  <2> QED
    BY <2>3 DEF y
<1>6. FlattenSeq(Append(<<>>, <<m>>)) = FlattenSeq(<<>>) \o <<m>> /\ FlattenSeq(<<>>) = <<>>
  <2>1. <<>> \in Seq(Seq({m})) /\ <<m>> \in Seq({m})
    OBVIOUS
  <2> QED
    BY <2>1, FlattenByOne
<1>7. <<>> \o <<m>> = <<m>>
  OBVIOUS
<1> QED
  BY <1>3, <1>5, <1>6, <1>7 DEF x, s
-----------------------------------------------------------------------------
(* What the lines of a file are made of, and what there is while one is    *)
(* written                                                                 *)
Fields(mapper) ==
  {Text(c) : c \in STRING} \cup
  UNION {ToSet(Field(c, message, mapper, Now)) : c \in STRING, message \in Told}
Writing(mapper) == [line : Seq(Fields(mapper)), behind : BOOLEAN]
Blank == [line |-> <<>>, behind |-> FALSE]

LEMMA FieldTyped ==
  ASSUME NEW mapper, NEW c \in STRING, NEW message \in Told
  PROVE  Field(c, message, mapper, Now) \in Seq(Fields(mapper)) /\ Text(c) \in Fields(mapper)
<1> DEFINE field == Field(c, message, mapper, Now)
<1>1. ToSet(field) \subseteq Fields(mapper) /\ Text(c) \in Fields(mapper)
  BY DEF Fields
<1>2. \E Y : field \in Seq(Y)
  <2>1. CASE c = "$"
    <3>1. field = <<Message(message)>>
      BY <2>1, FieldIs
    <3> HIDE DEF field
    <3> DEFINE x == Message(message)
    <3> HIDE DEF x
    <3>2. <<x>> \in Seq({x})
      OBVIOUS
    <3> QED
      BY <3>1, <3>2 DEF x
  <2>2. CASE c # "$"
    BY <2>2, FieldIs DEF IsSilent
  <2> QED
    BY <2>1, <2>2
<1> HIDE DEF field
<1>3. PICK Y : field \in Seq(Y)
  BY <1>2
<1>4. /\ Len(field) \in Nat /\ field = [i \in 1..Len(field) |-> field[i]]
      /\ \A i \in 1..Len(field) : field[i] \in ToSet(field)
  BY <1>3 DEF ToSet
<1>5. \A i \in 1..Len(field) : field[i] \in Fields(mapper)
  BY <1>1, <1>4
<1>6. field \in Seq(Fields(mapper))
  BY <1>4, <1>5, SequenceOf
<1> QED
  BY <1>1, <1>6 DEF field

LEMMA FieldsBear ==
  ASSUME NEW mapper
  PROVE  Bears(Fields(mapper), Told)
<1> SUFFICES ASSUME NEW x \in Fields(mapper), x.kind = "message"
             PROVE  x.of \in Told
  BY DEF Bears
<1>1. \A c : Text(c).kind # "message"
  BY DEF Text
<1>2. PICK c \in STRING, message \in Told : x \in ToSet(Field(c, message, mapper, Now))
  BY <1>1 DEF Fields
<1> DEFINE field == Field(c, message, mapper, Now)
<1>3. PICK i \in DOMAIN field : x = field[i]
  BY <1>2 DEF ToSet
<1>4. CASE c = "$"
  <2>1. field = <<Message(message)>>
    BY <1>4, FieldIs
  <2> HIDE DEF field
  <2>2. x = Message(message)
    BY <1>3, <2>1
  <2> QED
    BY <2>2 DEF Message
<1>5. CASE c # "$"
  <2>1. PICK Y : field \in Seq(Y) /\ \A y \in Y : y.kind # "message"
    BY <1>5, FieldIs DEF IsSilent
  <2> HIDE DEF field
  <2>2. x \in Y
    BY <1>3, <2>1
  <2> QED
    BY <2>1, <2>2
<1> QED
  BY <1>4, <1>5

(* One more character makes one more line of the kind.                     *)
LEMMA WrittenTyped ==
  ASSUME NEW mapper, NEW message \in Told, NEW c \in STRING, NEW s \in Writing(mapper)
  PROVE  written(s, c, message, mapper, Now) \in Writing(mapper)
<1> DEFINE X == Fields(mapper)
           field == Field(c, message, mapper, Now)
           text == Text(c)
<1>1. field \in Seq(X) /\ text \in X /\ s.line \in Seq(X) /\ s.behind \in BOOLEAN
  BY FieldTyped DEF Writing
<1>2. written(s, c, message, mapper, Now) =
        IF ~s.behind /\ c = "%" THEN [line |-> s.line, behind |-> TRUE]
        ELSE [line |-> s.line \o (IF s.behind THEN field ELSE <<text>>), behind |-> FALSE]
  BY DEF written
<1> HIDE DEF X, field, text
<1>3. s.line \o field \in Seq(X) /\ s.line \o <<text>> \in Seq(X)
  BY <1>1
<1> QED
  BY <1>1, <1>2, <1>3 DEF Writing, X

LEMMA LineLoops ==
  ASSUME NEW mapper, NEW message \in Told, NEW format \in Seq(STRING)
  PROVE  \E f \in [0..Len(format) -> Writing(mapper)] :
           /\ f[0] = Blank
           /\ \A i \in 1..Len(format) : f[i] = written(f[i - 1], format[i], message, mapper, Now)
           /\ logLine(format, message, mapper, Now) = f[Len(format)].line
<1> DEFINE n == Len(format)
           S == Writing(mapper)
           step == [p \in S \X STRING |-> written(p[1], p[2], message, mapper, Now)]
           Round(f, i) == IF i = 0 THEN Blank
                          ELSE written(f[i - 1], format[i], message, mapper, Now)
           After(f) == f = [i \in 0..n |-> Round(f, i)]
           after == CHOOSE f : After(f)
<1>0. n \in Nat /\ \A i \in 1..n : format[i] \in STRING
  OBVIOUS
<1>1. Blank \in S /\ step \in [S \X STRING -> S]
  <2>1. Blank \in S
    BY DEF Blank, Writing
  <2>2. \A p \in S \X STRING : written(p[1], p[2], message, mapper, Now) \in S
    BY WrittenTyped
  <2> QED
    BY <2>1, <2>2
<1>s. \A s \in S, c \in STRING : step[<<s, c>>] = written(s, c, message, mapper, Now)
  OBVIOUS
<1> HIDE DEF step, S
<1>2. \E f : After(f)
  <2>1. PICK f \in [0..n -> S] : Looping(f, Blank, step, format)
    BY <1>1, LoopsRun
  <2>2. f = [i \in 0..n |-> IF i = 0 THEN Blank ELSE step[<<f[i - 1], format[i]>>]]
    BY <2>1 DEF Looping
  <2>3. \A i \in 0..n :
          (IF i = 0 THEN Blank ELSE step[<<f[i - 1], format[i]>>]) = Round(f, i)
    <3> SUFFICES ASSUME NEW i \in 0..n, i # 0
                 PROVE  step[<<f[i - 1], format[i]>>]
                          = written(f[i - 1], format[i], message, mapper, Now)
      OBVIOUS
    <3>1. f[i - 1] \in S /\ format[i] \in STRING
      BY <1>0, <2>1
    <3> QED
      BY <1>s, <3>1
  <2> HIDE DEF Round
  <2>4. After(f)
    BY <2>2, <2>3
  <2> HIDE DEF After
  <2> QED
    BY <2>4
<1>3. After(after)
  BY <1>2
<1>4. logLine(format, message, mapper, Now) = after[n].line
  BY DEF logLine, Blank
<1> HIDE DEF after
<1>5. after = [i \in 0..n |-> Round(after, i)]
  BY <1>3
<1> HIDE DEF Round
<1>6. \A i \in 0..n : after[i] = Round(after, i)
  BY <1>5
<1>7. /\ after[0] = Blank
      /\ \A i \in 1..n : after[i] = written(after[i - 1], format[i], message, mapper, Now)
  <2>1. 0 \in 0..n /\ \A i \in 1..n : i \in 0..n /\ i # 0
    BY <1>0
  <2> QED
    BY <1>6, <2>1 DEF Round
<1>8. \A i \in 0..n : after[i] \in S
  <2> DEFINE Typed == {i \in 0..n : after[i] \in S}
  <2>1. 0 \in Typed
    <3>1. after[0] \in S /\ 0 \in 0..n
      BY <1>0, <1>1, <1>7
    <3> QED
      BY <3>1
  <2>2. ASSUME NEW i \in 1..n, i - 1 \in Typed
        PROVE  i \in Typed
    <3>1. after[i - 1] \in S /\ format[i] \in STRING /\ i \in 0..n
      BY <1>0, <2>2
    <3>2. after[i] \in S
      BY <1>7, <3>1, WrittenTyped DEF S
    <3> QED
      BY <3>1, <3>2
  <2> HIDE DEF Typed
  <2>3. 0..n \subseteq Typed
    BY <1>0, <2>1, <2>2, RoundByRound
  <2> QED
    BY <2>3 DEF Typed
<1>9. after \in [0..n -> S]
  BY <1>5, <1>8
<1> QED
  BY <1>4, <1>7, <1>9 DEF S

(* A character that is no dollar sign behind a percent sign adds no message*)
(* to a line, and one that is adds the one there is.                       *)
LEMMA CharacterTold ==
  ASSUME NEW mapper, NEW message \in Told, NEW c \in STRING, NEW s \in Writing(mapper)
  PROVE  MessagesIn(written(s, c, message, mapper, Now).line) =
           IF s.behind /\ c = "$" THEN MessagesIn(s.line) \o <<message>> ELSE MessagesIn(s.line)
<1> DEFINE X == Fields(mapper)
           field == Field(c, message, mapper, Now)
           added == IF s.behind THEN field ELSE <<Text(c)>>
           old == s.line
<1>1. field \in Seq(X) /\ Text(c) \in X /\ old \in Seq(X) /\ s.behind \in BOOLEAN /\ Bears(X, Told)
  BY FieldTyped, FieldsBear DEF Writing
<1>2. written(s, c, message, mapper, Now).line =
        IF ~s.behind /\ c = "%" THEN old ELSE old \o added
  BY DEF written
<1>3. MessagesIn(old) \in Seq(Told)
  BY <1>1, PartsAre
<1>4. CASE s.behind /\ c = "$"
  <2>1. field = <<Message(message)>> /\ added = field
    BY <1>4, FieldIs
  <2>2. MessagesIn(field) = <<message>>
    BY <2>1, MessageIsOne
  <2> HIDE DEF X, field, added, old
  <2>3. MessagesIn(old \o field) = MessagesIn(old) \o MessagesIn(field)
    BY <1>1, MessagesOfConcat
  <2> QED
    BY <1>2, <1>4, <2>1, <2>2, <2>3 DEF old
<1>5. CASE ~(s.behind /\ c = "$")
  <2>1. IsSilent(added)
    <3>1. CASE s.behind
      BY <1>5, <3>1, FieldIs
    <3>2. CASE ~s.behind
      <4>1. Text(c).kind # "message"
        BY DEF Text
      <4>2. IsSilent(<<Text(c)>>)
        BY <4>1, FewAreSilent
      <4> QED
        BY <3>2, <4>2
    <3> QED
      BY <3>1, <3>2
  <2>2. added \in Seq(X)
    <3> DEFINE text == Text(c)
    <3> HIDE DEF X, field, text
    <3>1. text \in X => <<text>> \in Seq(X)
      OBVIOUS
    <3> QED
      BY <1>1, <3>1 DEF text
  <2> HIDE DEF X, added, old
  <2>3. MessagesIn(old \o added) = MessagesIn(old) \o <<>>
    <3>1. MessagesIn(old \o added) = MessagesIn(old) \o MessagesIn(added)
      BY <1>1, <2>2, MessagesOfConcat
    <3>2. MessagesIn(added) = <<>>
      BY <2>1, SilentHasNone
    <3> QED
      BY <3>1, <3>2
  <2>4. MessagesIn(old) \o <<>> = MessagesIn(old)
    <3> DEFINE t == MessagesIn(old)
    <3> HIDE DEF t
    <3>1. t \in Seq(Told)
      BY <1>3 DEF t
    <3>2. t \o <<>> = t
      BY <3>1
    <3> QED
      BY <3>2 DEF t
  <2> QED
    BY <1>2, <1>5, <2>3, <2>4 DEF old
<1> QED
  BY <1>4, <1>5

(* A line by a format that shows the message once has it once.             *)
LEMMA LineTold ==
  ASSUME NEW mapper, NEW message \in Told, NEW format \in Seq(STRING), NEW s, Shows(format) = {s}
  PROVE  /\ logLine(format, message, mapper, Now) \in Seq(Fields(mapper))
         /\ MessagesIn(logLine(format, message, mapper, Now)) = <<message>>
<1> DEFINE n == Len(format)
           Signs(i) == {j \in 0..i : j = 0 \/ format[j] # "%"}
           Before(i) == Max(Signs(i))
           Odd(i) == (i - Before(i)) % 2 = 1
<1>1. PICK f \in [0..n -> Writing(mapper)] :
        /\ f[0] = Blank
        /\ \A i \in 1..n : f[i] = written(f[i - 1], format[i], message, mapper, Now)
        /\ logLine(format, message, mapper, Now) = f[n].line
  BY LineLoops
<1>2. n \in Nat /\ DOMAIN format = 1..n /\ \A i \in 1..n : format[i] \in STRING
  OBVIOUS
<1>3. s \in 1..n /\ \A i \in 1..n : i = s <=> format[i] = "$" /\ Odd(i - 1)
  <2>1. Shows(format) = {i \in 1..n : format[i] = "$" /\ Odd(i - 1)}
    BY <1>2 DEF Shows
  <2> HIDE DEF Odd
  <2> QED
    BY <2>1
<1> HIDE DEF n
<1> DEFINE Holds(i) == /\ Before(i) \in 0..i
                       /\ f[i].behind <=> Odd(i)
                       /\ MessagesIn(f[i].line) = IF s <= i THEN <<message>> ELSE <<>>
           Rounds == {i \in 0..n : Holds(i)}
<1>4. 0 \in Rounds
  <2>1. Signs(0) = {0}
    OBVIOUS
  <2>2. Before(0) = 0
    <3>1. 0 \in {0} /\ {0} \subseteq Int /\ \A y \in {0} : y <= 0
      OBVIOUS
    <3>2. Max({0}) = 0
      BY <3>1, MaxIs
    <3> QED
      BY <2>1, <3>2
  <2> HIDE DEF Before
  <2>3. ~Odd(0)
    BY <2>2
  <2>4. f[0].behind = FALSE /\ MessagesIn(f[0].line) = <<>> /\ ~(s <= 0)
    BY <1>1, <1>2, <1>3, NothingHasNone DEF Blank
  <2>5. Holds(0)
    BY <2>2, <2>3, <2>4
  <2> HIDE DEF Holds
  <2> QED
    BY <1>2, <2>5
<1>5. ASSUME NEW i \in 1..n, i - 1 \in Rounds
      PROVE  i \in Rounds
  <2> DEFINE before == f[i - 1]
             c == format[i]
  <2>1. i - 1 \in 0..n /\ i \in 0..n /\ before \in Writing(mapper) /\ c \in STRING
    BY <1>2
  <2>2. /\ Before(i - 1) \in 0..(i - 1)
        /\ before.behind <=> Odd(i - 1)
        /\ MessagesIn(before.line) = IF s <= i - 1 THEN <<message>> ELSE <<>>
    <3> HIDE DEF Before, Odd
    <3> QED
      BY <1>5
  <2>3. f[i] = written(before, c, message, mapper, Now)
    BY <1>1
  <2>4. before.behind \in BOOLEAN
    BY <2>1 DEF Writing
  <2> HIDE DEF before, c
  <2>5. f[i].behind <=> ~before.behind /\ c = "%"
    BY <2>3, <2>4 DEF written
  <2>6. Before(i) \in 0..i /\ (Odd(i) <=> ~Odd(i - 1) /\ c = "%")
    <3>1. CASE c = "%"
      <4>1. Signs(i) = Signs(i - 1)
        BY <1>2, <3>1 DEF c
      <4>2. Before(i) = Before(i - 1)
        BY <4>1
      <4> HIDE DEF Before
      <4>3. i - Before(i - 1) = (i - 1 - Before(i - 1)) + 1 /\ i - 1 - Before(i - 1) \in Nat
        BY <1>2, <2>2
      <4>4. \A k \in Nat : (k + 1) % 2 = 1 <=> ~(k % 2 = 1)
        OBVIOUS
      <4>5. Odd(i) <=> ~Odd(i - 1)
        BY <4>2, <4>3, <4>4
      <4>6. Before(i) \in 0..i
        BY <1>2, <2>2, <4>2
      <4> HIDE DEF Odd
      <4> QED
        BY <3>1, <4>5, <4>6
    <3>2. CASE c # "%"
      <4>1. i \in Signs(i) /\ Signs(i) \subseteq Int /\ \A y \in Signs(i) : y <= i
        BY <1>2, <3>2 DEF c
      <4> HIDE DEF Signs
      <4>2. Before(i) = i
        BY <4>1, MaxIs
      <4> HIDE DEF Before
      <4>3. ~Odd(i) /\ Before(i) \in 0..i
        BY <1>2, <4>2
      <4> QED
        BY <3>2, <4>3
    <3> QED
      BY <3>1, <3>2
  <2> HIDE DEF Before, Odd
  <2>7. MessagesIn(f[i].line) = IF i = s THEN MessagesIn(before.line) \o <<message>>
                                ELSE MessagesIn(before.line)
    <3>1. i = s <=> c = "$" /\ before.behind
      <4>1. i = s <=> c = "$" /\ Odd(i - 1)
        BY <1>3 DEF c
      <4>2. before.behind <=> Odd(i - 1)
        BY <2>2
      <4> QED
        BY <4>1, <4>2, Zenon
    <3> QED
      BY <2>1, <2>3, <3>1, CharacterTold
  <2>8. MessagesIn(f[i].line) = IF s <= i THEN <<message>> ELSE <<>>
    <3>1. CASE i = s
      <4>1. ~(s <= i - 1) /\ s <= i
        BY <1>2, <1>3, <3>1
      <4>2. <<>> \o <<message>> = <<message>>
        OBVIOUS
      <4> QED
        BY <2>2, <2>7, <3>1, <4>1, <4>2
    <3>2. CASE i # s
      <4>1. s <= i <=> s <= i - 1
        BY <1>2, <1>3, <3>2
      <4> QED
        BY <2>2, <2>7, <3>2, <4>1
    <3> QED
      BY <3>1, <3>2
  <2>9. Holds(i)
    <3>1. f[i].behind <=> Odd(i)
      <4>1. before.behind <=> Odd(i - 1)
        BY <2>2
      <4> QED
        BY <2>5, <2>6, <4>1, Zenon
    <3> QED
      BY <2>6, <2>8, <3>1, Zenon
  <2> HIDE DEF Holds
  <2> QED
    BY <2>1, <2>9
<1> HIDE DEF Rounds
<1>6. n \in Rounds
  <2>1. 0..n \subseteq Rounds
    BY <1>2, <1>4, <1>5, RoundByRound
  <2> QED
    BY <1>2, <2>1
<1>7. MessagesIn(f[n].line) = IF s <= n THEN <<message>> ELSE <<>>
  <2> HIDE DEF Before, Odd
  <2> QED
    BY <1>6 DEF Rounds
<1>8. s <= n /\ f[n].line \in Seq(Fields(mapper))
  <2>1. f[n] \in Writing(mapper) /\ s <= n
    BY <1>2, <1>3
  <2> QED
    BY <2>1 DEF Writing
<1> QED
  BY <1>1, <1>7, <1>8

(* A file by such a format has each message once, in their order.          *)
LEMMA FileTold ==
  ASSUME NEW mapper, NEW format \in Seq(STRING), NEW s, Shows(format) = {s},
         NEW messages \in Seq(Told)
  PROVE  MessagesIn(fileOf(messages, format, mapper)) = messages
<1> DEFINE n == Len(messages)
           X == Fields(mapper)
           Y == Seq(X)
           entries == [i \in 1..n |-> logLine(format, messages[i], mapper, Now)]
           upTo(i) == SubSeq(messages, 1, i)
<1>1. /\ n \in Nat /\ DOMAIN messages = 1..n /\ n \in 0..n /\ 0 \in 0..n
      /\ upTo(0) = <<>> /\ upTo(n) = messages
  OBVIOUS
<1>2. \A i \in 1..n : messages[i] \in Told
  OBVIOUS
<1>3. fileOf(messages, format, mapper) = FlattenSeq(entries)
  BY <1>1 DEF fileOf
<1>4. \A i \in 1..n : entries[i] \in Y /\ MessagesIn(entries[i]) = <<messages[i]>>
  BY <1>2, LineTold
<1>5. entries = [i \in 1..n |-> entries[i]] /\ Len(entries) = n
  BY <1>1
<1>6. \A i \in 1..n : upTo(i) = Append(upTo(i - 1), messages[i])
  BY SubSeqByOne
<1> HIDE DEF n, Y, entries, upTo
<1>7. entries \in Seq(Y)
  BY <1>1, <1>4, <1>5, SequenceOf
<1>8. PICK g : Appending(g, X, entries, n)
  BY <1>5, <1>7, FlattenByRounds DEF Y
<1>9. /\ g \in [0..n -> Y] /\ g[0] = <<>> /\ g[n] = FlattenSeq(entries)
      /\ \A i \in 1..n : g[i] = g[i - 1] \o entries[i]
  BY <1>8 DEF Appending, Y
<1> DEFINE Rounds == {i \in 0..n : MessagesIn(g[i]) = upTo(i)}
<1>10. 0 \in Rounds
  BY <1>1, <1>9, NothingHasNone
<1>11. ASSUME NEW i \in 1..n, i - 1 \in Rounds
       PROVE  i \in Rounds
  <2>1. i - 1 \in 0..n /\ i \in 0..n
    BY <1>1
  <2>2. g[i - 1] \in Y /\ entries[i] \in Y
    BY <1>4, <1>9, <2>1
  <2>3. Bears(X, Told)
    BY FieldsBear
  <2>4. MessagesIn(g[i]) = MessagesIn(g[i - 1]) \o MessagesIn(entries[i])
    <3> HIDE DEF X
    <3> QED
      BY <1>9, <2>2, <2>3, MessagesOfConcat DEF Y
  <2>5. MessagesIn(g[i - 1]) = upTo(i - 1) /\ MessagesIn(g[i - 1]) \in Seq(Told)
    <3>1. MessagesIn(g[i - 1]) \in Seq(Told)
      <4> HIDE DEF X
      <4> QED
        BY <2>2, <2>3, PartsAre DEF Y
    <3> QED
      BY <1>11, <3>1
  <2> DEFINE t == upTo(i - 1)
             m == messages[i]
  <2>6. m \in Told
    BY <1>2
  <2> HIDE DEF t, m
  <2>7. t \o <<m>> = Append(t, m)
    <3>1. t \in Seq(Told)
      BY <2>5 DEF t
    <3>2. \A Z : \A u \in Seq(Z) : \A x \in Z : u \o <<x>> = Append(u, x)
      OBVIOUS
    <3> QED
      BY <2>6, <3>1, <3>2
  <2>8. MessagesIn(g[i]) = upTo(i)
    BY <1>4, <1>6, <2>4, <2>5, <2>7 DEF t, m
  <2> QED
    BY <2>1, <2>8
<1> HIDE DEF Rounds
<1>12. n \in Rounds
  <2>1. 0..n \subseteq Rounds
    BY <1>1, <1>10, <1>11, RoundByRound
  <2> QED
    BY <1>1, <2>1
<1>13. MessagesIn(g[n]) = upTo(n)
  BY <1>12 DEF Rounds
<1> QED
  BY <1>1, <1>3, <1>9, <1>13

LEMMA RowTyped ==
  ASSUME StartupInv, NEW l \in DOMAIN modules
  PROVE  FlattenSeq(Row(l)) \in Seq(Told)
<1> DEFINE n == Len(modules)
           k == n - l + 1
           Y == Seq(Told)
           row == Row(l)
<1>1. n \in Nat /\ l \in 1..n
  BY DEF StartupInv, StartupTypes
<1>2. k \in Nat /\ \A i \in 1..k : l + i - 1 \in Nat
  BY <1>1
<1>3. row = [i \in 1..k |-> ToldOf(l, l + i - 1)]
  BY DEF Row
<1>4. \A i \in 1..k : ToldOf(l, l + i - 1) \in Y
  BY <1>2, ToldIs
<1> HIDE DEF row, Y, k
<1>5. \A i \in 1..k : row[i] \in Y
  BY <1>3, <1>4
<1>6. row = [i \in 1..k |-> row[i]]
  BY <1>3
<1>7. row \in Seq(Y)
  BY <1>2, <1>5, <1>6, SequenceOf
<1> QED
  BY <1>7, FlattenOver DEF Y, row

(* Whatever the modules, their LOGMASKs and what becomes of them, a logger *)
(* that can write is told how each module from its own on has started, in  *)
(* their order, unless the last word of its LOGMASK on that leaves it out; *)
(* and a file whose format shows the message once, whatever else is in the *)
(* format, has what its logger has been told and no more.                  *)
THEOREM StartsAreTold == StartupSpec => []StartsAreLogged
<1>1. StartupInv /\ LogsInv => StartsAreLogged
  <2> SUFFICES ASSUME StartupInv, LogsInv, NEW l \in DOMAIN loggers
               PROVE  LET told == FlattenSeq([i \in 1..(Len(modules) - l + 1) |->
                                                ToldOf(l, l + i - 1)])
                          messages == IF loggers[l] THEN told ELSE <<>>
                      IN /\ logged[l] = messages
                         /\ \A format \in Formats, mapper \in maskMapper("HOUSEKEEPING") :
                              Cardinality(Shows(format)) = 1
                                => MessagesIn(fileOf(logged[l], format, mapper)) = messages
    BY DEF StartsAreLogged
  <2> DEFINE messages == IF loggers[l] THEN FlattenSeq(Row(l)) ELSE <<>>
  <2>1. l \in DOMAIN modules
    BY DEF StartupInv, StartupTypes
  <2>2. logged[l] = messages
    BY DEF LogsInv
  <2>3. messages \in Seq(Told)
    BY <2>1, RowTyped
  <2> HIDE DEF messages
  <2>4. ASSUME NEW format \in Formats, NEW mapper, Cardinality(Shows(format)) = 1
        PROVE  MessagesIn(fileOf(messages, format, mapper)) = messages
    <3>1. format \in Seq(STRING)
      BY LoggingAssumption
    <3>2. IsFiniteSet(Shows(format))
      <4>1. Len(format) \in Nat /\ Shows(format) \subseteq 1..Len(format)
        BY <3>1 DEF Shows
      <4>2. IsFiniteSet(1..Len(format))
        BY <4>1, FS_Interval
      <4> QED
        BY <4>1, <4>2, FS_Subset
    <3>3. PICK s : Shows(format) = {s}
      BY <2>4, <3>2, FS_Singleton
    <3> QED
      BY <2>3, <3>1, <3>3, FileTold
  <2>5. messages = IF loggers[l]
                   THEN FlattenSeq([i \in 1..(Len(modules) - l + 1) |-> ToldOf(l, l + i - 1)])
                   ELSE <<>>
    BY DEF messages, Row
  <2> QED
    BY <2>2, <2>4, <2>5
<1> QED
  BY <1>1, StartupInvariant, LogsInvariant, PTL
-----------------------------------------------------------------------------
(* The listeners that classes ask for                                      *)

(* The places that a class asks for by the entries up to the i-th          *)
AskedUpto(l, i) ==
  {Place(l.domain, Services[k].port) : k \in {k \in 1..i : Named(l, Services[k])}}
  \cup {Place(l.domain, n) : n \in {n \in {config(l).PORT.value} : i > 0 /\ n > 0}}

(* Listeners that are at those places, one at each                         *)
At(made, places) ==
  /\ {made[j].place : j \in DOMAIN made} = places
  /\ \A j, k \in DOMAIN made : made[j].place = made[k].place => j = k

(* What holds between the entries, unless the class will be refused: the   *)
(* number it has is carried to the first entry, and no port further.       *)
AskedSoFar(l, i, acc) ==
  acc.manyErrors = 0 =>
    /\ IF i = 0 THEN acc.port = config(l).PORT.value ELSE acc.port <= 0
    /\ At(acc.made, AskedUpto(l, i))

(* The classes whose ports are names                                       *)
ByName(l) ==
  /\ l \in ListenLines /\ l.domain # "UNIX" /\ ~config(l).PORT.whole

(* One more listener at one more place                                     *)
LEMMA OneMorePlace ==
  ASSUME NEW X, NEW made \in Seq(X), NEW x, NEW places, At(made, places),
         x.place \notin places
  PROVE  At(<<x>> \o made, {x.place} \cup places)
<1> DEFINE n == Len(made)
           more == <<x>> \o made
<1>1. /\ n \in Nat /\ DOMAIN made = 1..n /\ DOMAIN more = 1..(n + 1) /\ more[1] = x
      /\ \A i \in 2..(n + 1) : more[i] = made[i - 1] /\ i - 1 \in DOMAIN made
      /\ \A i \in 1..n : more[i + 1] = made[i] /\ i + 1 \in DOMAIN more
  OBVIOUS
<1>2. \A i \in DOMAIN more : i = 1 \/ i \in 2..(n + 1)
  BY <1>1
<1>3. 1 \in DOMAIN more
  BY <1>1
<1> HIDE DEF more, n
<1>4. {more[j].place : j \in DOMAIN more} = {x.place} \cup places
  <2>1. ASSUME NEW j \in DOMAIN more
        PROVE  more[j].place \in {x.place} \cup places
    <3>1. CASE j = 1
      BY <1>1, <3>1
    <3>2. CASE j \in 2..(n + 1)
      <4>1. more[j] = made[j - 1] /\ j - 1 \in DOMAIN made
        BY <1>1, <3>2
      <4> QED
        BY <4>1 DEF At
    <3> QED
      BY <1>2, <3>1, <3>2
  <2>2. ASSUME NEW p \in places
        PROVE  \E j \in DOMAIN more : more[j].place = p
    <3>1. PICK j \in DOMAIN made : made[j].place = p
      BY DEF At
    <3> QED
      BY <1>1, <3>1
  <2>3. \E j \in DOMAIN more : more[j].place = x.place
    BY <1>1, <1>3
  <2> QED
    BY <2>1, <2>2, <2>3
<1>5. ASSUME NEW j \in DOMAIN more, NEW k \in DOMAIN more, more[j].place = more[k].place
      PROVE  j = k
  <2>1. ASSUME NEW i \in 2..(n + 1)
        PROVE  more[i].place # x.place
    <3>1. more[i] = made[i - 1] /\ i - 1 \in DOMAIN made
      BY <1>1
    <3>2. made[i - 1].place \in places
      BY <3>1 DEF At
    <3> QED
      BY <3>1, <3>2
  <2>2. CASE j \in 2..(n + 1) /\ k \in 2..(n + 1)
    <3>1. /\ j - 1 \in DOMAIN made /\ k - 1 \in DOMAIN made
          /\ made[j - 1].place = made[k - 1].place
      BY <1>1, <1>5, <2>2
    <3>2. j - 1 = k - 1
      BY <3>1 DEF At
    <3> QED
      BY <1>1, <2>2, <3>2
  <2> QED
    BY <1>1, <1>2, <1>5, <2>1, <2>2
<1> QED
  BY <1>4, <1>5 DEF At, more

(* What a class asks for by one entry more                                 *)
LEMMA OneMoreAsked ==
  ASSUME EveryPortOnce, NEW l, ByName(l), NEW k \in DOMAIN Services
  PROVE  LET s == Services[k]
             v == config(l).PORT.value
         IN /\ s.port \in Nat /\ v \in Int /\ k \in Nat \ {0}
            /\ Named(l, s) =>
                 /\ s.port > 0 /\ (k = 1 => v <= 0)
                 /\ Place(l.domain, s.port) \notin AskedUpto(l, k - 1)
                 /\ AskedUpto(l, k) = {Place(l.domain, s.port)} \cup AskedUpto(l, k - 1)
            /\ ~Named(l, s) =>
                 AskedUpto(l, k) =
                   IF k = 1 /\ v > 0 THEN {Place(l.domain, v)} \cup AskedUpto(l, k - 1)
                   ELSE AskedUpto(l, k - 1)
            /\ AskedUpto(l, 0) = {}
<1> DEFINE S == [names : SUBSET STRING, proto : STRING, port : Nat]
           v == config(l).PORT.value
           port == [j \in DOMAIN Services |-> Services[j].port]
           Ns == {j \in DOMAIN Services : Named(l, Services[j])}
           Upto(i) == {j \in 1..i : Named(l, Services[j])}
           Number(i) == {n \in {v} : i > 0 /\ n > 0}
<1>1. /\ Services \in Seq(S) /\ \A j \in DOMAIN Services : Services[j].port \in Nat
  <2>1. Services \in Seq(S)
    BY ListenersAssumption
  <2>2. \A s \in S : s.port \in Nat
    OBVIOUS
  <2> HIDE DEF S
  <2> QED
    BY <2>1, <2>2
<1>2. k \in Nat \ {0} /\ DOMAIN Services = 1..Len(Services) /\ Len(Services) \in Nat
  <2> HIDE DEF S
  <2> QED
    BY <1>1
<1>3. v \in Int
  BY StartupAssumption DEF ByName
<1>4. /\ \A j \in Ns : /\ Services[j].port # 0
                       /\ \A i \in Ns : Services[i].port = Services[j].port => i = j
                       /\ v > 0 => j # 1 /\ Services[j].port # v
  BY DEF EveryPortOnce, ByName
<1>5. /\ Upto(k) = IF Named(l, Services[k]) THEN {k} \cup Upto(k - 1) ELSE Upto(k - 1)
      /\ Upto(k - 1) \subseteq DOMAIN Services /\ k \notin Upto(k - 1)
  BY <1>2
<1>6. /\ Number(0) = {} /\ Upto(0) = {}
      /\ Number(k) = IF v > 0 THEN {v} ELSE {}
      /\ k # 1 => Number(k - 1) = Number(k)
      /\ Number(k - 1) \subseteq {v} /\ (Number(k - 1) # {} => v > 0)
  BY <1>2, <1>3
<1>7. /\ \A i : AskedUpto(l, i) = {Place(l.domain, Services[j].port) : j \in Upto(i)}
                                 \cup {Place(l.domain, n) : n \in Number(i)}
  BY DEF AskedUpto
<1> HIDE DEF Number
<1>8. CASE Named(l, Services[k])
  <2>1. k \in Ns /\ Upto(k - 1) \subseteq Ns
    BY <1>5, <1>8
  <2>2. Services[k].port > 0 /\ (k = 1 => v <= 0)
    BY <1>1, <1>3, <1>4, <2>1
  <2>3. Place(l.domain, Services[k].port) \notin AskedUpto(l, k - 1)
    <3>1. \A j \in Upto(k - 1) : Services[j].port # Services[k].port
      BY <1>4, <1>5, <2>1
    <3>2. \A n \in Number(k - 1) : n # Services[k].port
      BY <1>4, <1>6, <2>1
    <3> QED
      BY <1>7, <3>1, <3>2 DEF Place
  <2>4. Number(k) = Number(k - 1)
    BY <1>3, <1>6, <2>2
  <2>5. AskedUpto(l, k) = {Place(l.domain, Services[k].port)} \cup AskedUpto(l, k - 1)
    <3>1. Upto(k) = {k} \cup Upto(k - 1)
      BY <1>5, <1>8
    <3> HIDE DEF Upto
    <3> QED
      BY <1>7, <2>4, <3>1
  <2>6. AskedUpto(l, 0) = {}
    BY <1>6, <1>7
  <2> QED
    BY <1>1, <1>2, <1>3, <1>8, <2>2, <2>3, <2>5, <2>6
<1>9. CASE ~Named(l, Services[k])
  <2>1. Upto(k) = Upto(k - 1)
    BY <1>5, <1>9
  <2>2. AskedUpto(l, 0) = {}
    BY <1>6, <1>7
  <2>3. AskedUpto(l, k) =
          IF k = 1 /\ v > 0 THEN {Place(l.domain, v)} \cup AskedUpto(l, k - 1)
          ELSE AskedUpto(l, k - 1)
    <3>1. CASE k = 1 /\ v > 0
      <4>1. Number(k) = {v} /\ Number(k - 1) = {}
        BY <1>6, <3>1
      <4> QED
        BY <1>7, <2>1, <3>1, <4>1
    <3>2. CASE ~(k = 1 /\ v > 0)
      <4>1. Number(k) = Number(k - 1)
        BY <1>6, <3>2
      <4> QED
        BY <1>7, <2>1, <3>2, <4>1
    <3> QED
      BY <3>1, <3>2
  <2> QED
    BY <1>1, <1>2, <1>3, <1>9, <2>2, <2>3
<1> QED
  BY <1>8, <1>9

(* An entry of the services opens the place that is asked for by it.       *)
LEMMA EntryAsks ==
  ASSUME EveryPortOnce, NEW l, ByName(l), NEW k \in DOMAIN Services, NEW acc \in EntriesOf(l),
         AskedSoFar(l, k - 1, acc)
  PROVE  AskedSoFar(l, k, serviceEntry(l, acc, Services[k]))
<1> DEFINE s == Services[k]
           v == config(l).PORT.value
           port == IF Named(l, s) THEN s.port ELSE acc.port
           place == Place(l.domain, port)
           after == serviceEntry(l, acc, s)
           x == NewListener(l, Min(Left(acc)), place)
<1>1. /\ acc.port \in Int /\ acc.made \in Seq(Sockets) /\ acc.manyErrors \in Nat
      /\ acc = [port |-> acc.port, made |-> acc.made, manyErrors |-> acc.manyErrors]
  BY DEF EntriesOf, OpenedFor
<1>2. /\ s.port \in Nat /\ v \in Int /\ k \in Nat \ {0} /\ port \in Int
      /\ Named(l, s) =>
           /\ s.port > 0 /\ (k = 1 => v <= 0)
           /\ Place(l.domain, s.port) \notin AskedUpto(l, k - 1)
           /\ AskedUpto(l, k) = {Place(l.domain, s.port)} \cup AskedUpto(l, k - 1)
      /\ ~Named(l, s) =>
           AskedUpto(l, k) =
             IF k = 1 /\ v > 0 THEN {Place(l.domain, v)} \cup AskedUpto(l, k - 1)
             ELSE AskedUpto(l, k - 1)
      /\ AskedUpto(l, 0) = {}
  BY <1>1, OneMoreAsked
<1>3. \/ after = [port |-> port, made |-> acc.made, manyErrors |-> acc.manyErrors] /\ port <= 0
      \/ after = [port |-> -2, made |-> <<x>> \o acc.made, manyErrors |-> acc.manyErrors]
         /\ port > 0
      \/ after = [port |-> port, made |-> acc.made, manyErrors |-> acc.manyErrors + 1]
  <2> DEFINE sets == setupSocket(l, place, Found(acc), Left(acc))
  <2>1. after = IF port <= 0 THEN [acc EXCEPT !.port = port]
               ELSE IF sets
               THEN [acc EXCEPT !.port = -2, !.made = <<x>> \o @]
               ELSE [acc EXCEPT !.port = port, !.manyErrors = @ + 1]
    BY DEF serviceEntry
  <2> HIDE DEF port, place, after, x, sets
  <2>2. CASE port <= 0
    <3>1. after = [acc EXCEPT !.port = port]
      BY <2>1, <2>2
    <3> QED
      BY <1>1, <2>2, <3>1
  <2>3. CASE ~(port <= 0) /\ sets
    <3>1. after = [acc EXCEPT !.port = -2, !.made = <<x>> \o @]
      BY <2>1, <2>3
    <3>2. after = [port |-> -2, made |-> <<x>> \o acc.made, manyErrors |-> acc.manyErrors]
      BY <1>1, <3>1
    <3>3. port > 0
      BY <1>2, <2>3
    <3> QED
      BY <3>2, <3>3
  <2>4. CASE ~(port <= 0) /\ ~sets
    <3>1. after = [acc EXCEPT !.port = port, !.manyErrors = @ + 1]
      BY <2>1, <2>4
    <3> QED
      BY <1>1, <3>1
  <2> QED
    BY <2>2, <2>3, <2>4
<1> SUFFICES ASSUME after.manyErrors = 0
             PROVE  after.port <= 0 /\ At(after.made, AskedUpto(l, k))
  BY <1>2 DEF AskedSoFar
<1> HIDE DEF after, x
<1>4. acc.manyErrors = 0 /\ after.made = IF port <= 0 THEN acc.made ELSE <<x>> \o acc.made
  <2> DEFINE more == <<x>> \o acc.made
  <2> HIDE DEF port, more
  <2>1. ASSUME after = [port |-> port, made |-> acc.made, manyErrors |-> acc.manyErrors]
               /\ port <= 0
        PROVE  acc.manyErrors = 0 /\ after.made = IF port <= 0 THEN acc.made ELSE more
    BY <1>1, <2>1
  <2>2. ASSUME after = [port |-> -2, made |-> more, manyErrors |-> acc.manyErrors] /\ port > 0
        PROVE  acc.manyErrors = 0 /\ after.made = IF port <= 0 THEN acc.made ELSE more
    BY <1>1, <1>2, <2>2
  <2>3. ~(after = [port |-> port, made |-> acc.made, manyErrors |-> acc.manyErrors + 1])
    BY <1>1
  <2>4. \/ after = [port |-> port, made |-> acc.made, manyErrors |-> acc.manyErrors]
           /\ port <= 0
        \/ after = [port |-> -2, made |-> more, manyErrors |-> acc.manyErrors] /\ port > 0
    BY <1>3, <2>3 DEF more
  <2>5. acc.manyErrors = 0 /\ after.made = IF port <= 0 THEN acc.made ELSE more
    BY <2>1, <2>2, <2>4
  <2> QED
    BY <2>5 DEF more
<1>5. after.port <= 0
  BY <1>1, <1>2, <1>3
<1>6. /\ IF k = 1 THEN acc.port = v ELSE acc.port <= 0
      /\ At(acc.made, AskedUpto(l, k - 1))
  BY <1>2, <1>4 DEF AskedSoFar
<1>7. CASE port <= 0
  <2>1. ~Named(l, s) /\ acc.port <= 0
    BY <1>2, <1>7
  <2>2. AskedUpto(l, k) = AskedUpto(l, k - 1)
    BY <1>1, <1>2, <1>6, <2>1
  <2> QED
    BY <1>4, <1>5, <1>6, <1>7, <2>2
<1>8. CASE port > 0
  <2>1. /\ place \notin AskedUpto(l, k - 1)
        /\ AskedUpto(l, k) = {place} \cup AskedUpto(l, k - 1)
    <3>1. CASE Named(l, s)
      BY <1>2, <3>1
    <3>2. CASE ~Named(l, s)
      <4>1. k = 1 /\ v > 0 /\ port = v /\ AskedUpto(l, k - 1) = {}
        BY <1>1, <1>2, <1>6, <1>8, <3>2
      <4> QED
        BY <1>2, <3>2, <4>1
    <3> QED
      BY <3>1, <3>2
  <2>2. x.place = place
    BY DEF x, NewListener
  <2>3. At(<<x>> \o acc.made, {place} \cup AskedUpto(l, k - 1))
    BY <1>1, <1>6, <2>1, <2>2, OneMorePlace
  <2> QED
    BY <1>2, <1>4, <1>5, <1>8, <2>1, <2>3
<1> QED
  BY <1>2, <1>7, <1>8

(* All entries together open the places that are asked for by a name.      *)
LEMMA NamesAsk ==
  ASSUME EveryPortOnce, AnyFree, NEW l, ByName(l), lookupNames(l).ok
  PROVE  At(lookupNames(l).made, Asked(l))
<1>1. PICK n, after : AfterEntries(l, n, after)
  BY NamesLoop DEF ByName
<1> DEFINE Soon == {i \in 0..n : AskedSoFar(l, i, after[i])}
<1>2. n \in Nat /\ n = Len(Services) /\ DOMAIN Services = 1..n
  <2>1. Services \in Seq([names : SUBSET STRING, proto : STRING, port : Nat])
    BY ListenersAssumption
  <2> QED
    BY <1>1, <2>1 DEF AfterEntries
<1>3. 0 \in Soon
  <2>1. At(<<>>, AskedUpto(l, 0))
    BY DEF At, AskedUpto
  <2> QED
    BY <1>1, <1>2, <2>1 DEF AskedSoFar, AfterEntries
<1>4. ASSUME NEW i \in 1..n, i - 1 \in Soon
      PROVE  i \in Soon
  <2>1. /\ i \in DOMAIN Services /\ i - 1 \in 0..n /\ after[i - 1] \in EntriesOf(l)
        /\ after[i] = serviceEntry(l, after[i - 1], Services[i])
    BY <1>1, <1>2 DEF AfterEntries
  <2>2. AskedSoFar(l, i, after[i])
    BY <1>4, <2>1, EntryAsks
  <2> QED
    BY <1>2, <2>2
<1> HIDE DEF Soon
<1>5. n \in Soon
  <2>1. 0..n \subseteq Soon
    BY <1>2, <1>3, <1>4, RoundByRound
  <2> QED
    BY <1>2, <2>1
<1>6. after[n].manyErrors = 0 /\ lookupNames(l).made = after[n].made
  <2> DEFINE works == after[n].manyErrors = 0
  <2>1. lookupNames(l) = [ok |-> works, made |-> after[n].made]
    BY <1>1 DEF AfterEntries
  <2> HIDE DEF works
  <2>2. lookupNames(l).ok = works /\ lookupNames(l).made = after[n].made
    BY <2>1
  <2> QED
    BY <2>2 DEF works
<1>7. At(lookupNames(l).made, AskedUpto(l, n))
  BY <1>5, <1>6 DEF Soon, AskedSoFar
<1>8. AskedUpto(l, n) = Asked(l)
  <2> DEFINE v == config(l).PORT.value
             here == {s \in ToSet(Services) : Named(l, s)}
  <2>1. Asked(l) = {Place(l.domain, s.port) : s \in here}
                   \cup {Place(l.domain, m) : m \in {m \in {v} : m > 0}}
    BY DEF Asked, ByName
  <2>2. {m \in {v} : n > 0 /\ m > 0} = {m \in {v} : m > 0}
    <3>1. v > 0 => n > 0
      <4>1. v > 0 => Services # <<>>
        BY DEF EveryPortOnce, ByName
      <4> QED
        BY <1>2, <4>1
    <3> QED
      BY <3>1
  <2>3. {Place(l.domain, Services[k].port) : k \in {k \in 1..n : Named(l, Services[k])}}
          = {Place(l.domain, s.port) : s \in here}
    BY <1>2 DEF ToSet
  <2> QED
    BY <2>1, <2>2, <2>3 DEF AskedUpto
<1> QED
  BY <1>7, <1>8

(* A class that is accepted while there is a descriptor opens what it asks *)
(* for, each place once.                                                   *)
LEMMA ClassAsks ==
  ASSUME EveryPortOnce, AnyFree, NEW l \in ListenLines, classHandler(l).ok
  PROVE  At(classHandler(l).made, Asked(l))
<1> DEFINE known == DOMAIN l.sets \subseteq classDefs
           whole == config(l).PORT.whole
           valued == config(l).PORT.value <= 0
           address == config(l).ADDRESS
           port == config(l).PORT.value
<1>1. whole \in BOOLEAN /\ known \in BOOLEAN /\ valued \in BOOLEAN
  BY StartupAssumption
<1>2. classHandler(l) =
        CASE l.domain \notin domainTypes \/ ~known -> refused
          [] l.domain = "UNIX" /\ known ->
               IF address = "" THEN refused ELSE openPlace(l, address)
          [] l.domain \in domainTypes \ {"UNIX"} /\ known /\ whole ->
               IF valued THEN refused ELSE openPlace(l, port)
          [] l.domain = "IPX" /\ ~whole -> refused
          [] OTHER -> lookupNames(l)
  BY DEF classHandler
<1>3. ~refused.ok
  BY DEF refused
<1>4. ASSUME NEW w, openPlace(l, w).ok
      PROVE  At(openPlace(l, w).made, {Place(l.domain, w)})
  <2> DEFINE x == NewListener(l, firstFree, Place(l.domain, w))
  <2>1. openPlace(l, w).made = <<x>> /\ x.place = Place(l.domain, w)
    BY <1>4 DEF openPlace, NewListener
  <2> HIDE DEF x
  <2> QED
    BY <2>1 DEF At
<1>5. "UNIX" \in domainTypes
  BY DEF domainTypes
<1> HIDE DEF known, whole, valued, address, port
<1>6. \/ l.domain = "UNIX" /\ classHandler(l) = openPlace(l, address)
      \/ l.domain # "UNIX" /\ whole /\ classHandler(l) = openPlace(l, port)
      \/ l.domain # "UNIX" /\ ~whole /\ classHandler(l) = lookupNames(l)
  BY <1>1, <1>2, <1>3, <1>5, Zenon
<1>7. CASE l.domain = "UNIX" /\ classHandler(l) = openPlace(l, address)
  <2>1. Asked(l) = {Place(l.domain, address)}
    BY <1>7 DEF Asked, address
  <2> QED
    BY <1>4, <1>7, <2>1
<1>8. CASE l.domain # "UNIX" /\ whole /\ classHandler(l) = openPlace(l, port)
  <2>1. Asked(l) = {Place(l.domain, port)}
    BY <1>8 DEF Asked, whole, port
  <2> QED
    BY <1>4, <1>8, <2>1
<1>9. CASE l.domain # "UNIX" /\ ~whole /\ classHandler(l) = lookupNames(l)
  BY <1>9, NamesAsk DEF ByName, whole
<1> QED
  BY <1>6, <1>7, <1>8, <1>9

(* Any class asks for finitely many places.                                *)
LEMMA AskedIsFinite ==
  ASSUME NEW l
  PROVE  IsFiniteSet(Asked(l)) /\ Cardinality(Asked(l)) \in Nat
<1> DEFINE d == l.domain
           Ks == {k \in DOMAIN Services : Named(l, Services[k])}
           named == {Place(d, Services[k].port) : k \in Ks}
           numbered == {Place(d, m) : m \in {m \in {config(l).PORT.value} : m > 0}}
           port == [k \in Ks |-> Place(d, Services[k].port)]
<1>1. IsFiniteSet(named)
  <2>1. DOMAIN Services = 1..Len(Services) /\ Len(Services) \in Nat
    BY ListenersAssumption
  <2>2. IsFiniteSet(Ks)
    <3>1. Ks \subseteq 1..Len(Services)
      BY <2>1
    <3>2. IsFiniteSet(1..Len(Services))
      BY <2>1, FS_Interval
    <3> HIDE DEF Ks
    <3> QED
      BY <3>1, <3>2, FS_Subset
  <2>3. port \in Surjection(Ks, named)
    BY DEF Surjection
  <2> HIDE DEF port, named, Ks
  <2> QED
    BY <2>2, <2>3, FS_Surjection
<1>2. IsFiniteSet(numbered)
  <2>1. numbered \subseteq {Place(d, config(l).PORT.value)}
    OBVIOUS
  <2>2. IsFiniteSet({Place(d, config(l).PORT.value)})
    BY FS_Singleton
  <2> HIDE DEF numbered
  <2> QED
    BY <2>1, <2>2, FS_Subset
<1>3. \/ \E p : Asked(l) = {p}
      \/ Asked(l) = named \cup numbered
  <2>1. {Place(d, s.port) : s \in {s \in ToSet(Services) : Named(l, s)}} = named
    BY DEF ToSet
  <2> QED
    BY <2>1 DEF Asked
<1>4. IsFiniteSet(Asked(l))
  <2> HIDE DEF named, numbered
  <2>1. IsFiniteSet(named \cup numbered)
    BY <1>1, <1>2, FS_Union
  <2>2. \A p : IsFiniteSet({p})
    BY FS_Singleton
  <2> QED
    BY <1>3, <2>1, <2>2
<1> QED
  BY <1>4, FS_CardinalityType

(* The classes of some listeners                                           *)
LinesOf(made) == [i \in DOMAIN made |-> made[i].line]

LEMMA LinesOfConcat ==
  ASSUME NEW a \in Seq(Sockets), NEW b \in Seq(Sockets)
  PROVE  /\ LinesOf(a) \in Seq(ListenLines) /\ LinesOf(b) \in Seq(ListenLines)
         /\ LinesOf(a \o b) = LinesOf(a) \o LinesOf(b)
<1> DEFINE k == Len(a)
           n == Len(b)
           A == LinesOf(a)
           B == LinesOf(b)
<1>1. /\ k \in Nat /\ n \in Nat /\ DOMAIN a = 1..k /\ DOMAIN b = 1..n
      /\ DOMAIN (a \o b) = 1..(k + n)
      /\ \A i \in 1..k : a[i] \in Sockets
      /\ \A i \in 1..n : b[i] \in Sockets
      /\ \A i \in 1..(k + n) : (a \o b)[i] = IF i <= k THEN a[i] ELSE b[i - k]
  OBVIOUS
<1>2. \A x \in Sockets : x.line \in ListenLines
  BY DEF Sockets
<1> HIDE DEF k, n
<1>3. A = [i \in 1..k |-> a[i].line] /\ B = [i \in 1..n |-> b[i].line]
  BY <1>1 DEF LinesOf
<1>4. LinesOf(a \o b) = [i \in 1..(k + n) |-> (a \o b)[i].line]
  BY <1>1 DEF LinesOf
<1>5. A \in [1..k -> ListenLines] /\ B \in [1..n -> ListenLines]
  BY <1>1, <1>2, <1>3
<1>6. /\ \A i \in 1..k : A[i] = a[i].line
      /\ \A i \in 1..n : B[i] = b[i].line
  BY <1>3
<1> HIDE DEF A, B
<1>7. A \in Seq(ListenLines) /\ B \in Seq(ListenLines) /\ Len(A) = k /\ Len(B) = n
  BY <1>1, <1>5
<1>8. A \o B = [i \in 1..(k + n) |-> IF i <= k THEN A[i] ELSE B[i - k]]
  <2> DEFINE C == A \o B
  <2>1. /\ C \in Seq(ListenLines) /\ Len(C) = k + n
        /\ \A i \in 1..(k + n) : C[i] = IF i <= k THEN A[i] ELSE B[i - k]
    <3>1. /\ C \in Seq(ListenLines) /\ Len(C) = Len(A) + Len(B)
          /\ \A i \in 1..(Len(A) + Len(B)) :
               C[i] = IF i <= Len(A) THEN A[i] ELSE B[i - Len(A)]
      BY <1>7, ConcatProperties
    <3> HIDE DEF C
    <3> QED
      BY <1>1, <1>7, <3>1
  <2> HIDE DEF C
  <2>2. C = [i \in 1..(k + n) |-> C[i]]
    BY <2>1
  <2>3. C = [i \in 1..(k + n) |-> IF i <= k THEN A[i] ELSE B[i - k]]
    BY <2>1, <2>2
  <2> QED
    BY <2>3 DEF C
<1>9. ASSUME NEW i \in 1..(k + n)
      PROVE  (a \o b)[i].line = IF i <= k THEN A[i] ELSE B[i - k]
  <2>1. i \in 1..k \/ (~(i <= k) /\ i - k \in 1..n)
    BY <1>1
  <2> QED
    BY <1>1, <1>6, <2>1
<1>10. LinesOf(a \o b) = A \o B
  BY <1>4, <1>8, <1>9
<1> QED
  BY <1>7, <1>10 DEF A, B

(* Listeners of one class, one at each place it asks for, are as many as   *)
(* the places.                                                             *)
LEMMA MadeAreCounted ==
  ASSUME NEW l \in ListenLines, NEW made \in OpenedFor(l), At(made, Asked(l))
  PROVE  /\ LinesOf(made) \in Seq(ListenLines)
         /\ Occurrences(l, LinesOf(made)) = Cardinality(Asked(l))
         /\ \A other : other # l => Occurrences(other, LinesOf(made)) = 0
<1> DEFINE n == Len(made)
           places == [i \in 1..n |-> made[i].place]
<1>1. n \in Nat /\ DOMAIN made = 1..n /\ \A i \in 1..n : made[i].line = l
  BY DEF OpenedFor
<1>2. LinesOf(made) \in Seq(ListenLines) /\ DOMAIN LinesOf(made) = 1..n
      /\ \A i \in 1..n : LinesOf(made)[i] = l
  BY <1>1 DEF LinesOf
<1>3. Occurrences(l, LinesOf(made)) = n
  <2>1. Positions(l, LinesOf(made)) = 1..n
    BY <1>2 DEF Positions
  <2>2. Cardinality(1..n) = n
    BY <1>1, FS_Interval
  <2> QED
    BY <2>1, <2>2 DEF Occurrences
<1>4. Cardinality(Asked(l)) = n
  <2>1. places \in Bijection(1..n, Asked(l))
    BY <1>1 DEF At, Bijection, Injection, Surjection, IsInjective
  <2> HIDE DEF places
  <2> QED
    BY <1>1, <2>1, FS_CountingElements DEF ExistsBijection
<1>5. ASSUME NEW other, other # l
      PROVE  Occurrences(other, LinesOf(made)) = 0
  <2>1. Positions(other, LinesOf(made)) = {}
    BY <1>2, <1>5 DEF Positions
  <2> QED
    BY <2>1, FS_EmptySet DEF Occurrences
<1> QED
  BY <1>2, <1>3, <1>4, <1>5

(* The property, by classes of listeners and of lines                      *)
AskedInv ==
  \A l \in ListenLines :
    /\ \A i \in DOMAIN listeners : listeners[i].line = l => listeners[i].place \in Asked(l)
    /\ Occurrences(l, LinesOf(listeners)) = Occurrences(l, lines) * Cardinality(Asked(l))

(* Listeners keep what they were made for.                                 *)
LEMMA AskedInvKept ==
  ASSUME AskedInv, lines' = lines, DOMAIN listeners' = DOMAIN listeners,
         \A i \in DOMAIN listeners : /\ listeners'[i].line = listeners[i].line
                                     /\ listeners'[i].place = listeners[i].place
  PROVE  AskedInv'
<1>1. LinesOf(listeners)' = LinesOf(listeners)
  BY DEF LinesOf
<1>2. \A l : Asked(l)' = Asked(l) /\ Occurrences(l, lines)' = Occurrences(l, lines)
             /\ Occurrences(l, LinesOf(listeners))' = Occurrences(l, LinesOf(listeners))
  BY <1>1 DEF Occurrences, Positions
<1> QED
  BY <1>2 DEF AskedInv

(* A LISTEN class that is accepted                                         *)
LEMMA AskedInvListen ==
  ASSUME EveryPortOnce, StartupInv, AskedInv, phase = "configuring" => AnyFree,
         NEW l \in ListenLines, LISTEN(l)
  PROVE  AskedInv'
<1> DEFINE made == classHandler(l).made
           its == LinesOf(listeners)
<1>1. /\ AnyFree /\ classHandler(l).ok
      /\ listeners' = made \o listeners /\ lines' = Append(lines, l)
  BY DEF LISTEN, addListeners
<1>2. made \in OpenedFor(l) /\ At(made, Asked(l))
  BY <1>1, ClassOpens, ClassAsks
<1> HIDE DEF made
<1>3. /\ made \in Seq(Sockets) /\ listeners \in Seq(Sockets)
      /\ lines \in Seq(ListenLines \cup ModuleLines)
      /\ \A i \in DOMAIN made : made[i].line = l /\ made[i].place \in Asked(l)
  BY <1>2 DEF OpenedFor, At, StartupInv, StartupTypes
<1>4. /\ Len(made) \in Nat /\ Len(listeners) \in Nat
      /\ DOMAIN listeners' = 1..(Len(made) + Len(listeners))
      /\ \A i \in 1..(Len(made) + Len(listeners)) :
           \/ i \in DOMAIN made /\ listeners'[i] = made[i]
           \/ i - Len(made) \in DOMAIN listeners /\ listeners'[i] = listeners[i - Len(made)]
  BY <1>1, <1>3
<1>5. its \in Seq(ListenLines) /\ LinesOf(listeners') = LinesOf(made) \o its
  BY <1>1, <1>3, LinesOfConcat
<1> SUFFICES ASSUME NEW m \in ListenLines
             PROVE  /\ \A i \in DOMAIN listeners' : listeners'[i].line = m
                                                      => listeners'[i].place \in Asked(m)
                    /\ Occurrences(m, LinesOf(listeners'))
                         = Occurrences(m, lines') * Cardinality(Asked(m))
  <2>1. \A m : Asked(m)' = Asked(m)
    BY DEF Asked, config, Named, Place
  <2> QED
    BY <2>1 DEF AskedInv, LinesOf, Occurrences, Positions
<1>6. ASSUME NEW i \in DOMAIN listeners', listeners'[i].line = m
      PROVE  listeners'[i].place \in Asked(m)
  BY <1>3, <1>4, <1>6 DEF AskedInv
<1>7. Occurrences(m, LinesOf(listeners')) = Occurrences(m, lines') * Cardinality(Asked(m))
  <2> DEFINE c == Cardinality(Asked(m))
             t == Occurrences(m, lines)
  <2>1. /\ LinesOf(made) \in Seq(ListenLines)
        /\ Occurrences(m, LinesOf(made)) = IF m = l THEN c ELSE 0
    BY <1>2, MadeAreCounted
  <2>2. Occurrences(m, LinesOf(listeners')) = Occurrences(m, LinesOf(made)) + Occurrences(m, its)
    <3> HIDE DEF its
    <3> QED
      BY <1>5, <2>1, OccurrencesOfConcat
  <2>3. Occurrences(m, lines') = t + IF m = l THEN 1 ELSE 0
    <3>1. lines' = lines \o <<l>> /\ <<l>> \in Seq(ListenLines \cup ModuleLines)
      BY <1>1, <1>3
    <3>2. Occurrences(m, lines') = t + Occurrences(m, <<l>>)
      BY <1>3, <3>1, OccurrencesOfConcat
    <3> HIDE DEF t
    <3> QED
      BY <3>2, OccurrencesInOne
  <2>4. c \in Nat /\ t \in Nat /\ Occurrences(m, its) = t * c
    BY <1>3, AskedIsFinite, PositionsAreFinite DEF AskedInv
  <2> HIDE DEF c, t, its
  <2>5. t + 0 = t /\ (t + 1) * c = t * c + c /\ t * c \in Nat
    BY <2>4
  <2>6. CASE m = l
    BY <2>1, <2>2, <2>3, <2>4, <2>5, <2>6 DEF c
  <2>7. CASE m # l
    BY <2>1, <2>2, <2>3, <2>4, <2>5, <2>7 DEF c
  <2> QED
    BY <2>6, <2>7
<1> QED
  BY <1>6, <1>7

(* A MODULE that is accepted is no LISTEN class.                           *)
LEMMA AskedInvModule ==
  ASSUME StartupInv, AskedInv, NEW l \in ModuleLines, classHandleModule(l)
  PROVE  AskedInv'
<1>1. /\ listeners' = listeners /\ lines' = lines \o <<l>>
      /\ lines \in Seq(ListenLines \cup ModuleLines)
      /\ <<l>> \in Seq(ListenLines \cup ModuleLines)
  BY DEF classHandleModule, StartupInv, StartupTypes
<1>2. ASSUME NEW m \in ListenLines
      PROVE  Occurrences(m, lines') = Occurrences(m, lines)
  <2>1. m # l
    BY StartupAssumption
  <2>2. Occurrences(m, lines \o <<l>>) = Occurrences(m, lines) + Occurrences(m, <<l>>)
    BY <1>1, OccurrencesOfConcat
  <2>3. Occurrences(m, <<l>>) = 0
    BY <2>1, OccurrencesInOne
  <2>4. Occurrences(m, lines) \in Nat
    BY <1>1, PositionsAreFinite
  <2> QED
    BY <1>1, <2>2, <2>3, <2>4
<1>3. \A m : Asked(m)' = Asked(m)
  BY DEF Asked, config, Named, Place
<1>4. LinesOf(listeners)' = LinesOf(listeners)
  BY <1>1 DEF LinesOf
<1>5. \A m : Occurrences(m, lines)' = Occurrences(m, lines')
             /\ Occurrences(m, LinesOf(listeners))' = Occurrences(m, LinesOf(listeners))
  BY <1>4 DEF Occurrences, Positions
<1> QED
  BY <1>1, <1>2, <1>3, <1>5 DEF AskedInv

(* The listeners themselves are made before the modules start, and no step *)
(* but startListeners touches them.                                        *)
LEMMA AskedInvNext ==
  ASSUME EveryPortOnce, StartupInv, AskedInv, phase = "configuring" => AnyFree,
         [StartupNext]_startupVars
  PROVE  AskedInv'
<1>1. ASSUME UNCHANGED <<listeners, lines>>
      PROVE  AskedInv'
  BY <1>1, AskedInvKept
<1>2. CASE Progress /\ ~startListeners
  <2>1. UNCHANGED <<listeners, lines>>
    BY <1>2 DEF Progress, initLibtoolFails, configure, initDaemon, initNetwork, initServer,
                background, closeStandard, startModule, modulesStarted
  <2> QED
    BY <1>1, <2>1
<1>3. CASE startListeners
  <2>1. /\ DOMAIN listeners' = DOMAIN listeners /\ lines' = lines
        /\ \A i \in DOMAIN listeners : /\ listeners'[i].line = listeners[i].line
                                       /\ listeners'[i].place = listeners[i].place
    <3>1. /\ lines' = lines /\ listeners \in Seq(Sockets)
          /\ \E b : listeners' = [i \in DOMAIN listeners |->
                                    [listeners[i] EXCEPT !.listening = b[i]]]
      <4> DEFINE Socket(i) == descriptors[listeners[i].fd] = "socket"
                 Earliest(i) == \A j \in 1..(i - 1) :
                                  Socket(j) => listeners[j].place # listeners[i].place
                 b == [i \in DOMAIN listeners |-> Socket(i) /\ Earliest(i)]
      <4>1. listeners' = [i \in DOMAIN listeners |->
                            [listeners[i] EXCEPT !.listening = b[i]]]
        BY <1>3 DEF startListeners, listenAll
      <4>2. lines' = lines /\ listeners \in Seq(Sockets)
        BY <1>3 DEF startListeners, StartupInv, StartupTypes
      <4> HIDE DEF b
      <4> QED
        BY <4>1, <4>2
    <3>2. \A x \in Sockets : \A y :
            /\ [x EXCEPT !.listening = y].line = x.line
            /\ [x EXCEPT !.listening = y].place = x.place
      BY DEF Sockets
    <3>3. \A i \in DOMAIN listeners : listeners[i] \in Sockets
      BY <3>1
    <3>4. PICK b : listeners' = [i \in DOMAIN listeners |->
                                  [listeners[i] EXCEPT !.listening = b[i]]]
      BY <3>1
    <3>5. /\ DOMAIN listeners' = DOMAIN listeners
          /\ \A i \in DOMAIN listeners :
               listeners'[i] = [listeners[i] EXCEPT !.listening = b[i]]
      BY <3>4
    <3>6. \A i \in DOMAIN listeners :
            /\ [listeners[i] EXCEPT !.listening = b[i]].line = listeners[i].line
            /\ [listeners[i] EXCEPT !.listening = b[i]].place = listeners[i].place
      BY <3>2, <3>3
    <3> QED
      BY <3>1, <3>5, <3>6, Zenon
  <2> QED
    BY <2>1, AskedInvKept
<1>4. CASE \E l \in ModuleLines : classHandleModule(l)
  BY <1>4, AskedInvModule
<1>5. CASE \E l \in ListenLines : LISTEN(l)
  BY <1>5, AskedInvListen
<1>6. CASE configurationFails \/ configurationCrashes \/ firstConnection \/ parseUSER \/ handOver
  <2>1. UNCHANGED <<listeners, lines>>
    BY <1>6 DEF configurationFails, configurationCrashes, firstConnection, parseUSER, handOver
  <2> QED
    BY <1>1, <2>1
<1>7. CASE UNCHANGED startupVars
  BY <1>1, <1>7 DEF startupVars
<1> QED
  BY <1>2, <1>3, <1>4, <1>5, <1>6, <1>7 DEF StartupNext, Progress

LEMMA AskedInvInit == StartupInit => AskedInv
<1> SUFFICES ASSUME StartupInit, NEW l \in ListenLines
             PROVE  /\ \A i \in DOMAIN listeners :
                         listeners[i].line = l => listeners[i].place \in Asked(l)
                    /\ Occurrences(l, LinesOf(listeners))
                         = Occurrences(l, lines) * Cardinality(Asked(l))
  BY DEF AskedInv
<1>1. listeners = <<>> /\ lines = <<>>
  BY DEF StartupInit
<1>2. LinesOf(listeners) = <<>>
  BY <1>1 DEF LinesOf
<1>3. Occurrences(l, <<>>) = 0 /\ Cardinality(Asked(l)) \in Nat
  BY OccurrencesInOne, AskedIsFinite
<1>4. Occurrences(l, lines) * Cardinality(Asked(l)) = 0
  BY <1>1, <1>3
<1> QED
  BY <1>1, <1>2, <1>3, <1>4

(* With a services database that gives no name one port twice, and a       *)
(* descriptor left whenever a class is read, every accepted LISTEN class   *)
(* has one listener at each place it asks for, each time it is given, and  *)
(* none elsewhere: the port that the loop over the services carries along  *)
(* is neither opened twice nor lost.                                       *)
THEOREM AskedListenersAreThere ==
  ASSUME EveryPortOnce
  PROVE  StartupSpec /\ [](phase = "configuring" => AnyFree) => []ListenersAreAsked
<1>1. AskedInv => ListenersAreAsked
  <2> SUFFICES ASSUME AskedInv, NEW l \in ListenLines
               PROVE  LET its == {i \in DOMAIN listeners : listeners[i].line = l}
                      IN /\ {listeners[i].place : i \in its} \subseteq Asked(l)
                         /\ Cardinality(its) = Times(l) * Cardinality(Asked(l))
    BY DEF ListenersAreAsked
  <2>1. Positions(l, LinesOf(listeners)) = {i \in DOMAIN listeners : listeners[i].line = l}
    BY DEF Positions, LinesOf
  <2>2. Occurrences(l, lines) = Times(l)
    BY DEF Occurrences, Positions, Times
  <2> QED
    BY <2>1, <2>2 DEF AskedInv, Occurrences
<1>2. AskedInv /\ StartupInv /\ (phase = "configuring" => AnyFree) /\ [StartupNext]_startupVars
        => AskedInv'
  BY AskedInvNext
<1> QED
  BY <1>1, <1>2, AskedInvInit, StartupInvariant, PTL DEF StartupSpec
=============================================================================
