------------------------------ MODULE Registry ------------------------------
(***************************************************************************)
(* The registry's list of users (src/lib/registry.cpp) with the two        *)
(* callers that change it: Server::addUser(), called by the constructor of *)
(* the user protocol, and User::quit(), called by the QUIT command.        *)
(*                                                                         *)
(* Not in the model: SERVERS_DONT_MATCH, since MyServer is the only server *)
(* that adds users and LocalUser::getServer() returns it; the lists of     *)
(* other entities, which are instances of the same templates; and          *)
(* changeUserNickname(), which no live code calls (User::changeNickname()  *)
(* returns before it).  myNetwork().userCount is changed by the same       *)
(* statements as the server's count, so one variable stands for both.      *)
(***************************************************************************)
EXTENDS Base

CONSTANTS
  MaxCount,     \* the largest value of a user counter: UINT_MAX in the build
  MaxStray      \* bound on the quits of users the list does not hold

ASSUME RegistryAssumption ==
  /\ MaxCount \in Nat \ {0}
  /\ Cardinality(Conns) <= MaxCount
  /\ MaxStray \in Nat

VARIABLES
  users,        \* the list: the user found under each key, or NoConn
  nickname,     \* the nickname of every user object constructed so far
  userCount,    \* Server::userCount, and the network's
  stray         \* history: how many quits found no entry to remove

registryVars == <<users, nickname, userCount, stray>>

RegistryInit ==
  /\ users = [k \in Keys |-> NoConn]
  /\ nickname = [u \in Conns |-> NoName]
  /\ userCount = 0
  /\ stray = 0
-----------------------------------------------------------------------------
(* Registry::findUser()                                                    *)
findUser(n) == users[IRCtoLower[n]]

(* Mutant: a counter that does not wrap.                                   *)
DecrementedBelowZero(count) == count - 1

(* PeakCount<unsigned int>: both directions wrap                           *)
Incremented(count) == IF count = MaxCount THEN 0 ELSE count + 1
Decremented(count) == IF count = 0 THEN MaxCount ELSE count - 1

(* Mutants: the check of the name, or of the list, is left out.            *)
addUserErrorAnyName(n) ==
  IF findUser(n) # NoConn THEN "ENTITY_EXISTS" ELSE "NO_ERROR"

addUserErrorReplaces(n) ==
  IF n \notin ValidNames THEN "INVALID_NAME" ELSE "NO_ERROR"

(* What Registry::addUser() returns for a user named n                     *)
addUserError(n) ==
  CASE n \notin ValidNames   -> "INVALID_NAME"
    [] n \in ValidNames /\ findUser(n) # NoConn -> "ENTITY_EXISTS"
    [] OTHER                 -> "NO_ERROR"

(* Mutant: a user that is refused is counted.                              *)
addUserCountsRefused(u, n) ==
  /\ nickname[u] = NoName
  /\ nickname' = [nickname EXCEPT ![u] = n]
  /\ userCount' = Incremented(userCount)
  /\ users' = [users EXCEPT ![IRCtoLower[n]] =
       IF addUserError(n) = "NO_ERROR" THEN u ELSE @]
  /\ UNCHANGED stray

(* The constructor of a user protocol names its user n and registers it    *)
(* with MyServer; a user that is refused exists all the same.              *)
addUser(u, n) ==
  /\ nickname[u] = NoName
  /\ nickname' = [nickname EXCEPT ![u] = n]
  /\ \/ /\ addUserError(n) = "NO_ERROR"
        /\ users' = [users EXCEPT ![IRCtoLower[n]] = u]
        /\ userCount' = Incremented(userCount)
     \/ /\ addUserError(n) # "NO_ERROR"
        /\ UNCHANGED <<users, userCount>>
  /\ UNCHANGED stray

(* What User::quit() returns                                               *)
quitError(u) ==
  IF findUser(nickname[u]) = NoConn THEN "UNREGISTERED_ENTITY" ELSE "NO_ERROR"

(* Mutant: the counters go down and the entry stays.                       *)
quitKeepsEntry(u) ==
  /\ nickname[u] # NoName
  /\ userCount' = Decremented(userCount)
  /\ UNCHANGED <<users, nickname, stray>>

(* User::quit(): the counters go down first, then the entry under the      *)
(* user's key is erased, whoever it points to.                             *)
quit(u) ==
  /\ nickname[u] # NoName
  /\ userCount' = Decremented(userCount)
  /\ \/ /\ findUser(nickname[u]) # NoConn
        /\ users' = [users EXCEPT ![IRCtoLower[nickname[u]]] = NoConn]
        /\ UNCHANGED stray
     \/ /\ findUser(nickname[u]) = NoConn
        /\ stray < MaxStray
        /\ stray' = stray + 1
        /\ UNCHANGED users
  /\ UNCHANGED nickname
-----------------------------------------------------------------------------
RegistryNext ==
  \E u \in Conns : quit(u) \/ \E n \in Names : addUser(u, n)

RegistrySpec == RegistryInit /\ [][RegistryNext]_registryVars
-----------------------------------------------------------------------------
(* The keys under which the list holds a user                              *)
Registered == {k \in Keys : users[k] # NoConn}

(* Every variable has its type.                                            *)
RegistryTypeOK ==
  /\ users \in [Keys -> Conns \cup {NoConn}]
  /\ nickname \in [Conns -> Names \cup {NoName}]
  /\ userCount \in 0..MaxCount
  /\ stray \in 0..MaxStray

(* The list holds a user under the fold of that user's own nickname, so    *)
(* that quit() looks where addUser() wrote, and no user is listed twice.   *)
KeysMatchNicknames ==
  \A k \in Registered :
    /\ nickname[users[k]] \in ValidNames
    /\ IRCtoLower[nickname[users[k]]] = k

(* The counters that LUSERS reports are the number of listed users, except *)
(* that every quit() that found no entry takes one off for good: refused   *)
(* additions, and any order of additions and removals, leave them in step. *)
(* "wraps" is how often a counter has gone below zero.                     *)
DriftIsStray ==
  \E wraps \in 0..MaxStray :
    userCount = Cardinality(Registered) - stray + wraps * (MaxCount + 1)

(* The registry is a directory: two users are never listed under one key,  *)
(* none is listed twice, and an entry is never handed from one user to     *)
(* another without a step in which nobody has it.                          *)
Listed == INSTANCE Directory WITH
  holder <- users, Holders <- Conns, Nobody <- NoConn

ImplementsDirectory == Listed!DirectorySpec
=============================================================================
