--------------------------- MODULE RegistryProofs ---------------------------
(***************************************************************************)
(* Theorems about the registry, for any set of users, any names and any    *)
(* folding of them.                                                        *)
(***************************************************************************)
EXTENDS Registry, FiniteSetTheorems, TLAPS

(* The types and the keys hold together: a quit finds an entry of type     *)
(* Conns, and an addition writes where the nickname says.                  *)
RegistryInv == RegistryTypeOK /\ KeysMatchNicknames

LEMMA RegistryInvInit == RegistryInit => RegistryInv
  BY BaseAssumption, RegistryAssumption
     DEF RegistryInit, RegistryInv, RegistryTypeOK, KeysMatchNicknames, Registered

(* Additions preserve the types and the keys.                              *)
LEMMA AddUserInv ==
  ASSUME RegistryInv, NEW u \in Conns, NEW n \in Names, addUser(u, n)
  PROVE  RegistryInv'
<1> USE BaseAssumption, RegistryAssumption DEF RegistryInv, addUser
<1>1. RegistryTypeOK'
  BY DEF RegistryTypeOK, Incremented
<1>2. CASE addUserError(n) = "NO_ERROR"
  <2>1. n \in ValidNames /\ users' = [users EXCEPT ![IRCtoLower[n]] = u]
    BY <1>2 DEF addUserError
  <2>2. SUFFICES ASSUME NEW k \in Keys, users'[k] # NoConn
                 PROVE  /\ nickname'[users'[k]] \in ValidNames
                        /\ IRCtoLower[nickname'[users'[k]]] = k
    BY <1>1 DEF KeysMatchNicknames, Registered
  <2>3. CASE k = IRCtoLower[n]
    BY <2>1, <2>3 DEF RegistryTypeOK
  <2>4. CASE k # IRCtoLower[n]
    <3>1. users'[k] = users[k] /\ users[k] \in Conns
      BY <2>1, <2>2, <2>4 DEF RegistryTypeOK
    <3>2. nickname[users[k]] \in ValidNames /\ IRCtoLower[nickname[users[k]]] = k
      BY <2>2, <3>1 DEF KeysMatchNicknames, Registered
    <3>3. users[k] # u
      BY <3>2
    <3> QED
      BY <3>1, <3>2, <3>3 DEF RegistryTypeOK
  <2> QED
    BY <2>3, <2>4
<1>3. CASE addUserError(n) # "NO_ERROR"
  <2>1. users' = users
    BY <1>3
  <2>2. \A k \in Registered : users[k] \in Conns /\ users[k] # u
    BY DEF RegistryTypeOK, KeysMatchNicknames, Registered
  <2> QED
    BY <1>1, <2>1, <2>2 DEF RegistryTypeOK, KeysMatchNicknames, Registered
<1> QED
  BY <1>1, <1>2, <1>3

(* Quits preserve them.                                                    *)
LEMMA QuitInv ==
  ASSUME RegistryInv, NEW u \in Conns, quit(u)
  PROVE  RegistryInv'
<1> USE BaseAssumption, RegistryAssumption DEF RegistryInv, quit
<1>1. RegistryTypeOK'
  BY DEF RegistryTypeOK, Decremented, findUser
<1>2. \A k \in Keys : users'[k] \in {users[k], NoConn}
  BY DEF RegistryTypeOK, findUser
<1>3. KeysMatchNicknames'
  BY <1>2 DEF KeysMatchNicknames, Registered
<1> QED
  BY <1>1, <1>3

LEMMA RegistryInvNext == RegistryInv /\ [RegistryNext]_registryVars => RegistryInv'
<1> SUFFICES ASSUME RegistryInv, [RegistryNext]_registryVars
             PROVE  RegistryInv'
  OBVIOUS
<1>1. CASE RegistryNext
  BY <1>1, AddUserInv, QuitInv DEF RegistryNext
<1>2. CASE UNCHANGED registryVars
  BY <1>2 DEF registryVars, RegistryInv, RegistryTypeOK, KeysMatchNicknames, Registered
<1> QED
  BY <1>1, <1>2

(* Every variable keeps its type, and every listed user is listed under    *)
(* the fold of its own, valid, nickname.                                   *)
LEMMA RegistryInvariant == RegistrySpec => []RegistryInv
  BY RegistryInvInit, RegistryInvNext, PTL DEF RegistrySpec

(* The registry's variables have their types and its list is keyed by the  *)
(* folds of its users' own nicknames (Registry::addUser, User::quit).      *)
THEOREM RegistryTypesAndKeys ==
  RegistrySpec => []RegistryTypeOK /\ []KeysMatchNicknames
  BY RegistryInvariant, PTL DEF RegistryInv
-----------------------------------------------------------------------------
(* A step of the registry is a step of the directory, or none of it.       *)
LEMMA DirectoryStep ==
  RegistryInv /\ [RegistryNext]_registryVars => [Listed!DirectoryNext]_users
<1> SUFFICES ASSUME RegistryInv, [RegistryNext]_registryVars, users' # users
             PROVE  Listed!DirectoryNext
  OBVIOUS
<1>1. PICK u \in Conns : quit(u) \/ \E n \in Names : addUser(u, n)
  BY DEF RegistryNext, registryVars
<1>2. CASE quit(u)
  <2> DEFINE k == IRCtoLower[nickname[u]]
  <2>1. k \in Keys
    BY <1>2, BaseAssumption DEF quit, RegistryInv, RegistryTypeOK
  <2>2. users[k] # NoConn /\ users' = [users EXCEPT ![k] = NoConn]
    BY <1>2 DEF quit, findUser
  <2> QED
    BY <2>1, <2>2 DEF Listed!DirectoryNext, Listed!Release
<1>3. CASE \E n \in Names : addUser(u, n)
  <2>1. PICK n \in Names : addUser(u, n)
    BY <1>3
  <2> DEFINE k == IRCtoLower[n]
  <2>2. addUserError(n) = "NO_ERROR" /\ users' = [users EXCEPT ![k] = u]
    BY <2>1 DEF addUser
  <2>3. k \in Keys /\ users[k] = NoConn
    BY <2>2, BaseAssumption DEF addUserError, findUser
  <2>4. nickname[u] \notin ValidNames
    BY <2>1, BaseAssumption DEF addUser
  <2>5. \A j \in Keys : users[j] # u
    BY <2>4, BaseAssumption DEF RegistryInv, KeysMatchNicknames, Registered
  <2> QED
    BY <2>2, <2>3, <2>5 DEF Listed!DirectoryNext, Listed!Claim
<1> QED
  BY <1>1, <1>2, <1>3

(* The registry is a directory: no user is listed twice, and no entry is   *)
(* handed from one user to another in one step.                            *)
THEOREM RegistryIsDirectory == RegistrySpec => ImplementsDirectory
<1>1. RegistryInit => Listed!DirectoryInit
  BY DEF RegistryInit, Listed!DirectoryInit
<1> QED
  BY <1>1, DirectoryStep, RegistryInvariant, PTL
     DEF RegistrySpec, ImplementsDirectory, Listed!DirectorySpec
-----------------------------------------------------------------------------
(* No more users are listed than a counter can count.                      *)
LEMMA RegisteredCardinality ==
  ASSUME RegistryInv
  PROVE  /\ IsFiniteSet(Registered)
         /\ Cardinality(Registered) \in 0..MaxCount
<1> DEFINE member == [k \in Registered |-> users[k]]
<1>1. member \in [Registered -> Conns]
  BY DEF RegistryInv, RegistryTypeOK, Registered
<1>2. \A j, k \in Registered : member[j] = member[k] => j = k
  BY DEF RegistryInv, KeysMatchNicknames
<1>3. member \in Injection(Registered, Conns)
  BY <1>1, <1>2 DEF Injection, IsInjective
<1>4. IsFiniteSet(Registered) /\ Cardinality(Registered) <= Cardinality(Conns)
  BY <1>3, FS_Injection, BaseAssumption
<1>5. Cardinality(Registered) \in Nat /\ Cardinality(Conns) \in Nat
  BY <1>4, FS_CardinalityType, BaseAssumption
<1> QED
  BY <1>4, <1>5, RegistryAssumption

(* An addition that succeeds lists one user more.                          *)
LEMMA AddUserCardinality ==
  ASSUME RegistryInv, NEW u \in Conns, NEW n \in Names, addUser(u, n)
  PROVE  Cardinality(Registered') =
           IF addUserError(n) = "NO_ERROR"
           THEN Cardinality(Registered) + 1 ELSE Cardinality(Registered)
<1>1. CASE addUserError(n) = "NO_ERROR"
  <2> DEFINE k == IRCtoLower[n]
  <2>1. k \in Keys /\ k \notin Registered /\ u # NoConn
    BY <1>1, BaseAssumption DEF addUserError, findUser, Registered
  <2>2. users' = [users EXCEPT ![k] = u]
    BY <1>1 DEF addUser
  <2>3. Registered' = Registered \cup {k}
    BY <2>1, <2>2 DEF Registered, RegistryInv, RegistryTypeOK
  <2> QED
    BY <1>1, <2>1, <2>3, RegisteredCardinality, FS_AddElement
<1>2. CASE addUserError(n) # "NO_ERROR"
  BY <1>2 DEF addUser, Registered
<1> QED
  BY <1>1, <1>2

(* A quit that finds an entry lists one user less.                         *)
LEMMA QuitCardinality ==
  ASSUME RegistryInv, NEW u \in Conns, quit(u)
  PROVE  \/ /\ Cardinality(Registered') = Cardinality(Registered) - 1
            /\ stray' = stray
         \/ /\ Cardinality(Registered') = Cardinality(Registered)
            /\ stray' = stray + 1 /\ stray < MaxStray
<1> DEFINE k == IRCtoLower[nickname[u]]
<1>1. CASE findUser(nickname[u]) # NoConn
  <2>1. k \in Registered
    BY <1>1, BaseAssumption
       DEF quit, findUser, Registered, RegistryInv, RegistryTypeOK
  <2>2. users' = [users EXCEPT ![k] = NoConn] /\ stray' = stray
    BY <1>1 DEF quit
  <2>3. Registered' = Registered \ {k}
    BY <2>1, <2>2 DEF Registered, RegistryInv, RegistryTypeOK
  <2> QED
    BY <2>1, <2>2, <2>3, RegisteredCardinality, FS_RemoveElement
<1>2. CASE findUser(nickname[u]) = NoConn
  BY <1>2 DEF quit, Registered
<1> QED
  BY <1>1, <1>2
-----------------------------------------------------------------------------
(* A counter of M + 1 values that is off by s has wrapped between no and s *)
(* times.                                                                  *)
LEMMA WrapBounds ==
  ASSUME NEW M \in Nat, NEW s \in Nat, NEW c \in 0..M, NEW x \in 0..M,
         NEW w \in Int, x = c - s + w * (M + 1)
  PROVE  w \in 0..s
<1>1. ASSUME w <= -1
      PROVE  FALSE
  <2>1. w * (M + 1) <= (-1) * (M + 1)
    BY <1>1
  <2> QED
    BY <2>1
<1>2. ASSUME w >= s + 1
      PROVE  FALSE
  <2>1. w * (M + 1) >= (s + 1) * (M + 1)
    BY <1>2
  <2>2. (s + 1) * (M + 1) = s * M + s + M + 1 /\ s * M >= 0
    OBVIOUS
  <2> QED
    BY <2>1, <2>2
<1> QED
  BY <1>1, <1>2

(* The counter after a step is right for some number of wraps.             *)
LEMMA CounterStep ==
  ASSUME NEW M \in Nat, NEW x \in 0..M, NEW y \in Int, NEW w \in Int,
         x = y + w * (M + 1)
  PROVE  /\ \E v \in Int :
               (IF x = M THEN 0 ELSE x + 1) = y + 1 + v * (M + 1)
         /\ \E v \in Int :
               (IF x = 0 THEN M ELSE x - 1) = y - 1 + v * (M + 1)
<1>1. /\ (w - 1) * (M + 1) = w * (M + 1) - (M + 1)
      /\ (w + 1) * (M + 1) = w * (M + 1) + (M + 1)
      /\ w * (M + 1) \in Int
  OBVIOUS
<1>2. \E v \in Int : (IF x = M THEN 0 ELSE x + 1) = y + 1 + v * (M + 1)
  <2>1. CASE x = M
    <3>1. w - 1 \in Int /\ 0 = y + 1 + (w - 1) * (M + 1)
      BY <1>1, <2>1
    <3> WITNESS w - 1 \in Int
    <3> QED
      BY <2>1, <3>1
  <2>2. CASE x # M
    <3>1. x + 1 = y + 1 + w * (M + 1)
      BY <1>1
    <3> QED
      BY <2>2, <3>1
  <2> QED
    BY <2>1, <2>2
<1>3. \E v \in Int : (IF x = 0 THEN M ELSE x - 1) = y - 1 + v * (M + 1)
  <2>1. CASE x = 0
    <3>1. w + 1 \in Int /\ M = y - 1 + (w + 1) * (M + 1)
      BY <1>1, <2>1
    <3> WITNESS w + 1 \in Int
    <3> QED
      BY <2>1, <3>1
  <2>2. CASE x # 0
    <3>1. x - 1 = y - 1 + w * (M + 1)
      BY <1>1
    <3> QED
      BY <2>2, <3>1
  <2> QED
    BY <2>1, <2>2
<1> QED
  BY <1>2, <1>3

(* What RegisteredCardinality says holds after a step as well.             *)
LEMMA RegisteredCardinalityNext ==
  (RegistryInv => Cardinality(Registered) \in 0..MaxCount)'
<1>1. RegistryInv => Cardinality(Registered) \in 0..MaxCount
  BY RegisteredCardinality
<1> QED
  BY <1>1, PTL

(* Steps keep the counters off by the stray quits.                         *)
LEMMA DriftStep ==
  ASSUME RegistryInv, DriftIsStray, [RegistryNext]_registryVars
  PROVE  DriftIsStray'
<1> DEFINE C == Cardinality(Registered)
<1>1. /\ RegistryInv'
      /\ C \in 0..MaxCount /\ C' \in 0..MaxCount
  BY RegistryInvNext, RegisteredCardinality, RegisteredCardinalityNext
<1>2. /\ MaxCount \in Nat
      /\ userCount \in 0..MaxCount /\ userCount' \in 0..MaxCount
      /\ stray \in Nat /\ stray' \in Nat /\ stray' \in 0..MaxStray
  BY <1>1, RegistryAssumption DEF RegistryInv, RegistryTypeOK
<1>3. PICK w \in Int : userCount = C - stray + w * (MaxCount + 1)
  BY DEF DriftIsStray
<1>4. \E v \in Int : userCount' = C' - stray' + v * (MaxCount + 1)
  <2> DEFINE y == C - stray
  <2>1. y \in Int /\ userCount = y + w * (MaxCount + 1)
    BY <1>1, <1>2, <1>3
  <2>2. /\ \E v \in Int : Incremented(userCount) = y + 1 + v * (MaxCount + 1)
        /\ \E v \in Int : Decremented(userCount) = y - 1 + v * (MaxCount + 1)
    BY <1>2, <2>1, CounterStep, ZenonT(40) DEF Incremented, Decremented
  <2>3. CASE UNCHANGED registryVars
    BY <1>3, <2>3 DEF registryVars, Registered
  <2>4. ASSUME NEW u \in Conns, NEW n \in Names, addUser(u, n)
        PROVE  \E v \in Int : userCount' = C' - stray' + v * (MaxCount + 1)
    <3>1. stray' = stray
      BY <2>4 DEF addUser
    <3>2. CASE addUserError(n) = "NO_ERROR"
      <4>1. userCount' = Incremented(userCount) /\ C' = C + 1
        BY <2>4, <3>2, AddUserCardinality DEF addUser
      <4>2. C' - stray' = y + 1
        BY <1>1, <1>2, <3>1, <4>1
      <4> QED
        BY <2>2, <4>1, <4>2
    <3>3. CASE addUserError(n) # "NO_ERROR"
      <4>1. userCount' = userCount /\ C' = C
        BY <2>4, <3>3, AddUserCardinality DEF addUser
      <4> QED
        BY <1>3, <3>1, <4>1
    <3> QED
      BY <3>2, <3>3
  <2>5. ASSUME NEW u \in Conns, quit(u)
        PROVE  \E v \in Int : userCount' = C' - stray' + v * (MaxCount + 1)
    <3>1. userCount' = Decremented(userCount)
      BY <2>5 DEF quit
    <3>2. C' - stray' = y - 1
      BY <1>1, <1>2, <2>5, QuitCardinality
    <3> QED
      BY <2>2, <3>1, <3>2
  <2> QED
    BY <2>3, <2>4, <2>5 DEF RegistryNext
<1>5. PICK v \in Int : userCount' = C' - stray' + v * (MaxCount + 1)
  BY <1>4
<1>6. v \in 0..stray'
  BY <1>1, <1>2, <1>5, WrapBounds
<1>7. v \in 0..MaxStray
  BY <1>2, <1>6, RegistryAssumption
<1> QED
  BY <1>5, <1>7 DEF DriftIsStray, C

(* Wherever the counter stands, it is off by the quits that found no entry,*)
(* as often as it has wrapped.                                             *)
THEOREM RegistryCounts == RegistrySpec => []DriftIsStray
<1>1. RegistryInit => DriftIsStray
  <2> SUFFICES ASSUME RegistryInit
               PROVE  DriftIsStray
    OBVIOUS
  <2>1. Registered = {} /\ stray = 0 /\ userCount = 0
    BY DEF RegistryInit, Registered
  <2>2. Cardinality(Registered) = 0
    BY <2>1, FS_EmptySet
  <2>3. 0 \in 0..MaxStray /\ userCount = Cardinality(Registered) - stray + 0 * (MaxCount + 1)
    BY <2>1, <2>2, RegistryAssumption
  <2> QED
    BY <2>3 DEF DriftIsStray
<1>2. RegistryInv /\ DriftIsStray /\ [RegistryNext]_registryVars => DriftIsStray'
  BY DriftStep
<1> QED
  BY <1>1, <1>2, RegistryInvariant, PTL DEF RegistrySpec

(* In particular, as long as every quit has found an entry, the counter is *)
(* the number of listed users.                                             *)
COROLLARY CountsListedUsers ==
  RegistrySpec => [](stray = 0 => userCount = Cardinality(Registered))
<1>1. RegistryInv /\ DriftIsStray => (stray = 0 => userCount = Cardinality(Registered))
  <2> SUFFICES ASSUME RegistryInv, DriftIsStray, stray = 0
               PROVE  userCount = Cardinality(Registered)
    OBVIOUS
  <2>1. Cardinality(Registered) \in 0..MaxCount /\ userCount \in 0..MaxCount
    BY RegisteredCardinality DEF RegistryInv, RegistryTypeOK
  <2>2. PICK w \in Int :
          userCount = Cardinality(Registered) - stray + w * (MaxCount + 1)
    BY DEF DriftIsStray
  <2>3. w \in 0..0
    BY <2>1, <2>2, WrapBounds, RegistryAssumption
  <2> QED
    BY <2>1, <2>2, <2>3, RegistryAssumption
<1> QED
  BY <1>1, RegistryInvariant, RegistryCounts, PTL
=============================================================================
