--------------------------- MODULE QueriesProofs ----------------------------
(***************************************************************************)
(* Theorems about Queries: whatever users ask, the registry they ask about *)
(* is the one of Registry.                                                 *)
(***************************************************************************)
EXTENDS Queries, RegistryProofs, Loops

(* The constructor of the user protocol adds its user, QUIT removes it, and*)
(* nothing that users ask changes the registry.                            *)
LEMMA QueriesRegistryStep == [Next]_vars => [RegistryNext]_registryVars
<1> SUFFICES ASSUME [Next]_vars
             PROVE  [RegistryNext]_registryVars
  OBVIOUS
<1>1. CASE UNCHANGED vars \/ sendOutput
  BY <1>1 DEF vars, sendOutput
<1>2. ASSUME NEW u \in Conns, NEW n \in Names, Connect(u, n)
      PROVE  RegistryNext
  BY <1>2 DEF Connect, RegistryNext
<1>3. ASSUME NEW u \in Conns, Lose(u) \/ handleAWAY(u) \/ handleLANGUAGE(u)
      PROVE  UNCHANGED registryVars
  BY <1>3 DEF Lose, handleAWAY, handleLANGUAGE
<1>4. ASSUME NEW u \in Conns, handleQUIT(u)
      PROVE  RegistryNext
  BY <1>4 DEF handleQUIT, RegistryNext
<1>5. ASSUME NEW u \in Conns, NEW line \in Lines, ask(u, line)
      PROVE  UNCHANGED registryVars
  BY <1>5 DEF ask
<1> QED
  BY <1>1, <1>2, <1>3, <1>4, <1>5 DEF Next

LEMMA QueriesImplementRegistry == Spec => RegistrySpec
<1>1. Init => RegistryInit
  BY DEF Init
<1> QED
  BY <1>1, QueriesRegistryStep, PTL DEF Spec, RegistrySpec

(* Whom clients find in the registry by a name is who has that name, in    *)
(* either spelling (Registry::findUser).                                   *)
THEOREM AskedByTheirKeys == Spec => []KeysMatchNicknames
  BY QueriesImplementRegistry, RegistryTypesAndKeys, PTL

(* LUSERS counts the users there are, less the quits that found nobody     *)
(* (User::quit).                                                           *)
THEOREM CountedByLUSERS == Spec => []DriftIsStray
  BY QueriesImplementRegistry, RegistryCounts, PTL

(* For those who ask, the registry is a directory: an entry is never handed*)
(* from one user to another (Registry::addUser, removeUser).               *)
THEOREM AskedOfADirectory == Spec => ImplementsDirectory
  BY QueriesImplementRegistry, RegistryIsDirectory, PTL
-----------------------------------------------------------------------------
(* The types, with what is kept of each user as a function                 *)
UsersOK ==
  /\ away \in [Conns -> BOOLEAN] /\ speaks \in [Conns -> BOOLEAN]

QueriesInv == RegistryInv /\ QueriesTypeOK /\ UsersOK

LEMMA QueriesInvInit == Init => QueriesInv
<1> SUFFICES ASSUME Init
             PROVE  QueriesInv
  OBVIOUS
<1>1. RegistryInv
  BY RegistryInvInit DEF Init
<1>2. QueriesTypeOK /\ UsersOK
  BY <1>1, BaseAssumption
     DEF RegistryInv, Init, RegistryInit, QueriesTypeOK, UsersOK, Nothing
<1> QED
  BY <1>1, <1>2 DEF QueriesInv

LEMMA QueriesInvNext == QueriesInv /\ [Next]_vars => QueriesInv'
<1> SUFFICES ASSUME QueriesInv, [Next]_vars
             PROVE  QueriesInv'
  OBVIOUS
<1>1. RegistryInv'
  BY QueriesRegistryStep, RegistryInvNext DEF QueriesInv
<1> USE <1>1 DEF QueriesInv, RegistryInv, QueriesTypeOK, UsersOK, registryVars, askVars
<1>2. CASE UNCHANGED vars
  BY <1>2 DEF vars
<1>3. CASE sendOutput
  BY <1>3 DEF sendOutput, Nothing
<1>4. ASSUME NEW u \in Conns, NEW n \in Names, Connect(u, n)
      PROVE  QueriesInv'
  <2>1. /\ phase' = [phase EXCEPT ![u] = "user"]
        /\ nickname' = [nickname EXCEPT ![u] = n] /\ n # NoName
        /\ speaks' = [speaks EXCEPT ![u] = (addUserError(n) = "NO_ERROR")]
        /\ asked'.of = u
        /\ UNCHANGED <<away, server, undefined>>
    BY <1>4, BaseAssumption DEF Connect, addUser
  <2>2. nickname \in [Conns -> Names \cup {NoName}]
    BY DEF RegistryTypeOK
  <2>3. (addUserError(n) = "NO_ERROR") \in BOOLEAN
    OBVIOUS
  <2>4. UsersOK'
    BY <2>1, <2>3
  <2>5. QueriesTypeOK'
    BY <2>1, <2>2, <2>4
  <2> QED
    BY <2>4, <2>5
<1>5. ASSUME NEW u \in Conns, Lose(u)
      PROVE  QueriesInv'
  BY <1>5 DEF Lose
<1>6. ASSUME NEW u \in Conns, handleAWAY(u) \/ handleLANGUAGE(u)
      PROVE  QueriesInv'
  BY <1>6 DEF handleAWAY, handleLANGUAGE
<1>7. ASSUME NEW u \in Conns, handleQUIT(u)
      PROVE  QueriesInv'
  BY <1>7 DEF handleQUIT, quit
<1>8. ASSUME NEW u \in Conns, NEW line \in Lines, ask(u, line)
      PROVE  QueriesInv'
  <2>1. /\ asked' = asked \/ asked'.of = u
        /\ undefined' \in BOOLEAN
        /\ UNCHANGED <<registryVars, phase, away, speaks, server>>
    <3>1. UNCHANGED <<registryVars, phase, away, speaks, server>>
      BY <1>8 DEF ask
    <3>2. \/ asked'.of = u /\ UNCHANGED undefined
          \/ undefined' = TRUE /\ UNCHANGED asked
      BY <1>8 DEF ask
    <3> QED
      BY <3>1, <3>2
  <2>2. asked'.of \in Conns \cup {NoConn}
    BY <2>1
  <2> QED
    BY <2>1, <2>2
<1> QED
  BY <1>2, <1>3, <1>4, <1>5, <1>6, <1>7, <1>8 DEF Next

(* Every variable keeps its type, and nobody who is not there is away or   *)
(* speaks a language, whoever is lost, quits or asks.                      *)
THEOREM QueriesAreTyped == Spec => []QueriesTypeOK
  BY QueriesInvInit, QueriesInvNext, PTL DEF Spec, QueriesInv
-----------------------------------------------------------------------------
(* s is a sequence of messages, and no numeric of F is among them.         *)
Without(s, F) ==
  /\ s \in Seq({s[i] : i \in DOMAIN s})
  /\ \A i \in DOMAIN s : s[i].numeric \notin F

LEMMA WithoutRows ==
  ASSUME NEW F, NEW n \in Nat, NEW f, f = [i \in 1..n |-> f[i]],
         \A i \in 1..n : f[i].numeric \notin F
  PROVE  Without(f, F)
<1> DEFINE X == {f[i] : i \in DOMAIN f}
<1>1. DOMAIN f = 1..n /\ \A i \in 1..n : f[i] \in X
  OBVIOUS
<1>2. f \in Seq(X)
  <2> HIDE DEF X
  <2> QED
    BY <1>1, SequenceOf
<1> QED
  BY <1>1, <1>2 DEF Without

LEMMA WithoutIs ==
  ASSUME NEW F, NEW X, NEW s \in Seq(X), \A m \in X : m.numeric \notin F
  PROVE  Without(s, F)
<1>1. Len(s) \in Nat /\ s = [i \in 1..Len(s) |-> s[i]] /\ \A i \in 1..Len(s) : s[i] \in X
  OBVIOUS
<1> QED
  BY <1>1, WithoutRows

LEMMA WithoutOne ==
  /\ \A F : Without(<<>>, F)
  /\ \A F, m : m.numeric \notin F => Without(<<m>>, F)
<1>1. ASSUME NEW F
      PROVE  Without(<<>>, F)
  <2> DEFINE f == <<>>
  <2>1. f = [i \in 1..0 |-> f[i]]
    OBVIOUS
  <2>2. \A i \in 1..0 : f[i].numeric \notin F
    OBVIOUS
  <2> HIDE DEF f
  <2>3. Without(f, F)
    BY <2>1, <2>2, WithoutRows
  <2> QED
    BY <2>3 DEF f
<1>2. ASSUME NEW F, NEW m, m.numeric \notin F
      PROVE  Without(<<m>>, F)
  <2> DEFINE f == <<m>>
  <2>1. f = [i \in 1..1 |-> f[i]] /\ f[1] = m
    OBVIOUS
  <2>2. \A i \in 1..1 : f[i].numeric \notin F
    BY <1>2, <2>1
  <2> HIDE DEF f
  <2>3. Without(f, F)
    BY <2>1, <2>2, WithoutRows
  <2> QED
    BY <2>3 DEF f
<1> QED
  BY <1>1, <1>2

LEMMA WithoutWhen ==
  \A F, c, m : c \in BOOLEAN /\ m.numeric \notin F => Without(When(c, m), F)
<1> SUFFICES ASSUME NEW F, NEW c \in BOOLEAN, NEW m, m.numeric \notin F
             PROVE  Without(When(c, m), F)
  OBVIOUS
<1>1. CASE c
  BY <1>1, WithoutOne DEF When
<1>2. CASE ~c
  BY <1>2, WithoutOne DEF When
<1> QED
  BY <1>1, <1>2

LEMMA WithoutConcat ==
  \A F, a, b : Without(a, F) /\ Without(b, F) => Without(a \o b, F)
<1> SUFFICES ASSUME NEW F, NEW a, NEW b, Without(a, F), Without(b, F)
             PROVE  Without(a \o b, F)
  OBVIOUS
<1> DEFINE A == {a[i] : i \in DOMAIN a}
           B == {b[i] : i \in DOMAIN b}
           X == A \cup B
<1>1. a \in Seq(A) /\ b \in Seq(B) /\ \A m \in X : m.numeric \notin F
  BY DEF Without
<1> HIDE DEF A, B
<1>2. a \o b \in Seq(X)
  <2>1. a \in Seq(X) /\ b \in Seq(X)
    BY <1>1
  <2> HIDE DEF X
  <2> QED
    BY <2>1
<1> QED
  BY <1>1, <1>2, WithoutIs

LEMMA WithoutFlatten ==
  ASSUME NEW F, NEW n \in Nat, NEW ss, ss = [i \in 1..n |-> ss[i]],
         \A i \in 1..n : Without(ss[i], F)
  PROVE  Without(FlattenSeq(ss), F)
<1> DEFINE In(i) == {ss[i][j] : j \in DOMAIN ss[i]}
           X == UNION {In(i) : i \in 1..n}
<1>1. \A i \in 1..n : ss[i] \in Seq(In(i)) /\ \A m \in In(i) : m.numeric \notin F
  BY DEF Without
<1> HIDE DEF In
<1>2. \A m \in X : m.numeric \notin F
  BY <1>1
<1>3. \A i \in 1..n : ss[i] \in Seq(X)
  BY <1>1
<1> HIDE DEF X
<1>4. ss \in Seq(Seq(X))
  <2> DEFINE Y == Seq(X)
  <2>1. \A i \in 1..n : ss[i] \in Y
    BY <1>3
  <2> HIDE DEF Y
  <2>2. ss \in Seq(Y)
    BY <2>1, SequenceOf
  <2> QED
    BY <2>2 DEF Y
<1>5. FlattenSeq(ss) \in Seq(X)
  BY <1>4, FlattenOver
<1> QED
  BY <1>2, <1>5, WithoutIs

(* A footer behind what has none                                           *)
LEMMA EndedOnce ==
  ASSUME NEW f, NEW a, Without(a, {f}), NEW r, r = a \o <<Told(f)>>
  PROVE  /\ r # <<>> /\ Len(r) \in Nat
         /\ {i \in DOMAIN r : r[i].numeric = f} = {Len(r)}
<1> DEFINE X == {a[i] : i \in DOMAIN a} \cup {Told(f)}
           n == Len(a)
<1>1. a \in Seq(X) /\ n \in Nat /\ DOMAIN a = 1..n
  <2>1. a \in Seq({a[i] : i \in DOMAIN a})
    BY DEF Without
  <2> DEFINE A == {a[i] : i \in DOMAIN a}
  <2> HIDE DEF A
  <2>2. a \in Seq(A)
    BY <2>1 DEF A
  <2>3. a \in Seq(A \cup {Told(f)})
    BY <2>2
  <2>4. n \in Nat /\ DOMAIN a = 1..n
    BY <2>2
  <2> QED
    BY <2>3, <2>4 DEF A
<1>2. Told(f) \in X /\ Told(f).numeric = f
  BY DEF Told
<1> HIDE DEF X
<1>3. /\ Len(r) = n + 1 /\ DOMAIN r = 1..(n + 1) /\ r[n + 1] = Told(f)
      /\ \A i \in 1..n : r[i] = a[i]
  BY <1>1, <1>2
<1>4. \A i \in 1..n : a[i].numeric # f
  BY <1>1 DEF Without
<1>5. \A i : i \in 1..(n + 1) <=> i \in 1..n \/ i = n + 1
  BY <1>1
<1>6. {i \in DOMAIN r : r[i].numeric = f} = {n + 1}
  BY <1>1, <1>2, <1>3, <1>4, <1>5
<1> QED
  BY <1>1, <1>3, <1>6
-----------------------------------------------------------------------------
(* The octets of tokens, one by one                                        *)
JoinStep == [p \in Int \X Nat |-> p[1] + 1 + p[2]]

LEMMA JoinedLoops ==
  ASSUME NEW there \in Int, NEW s \in Seq(Nat)
  PROVE  \E f \in [0..Len(s) -> Int] :
           Looping(f, there, JoinStep, s) /\ Joined(there, s) = f[Len(s)]
<1> DEFINE n == Len(s)
           After(f) == f = [i \in 0..n |-> IF i = 0 THEN there ELSE f[i - 1] + 1 + s[i]]
           octets == CHOOSE f : After(f)
<1>0. n \in Nat /\ \A i \in 1..n : s[i] \in Nat
  OBVIOUS
<1>1. \E f : After(f)
  <2>1. JoinStep \in [Int \X Nat -> Int]
    BY DEF JoinStep
  <2>2. PICK f \in [0..n -> Int] : Looping(f, there, JoinStep, s)
    BY <1>0, <2>1, LoopsRun
  <2>3. f = [i \in 0..n |-> IF i = 0 THEN there ELSE JoinStep[<<f[i - 1], s[i]>>]]
    BY <2>2 DEF Looping
  <2>4. ASSUME NEW i \in 0..n, i # 0
        PROVE  JoinStep[<<f[i - 1], s[i]>>] = f[i - 1] + 1 + s[i]
    <3>1. i - 1 \in 0..n /\ i \in 1..n
      BY <1>0, <2>4
    <3>2. f[i - 1] \in Int /\ s[i] \in Nat
      BY <1>0, <2>2, <3>1
    <3> QED
      BY <3>2 DEF JoinStep
  <2>5. After(f)
    <3>1. \A i \in 0..n :
            (IF i = 0 THEN there ELSE JoinStep[<<f[i - 1], s[i]>>])
              = (IF i = 0 THEN there ELSE f[i - 1] + 1 + s[i])
      BY <2>4
    <3> QED
      BY <2>3, <3>1
  <2> QED
    BY <2>5
<1>2. After(octets)
  BY <1>1
<1>3. Joined(there, s) = octets[n]
  BY DEF Joined
<1> HIDE DEF octets
<1>4. octets[0] = there /\ \A i \in 1..n : octets[i] = octets[i - 1] + 1 + s[i]
  <2>1. octets = [i \in 0..n |-> IF i = 0 THEN there ELSE octets[i - 1] + 1 + s[i]]
    BY <1>2
  <2>2. \A i \in 0..n : octets[i] = IF i = 0 THEN there ELSE octets[i - 1] + 1 + s[i]
    BY <2>1
  <2>3. 0 \in 0..n /\ \A i \in 1..n : i \in 0..n /\ i # 0
    BY <1>0
  <2> QED
    BY <2>2, <2>3
<1>5. \A i \in 0..n : octets[i] \in Int
  <2> DEFINE Typed == {i \in 0..n : octets[i] \in Int}
  <2>1. 0 \in Typed
    BY <1>0, <1>4
  <2>2. ASSUME NEW i \in 1..n, i - 1 \in Typed
        PROVE  i \in Typed
    <3>1. octets[i - 1] \in Int /\ s[i] \in Nat /\ i \in 0..n
      BY <1>0, <2>2
    <3>2. octets[i] = octets[i - 1] + 1 + s[i]
      BY <1>4
    <3> HIDE DEF Typed
    <3>3. octets[i] \in Int
      BY <3>1, <3>2
    <3> QED
      BY <3>1, <3>3 DEF Typed
  <2> HIDE DEF Typed
  <2>3. 0..n \subseteq Typed
    BY <1>0, <2>1, <2>2, RoundByRound
  <2> QED
    BY <2>3 DEF Typed
<1>6. octets \in [0..n -> Int]
  BY <1>2, <1>5
<1>7. Looping(octets, there, JoinStep, s)
  <2>1. ASSUME NEW i \in 0..n, i # 0
        PROVE  JoinStep[<<octets[i - 1], s[i]>>] = octets[i - 1] + 1 + s[i]
    BY <1>0, <1>5, <2>1 DEF JoinStep
  <2> QED
    BY <1>2, <2>1 DEF Looping
<1> QED
  BY <1>3, <1>6, <1>7

(* Every token counts, and what separates it: they are no fewer.           *)
LEMMA JoinedTyped ==
  ASSUME NEW there \in Int, NEW s \in Seq(Nat)
  PROVE  Joined(there, s) \in Int /\ Joined(there, s) >= there + Len(s)
<1> DEFINE n == Len(s)
<1>1. PICK f \in [0..n -> Int] : Looping(f, there, JoinStep, s) /\ Joined(there, s) = f[n]
  BY JoinedLoops
<1>2. n \in Nat /\ \A i \in 1..n : s[i] \in Nat
  OBVIOUS
<1> HIDE DEF n
<1>3. f[0] = there /\ \A i \in 1..n : f[i] = f[i - 1] + 1 + s[i]
  <2>1. f = [i \in 0..n |-> IF i = 0 THEN there ELSE JoinStep[<<f[i - 1], s[i]>>]]
    BY <1>1 DEF Looping, n
  <2>2. ASSUME NEW i \in 1..n
        PROVE  f[i] = f[i - 1] + 1 + s[i]
    <3>1. i \in 0..n /\ i - 1 \in 0..n /\ i # 0 /\ s[i] \in Nat
      BY <1>2
    <3>2. f[i] = JoinStep[<<f[i - 1], s[i]>>]
      BY <2>1, <3>1
    <3>3. f[i - 1] \in Int
      BY <1>1, <3>1
    <3> QED
      BY <3>1, <3>2, <3>3 DEF JoinStep
  <2>3. f[0] = there
    BY <1>2, <2>1
  <2> QED
    BY <2>2, <2>3
<1> DEFINE Enough == {i \in 0..n : f[i] >= there + i}
<1>4. 0 \in Enough
  BY <1>2, <1>3
<1>5. ASSUME NEW i \in 1..n, i - 1 \in Enough
      PROVE  i \in Enough
  <2>1. i \in 0..n /\ i - 1 \in 0..n /\ i \in Nat
    BY <1>2
  <2>2. f[i - 1] >= there + (i - 1) /\ f[i - 1] \in Int /\ s[i] \in Nat
    BY <1>1, <1>2, <1>5, <2>1
  <2>3. f[i] = f[i - 1] + 1 + s[i]
    BY <1>3
  <2>4. f[i] >= there + i
    BY <2>1, <2>2, <2>3
  <2> QED
    BY <2>1, <2>4
<1>6. n \in Enough
  <2> HIDE DEF Enough
  <2>1. 0..n \subseteq Enough
    BY <1>2, <1>4, <1>5, RoundByRound
  <2> QED
    BY <1>2, <2>1
<1> QED
  BY <1>1, <1>2, <1>6 DEF n

LEMMA JoinedByOne ==
  ASSUME NEW there \in Int, NEW s \in Seq(Nat), NEW x \in Nat
  PROVE  Joined(there, Append(s, x)) = Joined(there, s) + 1 + x
<1>1. PICK f \in [0..Len(s) -> Int] :
        Looping(f, there, JoinStep, s) /\ Joined(there, s) = f[Len(s)]
  BY JoinedLoops
<1>2. Append(s, x) \in Seq(Nat) /\ Len(Append(s, x)) = Len(s) + 1
  OBVIOUS
<1>3. PICK h \in [0..(Len(s) + 1) -> Int] :
        /\ Looping(h, there, JoinStep, Append(s, x))
        /\ Joined(there, Append(s, x)) = h[Len(s) + 1]
  BY <1>2, JoinedLoops
<1>4. h[Len(s) + 1] = JoinStep[<<f[Len(s)], x>>]
  <2>1. Looping(f, there, JoinStep, s) /\ Looping(h, there, JoinStep, Append(s, x))
    BY <1>1, <1>3
  <2> QED
    BY <2>1, LoopsGoOn
<1>5. Joined(there, s) \in Int
  BY JoinedTyped
<1> QED
  BY <1>1, <1>3, <1>4, <1>5 DEF JoinStep

LEMMA OctetsAre ==
  /\ Octets(<<>>) = 0
  /\ \A s \in Seq(Nat) : Octets(s) \in Nat /\ Octets(s) >= Len(s) - 1
  /\ \A x \in Nat : Octets(<<x>>) = x
  /\ \A s \in Seq(Nat), x \in Nat : s # <<>> => Octets(Append(s, x)) = Octets(s) + 1 + x
<1>1. Octets(<<>>) = 0
  BY DEF Octets
<1>2. ASSUME NEW s \in Seq(Nat)
      PROVE  Octets(s) \in Nat /\ Octets(s) >= Len(s) - 1
  <2>1. -1 \in Int /\ Len(s) \in Nat /\ (s # <<>> => Len(s) > 0)
    OBVIOUS
  <2>2. Joined(-1, s) \in Int /\ Joined(-1, s) >= (-1) + Len(s)
    BY <2>1, JoinedTyped
  <2> QED
    BY <2>1, <2>2 DEF Octets
<1>3. ASSUME NEW s \in Seq(Nat), NEW x \in Nat
      PROVE  Octets(Append(s, x)) = Joined(-1, s) + 1 + x
  <2>1. Append(s, x) # <<>> /\ -1 \in Int
    OBVIOUS
  <2>2. Joined(-1, Append(s, x)) = Joined(-1, s) + 1 + x
    BY <2>1, JoinedByOne
  <2> QED
    BY <2>1, <2>2 DEF Octets
<1>4. ASSUME NEW x \in Nat
      PROVE  Octets(<<x>>) = x
  <2>1. <<>> \in Seq(Nat) /\ Append(<<>>, x) = <<x>> /\ -1 \in Int /\ Len(<<>>) = 0
    OBVIOUS
  <2>2. PICK f \in [0..0 -> Int] : Looping(f, -1, JoinStep, <<>>) /\ Joined(-1, <<>>) = f[0]
    BY <2>1, JoinedLoops
  <2>3. Joined(-1, <<>>) = -1
    BY <2>1, <2>2 DEF Looping
  <2>4. Octets(<<x>>) = Joined(-1, <<>>) + 1 + x
    BY <1>3, <2>1
  <2> QED
    BY <2>3, <2>4
<1>5. ASSUME NEW s \in Seq(Nat), NEW x \in Nat, s # <<>>
      PROVE  Octets(Append(s, x)) = Octets(s) + 1 + x
  BY <1>3, <1>5 DEF Octets
<1> QED
  BY <1>1, <1>2, <1>4, <1>5
-----------------------------------------------------------------------------
(* The loop of sendISUPPORT() over the tokens t, where a message may have  *)
(* limit octets: what is in its hands after i rounds.  The count of tokens *)
(* is reset to none when there is one already, so that a message could have*)
(* one too many; but that one needs more tokens than there are, or so few  *)
(* octets in a message that it ends before.                                *)
Chunks == [sent : Seq(Seq(Nat)), output : Seq(Nat), params : Nat]

Row(row, j, t, limit) ==
  /\ row # <<>> \/ (j = 1 /\ t[1] > limit)
  /\ Len(row) <= 13
  /\ Len(row) = 1 \/ Octets(row) <= limit + 1

Chunked(s, t, limit, i) ==
  /\ s \in Chunks
  /\ FlattenSeq(s.sent) \o s.output = SubSeq(t, 1, i)
  /\ i = 0 => s.sent = <<>> /\ s.output = <<>>
  /\ i # 0 => s.output # <<>>
  /\ s.params <= 13
  /\ s.sent = <<>> => Len(s.output) = i /\ s.params = i
  /\ s.sent # <<>> => /\ s.params = Len(s.output) - 1
                      /\ Len(s.output) + Len(s.sent[1]) <= i
                      /\ Len(s.sent[1]) <= 1 => limit < 12
  /\ Len(s.output) <= 1 \/ Octets(s.output) <= limit + 1
  /\ \A j \in DOMAIN s.sent : Row(s.sent[j], j, t, limit)

(* The tokens of a server                                                  *)
Tokens(t) == t \in Seq(Nat) /\ Len(t) \in 2..15 /\ t[1] + t[2] <= 12

LEMMA ChunkEnds ==
  ASSUME NEW t, Tokens(t), NEW limit \in Nat, NEW i \in 1..(Len(t) + 1), NEW s,
         Chunked(s, t, limit, i - 1),
         i = Len(t) + 1 \/ s.params + 1 > 13 \/ Octets(s.output) + t[i] > limit
  PROVE  /\ Row(s.output, Len(s.sent) + 1, t, limit)
         /\ (s.sent = <<>> /\ Len(s.output) <= 1) => limit < 12
<1> DEFINE out == s.output
           m == Len(s.output)
           o == Octets(s.output)
           params == s.params
           sent == s.sent
<1>1. t \in Seq(Nat) /\ Len(t) \in 2..15 /\ t[1] + t[2] <= 12
  BY DEF Tokens
<1>2. /\ i \in Nat /\ i >= 1 /\ i <= 16 /\ t[1] \in Nat /\ t[2] \in Nat
      /\ i >= 3 \/ (i # Len(t) + 1 /\ t[i] \in Nat)
  <2>1. \A j \in 1..Len(t) : t[j] \in Nat
    BY <1>1
  <2>2. /\ i \in Nat /\ i >= 1 /\ i <= 16 /\ 1 \in 1..Len(t) /\ 2 \in 1..Len(t)
        /\ i >= 3 \/ (i # Len(t) + 1 /\ i \in 1..Len(t))
    <3> DEFINE n == Len(t)
    <3>1. n \in 2..15 /\ i \in 1..(n + 1)
      BY <1>1
    <3> HIDE DEF n
    <3>2. /\ i \in Nat /\ i >= 1 /\ i <= 16 /\ 1 \in 1..n /\ 2 \in 1..n
          /\ i >= 3 \/ (i # n + 1 /\ i \in 1..n)
      BY <3>1
    <3> QED
      BY <3>2 DEF n
  <2> QED
    BY <2>1, <2>2
<1>3. sent \in Seq(Seq(Nat)) /\ out \in Seq(Nat) /\ params \in Nat
  BY DEF Chunked, Chunks
<1>4. /\ FlattenSeq(sent) \o out = SubSeq(t, 1, i - 1)
      /\ i - 1 = 0 => sent = <<>> /\ out = <<>>
      /\ i - 1 # 0 => out # <<>>
      /\ params <= 13
      /\ sent = <<>> => m = i - 1 /\ params = i - 1
      /\ sent # <<>> => /\ params = m - 1
                        /\ m + Len(sent[1]) <= i - 1
                        /\ Len(sent[1]) <= 1 => limit < 12
      /\ m <= 1 \/ o <= limit + 1
  BY DEF Chunked
<1>5. /\ m \in Nat /\ (m = 0 <=> out = <<>>) /\ Len(sent) \in Nat
      /\ o \in Nat /\ o >= m - 1 /\ (out = <<>> => o = 0)
  <2>1. Len(sent) \in Nat
    BY <1>3
  <2>2. m \in Nat /\ (m = 0 <=> out = <<>>)
    BY <1>3
  <2> QED
    BY <1>3, <2>1, <2>2, OctetsAre
<1>6. i = Len(t) + 1 \/ params + 1 > 13 \/ o + t[i] > limit
  OBVIOUS
<1>7. (sent = <<>> /\ m = 1) => o = t[1]
  <2> SUFFICES ASSUME sent = <<>>, m = 1
               PROVE  o = t[1]
    OBVIOUS
  <2>1. FlattenSeq(sent) = <<>>
    <3>1. <<>> \in Seq(Seq(Nat)) /\ <<>> \in Seq(Nat)
      OBVIOUS
    <3> QED
      BY <3>1, FlattenByOne
  <2>2. i - 1 = 1
    BY <1>4
  <2>3. out = SubSeq(t, 1, 1)
    <3>1. <<>> \o out = out
      BY <1>3
    <3> QED
      BY <1>4, <2>1, <2>2, <3>1
  <2>4. SubSeq(t, 1, 1) = <<t[1]>>
    <3>1. 1 \in 1..Len(t) /\ SubSeq(t, 1, 1 - 1) = <<>>
      BY <1>1
    <3>2. SubSeq(t, 1, 1) = Append(SubSeq(t, 1, 1 - 1), t[1])
      BY <1>1, <3>1, SubSeqByOne
    <3>3. \A x \in Nat : Append(<<>>, x) = <<x>>
      OBVIOUS
    <3> QED
      BY <1>2, <3>1, <3>2, <3>3
  <2> QED
    BY <1>2, <2>3, <2>4, OctetsAre
<1>8. sent # <<>> => Len(sent[1]) \in Nat
  <2> SUFFICES ASSUME sent # <<>>
               PROVE  Len(sent[1]) \in Nat
    OBVIOUS
  <2> DEFINE Y == Seq(Nat)
  <2>1. sent \in Seq(Y)
    BY <1>3
  <2>2. sent[1] \in Y
    <3> HIDE DEF Y, sent
    <3> QED
      BY <2>1
  <2> QED
    BY <2>2
<1> HIDE DEF out, m, o, params, sent
<1>9. CASE sent = <<>>
  <2>1. m = i - 1 /\ params = i - 1
    BY <1>4, <1>9
  <2>2. out = <<>> => i = 1 /\ t[1] > limit /\ limit < 12
    BY <1>1, <1>2, <1>3, <1>5, <1>6, <2>1
  <2>3. m = 1 => limit < 12
    BY <1>1, <1>2, <1>5, <1>6, <1>7, <1>9, <2>1
  <2>4. Len(sent) = 0
    BY <1>9
  <2>5. m <= 13
    BY <1>2, <1>4, <2>1
  <2>6. m = 1 \/ o <= limit + 1
    BY <1>4, <1>5
  <2>7. m <= 1 => limit < 12
    BY <1>5, <2>2, <2>3
  <2> QED
    BY <2>2, <2>4, <2>5, <2>6, <2>7 DEF Row, out, m, o, sent
<1>10. CASE sent # <<>>
  <2>1. /\ params = m - 1 /\ m + Len(sent[1]) <= i - 1
        /\ Len(sent[1]) <= 1 => limit < 12
    BY <1>4, <1>10
  <2>2. out # <<>> /\ m # 0
    BY <1>2, <1>4, <1>5, <1>10
  <2>3. m <= 13
    <3> SUFFICES ASSUME m = 14
                 PROVE  FALSE
      BY <1>3, <1>4, <1>5, <2>1
    <3>1. Len(sent[1]) <= 1
      BY <1>2, <1>8, <1>10, <2>1
    <3> QED
      BY <1>4, <1>5, <2>1, <3>1
  <2>4. m = 1 \/ o <= limit + 1
    BY <1>4, <1>5, <2>2
  <2> QED
    BY <1>10, <2>2, <2>3, <2>4 DEF Row, out, m, o, sent
<1> QED
  BY <1>9, <1>10

LEMMA ChunkStep ==
  ASSUME NEW t, Tokens(t), NEW limit \in Nat, NEW i \in 1..Len(t), NEW s,
         Chunked(s, t, limit, i - 1)
  PROVE  Chunked(chunk(s, t[i], limit), t, limit, i)
<1> DEFINE out == s.output
           m == Len(s.output)
           params == s.params
           sent == s.sent
           x == t[i]
           purge == params + 1 > 13 \/ Octets(out) + x > limit
           next == chunk(s, x, limit)
<1>1. t \in Seq(Nat) /\ i \in Nat /\ i # 0 /\ x \in Nat
  <2>1. t \in Seq(Nat) /\ i \in Nat /\ i # 0
    BY DEF Tokens
  <2> QED
    BY <2>1
<1>2. /\ sent \in Seq(Seq(Nat)) /\ out \in Seq(Nat) /\ params \in Nat /\ m \in Nat
      /\ m = 0 <=> out = <<>>
  BY DEF Chunked, Chunks
<1>3. /\ FlattenSeq(sent) \o out = SubSeq(t, 1, i - 1)
      /\ i - 1 = 0 => sent = <<>> /\ out = <<>>
      /\ i - 1 # 0 => out # <<>>
      /\ sent = <<>> => m = i - 1 /\ params = i - 1
      /\ sent # <<>> => /\ params = m - 1
                        /\ m + Len(sent[1]) <= i - 1
                        /\ Len(sent[1]) <= 1 => limit < 12
      /\ m <= 1 \/ Octets(out) <= limit + 1
      /\ \A j \in DOMAIN sent : Row(sent[j], j, t, limit)
  BY DEF Chunked
<1>4. SubSeq(t, 1, i) = Append(FlattenSeq(sent) \o out, x)
  BY <1>1, <1>3, SubSeqByOne
<1>5. FlattenSeq(sent) \in Seq(Nat)
  BY <1>2, FlattenOver
<1>6. CASE purge
  <2>1. next = [sent |-> Append(sent, out), output |-> <<x>>, params |-> 0]
    <3>1. s.params + 1 > maxParams - 2 \/ Octets(s.output) + t[i] > limit
      BY <1>6 DEF maxParams
    <3> QED
      BY <3>1 DEF chunk
  <2>2. /\ Row(out, Len(sent) + 1, t, limit)
        /\ (sent = <<>> /\ m <= 1) => limit < 12
    <3>1. i \in 1..(Len(t) + 1)
      BY <1>1
    <3>2. s.params + 1 > 13 \/ Octets(s.output) + t[i] > limit
      BY <1>6
    <3> QED
      BY <3>1, <3>2, ChunkEnds
  <2> HIDE DEF next, out, m, params, sent, x, purge
  <2> DEFINE Y == Seq(Nat)
             more == Append(sent, out)
  <2>3. /\ more \in Seq(Y) /\ Len(more) = Len(sent) + 1 /\ DOMAIN more = 1..(Len(sent) + 1)
        /\ more[Len(sent) + 1] = out /\ more # <<>> /\ Len(sent) \in Nat
        /\ DOMAIN sent = 1..Len(sent) /\ \A j \in 1..Len(sent) : more[j] = sent[j]
    <3>1. sent \in Seq(Y) /\ out \in Y
      BY <1>2
    <3> HIDE DEF Y
    <3> QED
      BY <3>1
  <2>4. FlattenSeq(more) = FlattenSeq(sent) \o out
    BY <1>2, FlattenByOne
  <2>5. FlattenSeq(more) \o <<x>> = SubSeq(t, 1, i)
    <3> DEFINE whole == FlattenSeq(sent) \o out
    <3>1. whole \in Seq(Nat)
      BY <1>2, <1>5
    <3> HIDE DEF whole
    <3>2. whole \o <<x>> = Append(whole, x)
      BY <1>1, <3>1
    <3> QED
      BY <1>4, <2>4, <3>2 DEF whole
  <2>6. next \in Chunks /\ next.sent = more /\ next.output = <<x>> /\ next.params = 0
    <3>1. <<x>> \in Seq(Nat) /\ more \in Seq(Seq(Nat)) /\ 0 \in Nat
      BY <1>1, <2>3
    <3> HIDE DEF more
    <3> QED
      BY <2>1, <3>1 DEF Chunks, more
  <2>7. Len(<<x>>) = 1 /\ <<x>> # <<>>
    OBVIOUS
  <2>8. 1 + Len(more[1]) <= i /\ (Len(more[1]) <= 1 => limit < 12)
    <3>1. CASE sent = <<>>
      <4>1. more[1] = out /\ m = i - 1
        <5>1. Len(sent) + 1 = 1
          BY <3>1
        <5>2. more[1] = out
          BY <2>3, <5>1
        <5> HIDE DEF more
        <5> QED
          BY <1>3, <3>1, <5>2
      <4> HIDE DEF more
      <4> QED
        BY <1>1, <1>2, <2>2, <3>1, <4>1 DEF m, out
    <3>2. CASE sent # <<>>
      <4>1. 1 \in 1..Len(sent)
        <5>1. Len(sent) # 0
          BY <1>2, <3>2
        <5> QED
          BY <2>3, <5>1
      <4>2. more[1] = sent[1]
        <5> HIDE DEF more
        <5> QED
          BY <2>3, <4>1
      <4>3. sent[1] \in Y
        <5>1. sent \in Seq(Y)
          BY <1>2
        <5> HIDE DEF Y
        <5> QED
          BY <4>1, <5>1
      <4>4. Len(sent[1]) \in Nat
        BY <4>3
      <4>5. /\ params = m - 1 /\ m + Len(sent[1]) <= i - 1
            /\ Len(sent[1]) <= 1 => limit < 12
        BY <1>3, <3>2
      <4> HIDE DEF more, Y
      <4> QED
        BY <1>1, <1>2, <4>2, <4>4, <4>5
    <3> QED
      BY <3>1, <3>2
  <2>9. \A j \in DOMAIN more : Row(more[j], j, t, limit)
    <3> HIDE DEF more
    <3> TAKE j \in DOMAIN more
    <3>1. j \in 1..Len(sent) \/ j = Len(sent) + 1
      BY <2>3
    <3>2. CASE j \in 1..Len(sent)
      BY <1>3, <2>3, <3>2
    <3>3. CASE j = Len(sent) + 1
      BY <2>2, <2>3, <3>3
    <3> QED
      BY <3>1, <3>2, <3>3
  <2>10. Len(<<x>>) <= 1
    BY <2>7
  <2> HIDE DEF more
  <2>11. next.params <= 13 /\ next.params = Len(next.output) - 1
    BY <2>6, <2>7
  <2> QED
    BY <1>1, <2>3, <2>5, <2>6, <2>7, <2>8, <2>9, <2>10, <2>11 DEF Chunked, next, x
<1>7. CASE ~purge
  <2>1. next = [sent |-> sent, output |-> Append(out, x), params |-> params + 1]
    BY <1>7 DEF chunk, maxParams
  <2>2. ~(params + 1 > 13) /\ ~(Octets(out) + x > limit)
    BY <1>7
  <2>3. Octets(out) \in Nat /\ (out # <<>> => Octets(Append(out, x)) = Octets(out) + 1 + x)
    BY <1>1, <1>2, OctetsAre
  <2>0. m = Len(out)
    OBVIOUS
  <2> HIDE DEF next, out, m, params, sent, x, purge
  <2> DEFINE more == Append(out, x)
  <2>4. more \in Seq(Nat) /\ Len(more) = m + 1 /\ more # <<>>
    <3>1. \A a \in Seq(Nat), b \in Nat :
            /\ Append(a, b) \in Seq(Nat) /\ Len(Append(a, b)) = Len(a) + 1
            /\ Append(a, b) # <<>>
      OBVIOUS
    <3>2. out \in Seq(Nat) /\ x \in Nat
      BY <1>1, <1>2
    <3> QED
      BY <2>0, <3>1, <3>2
  <2>5. FlattenSeq(sent) \o more = SubSeq(t, 1, i)
    <3>1. FlattenSeq(sent) \o Append(out, x) = Append(FlattenSeq(sent) \o out, x)
      <4>1. FlattenSeq(sent) \in Seq(Nat) /\ out \in Seq(Nat) /\ x \in Nat
        BY <1>1, <1>2, <1>5
      <4>2. \A a \in Seq(Nat), b \in Seq(Nat), c \in Nat : a \o Append(b, c) = Append(a \o b, c)
        BY ConcatAppend
      <4> QED
        BY <4>1, <4>2
    <3> QED
      BY <1>4, <3>1
  <2>6. Len(more) <= 1 \/ Octets(more) <= limit + 1
    <3>1. CASE out = <<>>
      BY <1>2, <2>4, <3>1
    <3>2. CASE out # <<>>
      BY <1>1, <2>2, <2>3, <3>2
    <3> QED
      BY <3>1, <3>2
  <2> HIDE DEF more
  <2>7. next \in Chunks /\ next.sent = sent /\ next.output = more /\ next.params = params + 1
    BY <1>2, <2>1, <2>4 DEF Chunks, more
  <2>8. next.params <= 13
    BY <1>2, <2>2, <2>7
  <2>9. sent = <<>> => Len(more) = i /\ params + 1 = i
    BY <1>1, <1>2, <1>3, <2>4
  <2>10. sent # <<>> => params + 1 = Len(more) - 1 /\ Len(more) + Len(sent[1]) <= i
    <3> SUFFICES ASSUME sent # <<>>
                 PROVE  params + 1 = Len(more) - 1 /\ Len(more) + Len(sent[1]) <= i
      OBVIOUS
    <3>1. Len(sent[1]) \in Nat
      <4> DEFINE Y == Seq(Nat)
      <4>1. sent \in Seq(Y)
        BY <1>2
      <4>2. sent[1] \in Y
        <5> HIDE DEF Y
        <5> QED
          BY <4>1
      <4> QED
        BY <4>2
    <3>2. params = m - 1 /\ m + Len(sent[1]) <= i - 1
      BY <1>3
    <3>3. m \in Nat /\ i \in Nat /\ params \in Nat /\ Len(more) = m + 1
      BY <1>1, <1>2, <2>4
    <3> DEFINE k == Len(sent[1])
               l == Len(more)
    <3>4. k \in Nat /\ params = m - 1 /\ m + k <= i - 1 /\ l = m + 1
      BY <3>1, <3>2, <3>3
    <3> HIDE DEF k, l
    <3>5. params + 1 = l - 1 /\ l + k <= i
      BY <3>3, <3>4
    <3> QED
      BY <3>5 DEF k, l
  <2>11. (sent # <<>> /\ Len(sent[1]) <= 1) => limit < 12
    BY <1>3
  <2> QED
    BY <1>1, <1>3, <2>4, <2>5, <2>6, <2>7, <2>8, <2>9, <2>10, <2>11 DEF Chunked, next, x
<1> QED
  BY <1>6, <1>7

LEMMA WidthIs ==
  ASSUME NEW n \in Nat, n < 10 ^ 9
  PROVE  Width(n) \in Nat
<1> DEFINE S == {k \in 1..9 : n < 10 ^ k}
<1>1. S \subseteq Nat /\ 9 \in S
  OBVIOUS
<1> HIDE DEF S
<1>2. S # {}
  BY <1>1
<1>3. Min(S) \in S
  BY <1>1, <1>2, MinOfNumbers
<1> QED
  BY <1>1, <1>3 DEF Width, S

(* The tokens of a server are those of the loop.                           *)
LEMMA InfoIsTokens ==
  ASSUME NEW s \in Servers
  PROVE  Tokens(initInfo(s))
<1>1. /\ \A n \in Limits(s) : n \in Nat /\ n < 10 ^ 9
      /\ s.networkName \in Seq(Nat) /\ s.languages \in Seq(Nat)
  BY QueriesAssumption
<1>2. /\ Width(s.maxLanguages) \in Nat /\ Width(s.maxNickNameLength) \in Nat
      /\ Width(s.maxChannelNameLength) \in Nat /\ Width(s.maxChannels) \in Nat
  BY <1>1, WidthIs DEF Limits
<1>3. languageInfo(s) \in Nat
  <2> DEFINE there == 9 + Width(s.maxLanguages) + 1
  <2>1. there \in Nat
    BY <1>2
  <2> HIDE DEF there
  <2>2. Joined(there, s.languages) \in Int /\ Joined(there, s.languages) >= there + Len(s.languages)
    BY <1>1, <2>1, JoinedTyped
  <2>3. Len(s.languages) \in Nat
    BY <1>1
  <2>4. Joined(there, s.languages) \in Nat
    BY <2>1, <2>2, <2>3
  <2> QED
    BY <2>4 DEF languageInfo, there
<1> DEFINE a == preInitInfo
           b == <<8 + Width(s.maxNickNameLength), 11 + Width(s.maxChannelNameLength),
                  12 + Width(s.maxChannels)>>
           c == IF s.networkName = <<>> THEN <<>> ELSE <<8 + Len(s.networkName)>>
           d == <<languageInfo(s)>>
<1>4. a \in Seq(Nat) /\ Len(a) = 10 /\ a[1] = 7 /\ a[2] = 3
  BY DEF preInitInfo
<1>5. b \in Seq(Nat) /\ Len(b) = 3
  BY <1>2
<1>6. c \in Seq(Nat) /\ Len(c) \in 0..1
  <2>1. 8 + Len(s.networkName) \in Nat
    BY <1>1
  <2> HIDE DEF b, d
  <2>2. CASE s.networkName = <<>>
    BY <2>2
  <2>3. CASE s.networkName # <<>>
    BY <2>1, <2>3
  <2> QED
    BY <2>2, <2>3
<1>7. d \in Seq(Nat) /\ Len(d) = 1
  BY <1>3
<1>8. initInfo(s) = ((a \o b) \o c) \o d
  BY DEF initInfo
<1> HIDE DEF a, b, c, d
<1> DEFINE Begins(x, n) == x \in Seq(Nat) /\ Len(x) = n /\ n >= 2 /\ x[1] = 7 /\ x[2] = 3
<1>9. ASSUME NEW x, NEW m \in Nat, Begins(x, m), NEW y \in Seq(Nat), NEW n \in Nat, Len(y) = n
      PROVE  Begins(x \o y, m + n)
  <2>1. x \o y \in Seq(Nat) /\ Len(x \o y) = m + n
    <3>1. \A p, q \in Seq(Nat) : p \o q \in Seq(Nat) /\ Len(p \o q) = Len(p) + Len(q)
      OBVIOUS
    <3>2. x \in Seq(Nat) /\ Len(x) = m
      BY <1>9
    <3> QED
      BY <1>9, <3>1, <3>2
  <2>2. \A k \in 1..m : (x \o y)[k] = x[k]
    BY <1>9
  <2>3. 1 \in 1..m /\ 2 \in 1..m /\ m + n >= 2
    BY <1>9
  <2> QED
    BY <1>9, <2>1, <2>2, <2>3
<1>10. Begins(a, 10)
  BY <1>4
<1>11. \A n \in Nat : Begins(initInfo(s), n) /\ n <= 15 => Tokens(initInfo(s))
  <2> TAKE n \in Nat
  <2>1. 7 + 3 <= 12
    OBVIOUS
  <2> QED
    BY <2>1 DEF Tokens
<1> HIDE DEF Begins
<1>12. Begins(a \o b, 10 + 3)
  BY <1>5, <1>9, <1>10
<1> DEFINE l == Len(c)
<1>13. l \in 0..1
  BY <1>6
<1>14. Begins((a \o b) \o c, (10 + 3) + l)
  <2>1. l \in Nat /\ 10 + 3 \in Nat
    BY <1>13
  <2> QED
    BY <1>6, <1>9, <1>12, <2>1
<1> HIDE DEF l
<1>15. Begins(initInfo(s), ((10 + 3) + l) + 1)
  <2>1. (10 + 3) + l \in Nat /\ 1 \in Nat
    BY <1>13
  <2> QED
    BY <1>7, <1>8, <1>9, <1>14, <2>1
<1>16. ((10 + 3) + l) + 1 \in Nat /\ ((10 + 3) + l) + 1 <= 15
  BY <1>13
<1> QED
  BY <1>11, <1>15, <1>16

LEMMA LimitIs ==
  ASSUME server \in Servers, NEW n \in Names
  PROVE  maxOutputLength(n) \in Nat
<1>1. Len(Spelling[n]) \in Nat /\ Len(server.serverName) \in Nat
  <2>1. Spelling[n] \in Seq(Nat) /\ server.serverName \in Seq(Nat)
    BY QueriesAssumption
  <2> QED
    BY <2>1
<1> DEFINE d == maxMessageSize - SuffixLength - Len(Spelling[n]) - Len(server.serverName) - 10
<1>2. d \in Int /\ MaxUnsigned + 1 \in Nat /\ MaxUnsigned + 1 > 0
  BY <1>1, QueriesAssumption DEF maxMessageSize
<1>3. \A x \in Int, y \in Nat : y > 0 => x % y \in Nat
  OBVIOUS
<1> HIDE DEF d
<1>4. d % (MaxUnsigned + 1) \in Nat
  BY <1>2, <1>3
<1> QED
  BY <1>4 DEF maxOutputLength, d

(* What the loop sends, and what is left in its buffer, are rows of tokens *)
(* as they should be.                                                      *)
RowsOf(rows, t, limit) ==
  /\ rows \in Seq(Seq(Nat)) /\ rows # <<>>
  /\ FlattenSeq(rows) = t
  /\ \A j \in 1..Len(rows) : Row(rows[j], j, t, limit)

LEMMA ChunkTyped ==
  ASSUME NEW limit \in Nat, NEW s \in Chunks, NEW x \in Nat
  PROVE  chunk(s, x, limit) \in Chunks
<1> DEFINE Y == Seq(Nat)
           sent == s.sent
           output == s.output
<1>1. sent \in Seq(Y) /\ output \in Y /\ s.params \in Nat
  BY DEF Chunks
<1>2. Append(sent, output) \in Seq(Y)
  <2> HIDE DEF Y, sent, output
  <2> QED
    BY <1>1
<1>3. <<x>> \in Y /\ Append(output, x) \in Y
  <2>1. <<x>> \in Y
    OBVIOUS
  <2>2. \A a \in Seq(Nat) : Append(a, x) \in Seq(Nat)
    OBVIOUS
  <2> QED
    BY <1>1, <2>1, <2>2
<1>4. s.params + 1 \in Nat /\ 0 \in Nat
  BY <1>1
<1> DEFINE purge == s.params + 1 > maxParams - 2 \/ Octets(output) + x > limit
<1>5. chunk(s, x, limit) =
        [sent |-> IF purge THEN Append(sent, output) ELSE sent,
         output |-> IF purge THEN <<x>> ELSE Append(output, x),
         params |-> IF purge THEN 0 ELSE s.params + 1]
  BY DEF chunk
<1> HIDE DEF purge, Y, sent, output
<1>6. Chunks = [sent : Seq(Y), output : Y, params : Nat]
  BY DEF Chunks, Y
<1> QED
  BY <1>1, <1>2, <1>3, <1>4, <1>5, <1>6

LEMMA LoopSendsRows ==
  ASSUME NEW t, Tokens(t), NEW limit \in Nat, NEW first,
         first = [sent |-> <<>>, output |-> <<>>, params |-> 0],
         NEW after, after = [i \in 0..Len(t) |->
                               IF i = 0 THEN first ELSE chunk(after[i - 1], t[i], limit)],
         NEW end, end = after[Len(t)]
  PROVE  RowsOf(end.sent \o When(end.output # <<>>, end.output), t, limit)
<1> DEFINE n == Len(t)
           Right == {i \in 0..n : Chunked(after[i], t, limit, i)}
<1>1. t \in Seq(Nat) /\ n \in Nat /\ n >= 2
  <2>1. t \in Seq(Nat) /\ Len(t) \in 2..15
    BY DEF Tokens
  <2> QED
    BY <2>1
<1>2. after[0] = first /\ \A i \in 1..n : after[i] = chunk(after[i - 1], t[i], limit)
  <2> HIDE DEF n
  <2>1. after = [i \in 0..n |-> IF i = 0 THEN first ELSE chunk(after[i - 1], t[i], limit)]
    BY DEF n
  <2>2. 0 \in 0..n /\ \A i \in 1..n : i \in 0..n /\ i # 0
    BY <1>1
  <2> QED
    BY <2>1, <2>2
<1>3. 0 \in Right
  <2>1. /\ <<>> \in Seq(Seq(Nat)) /\ <<>> \in Seq(Nat) /\ 0 \in Nat
        /\ Len(<<>>) = 0 /\ <<>> \o <<>> = <<>> /\ DOMAIN <<>> = {}
    OBVIOUS
  <2>2. FlattenSeq(<<>>) = <<>>
    BY <2>1, FlattenByOne
  <2>3. SubSeq(t, 1, 0) = <<>>
    BY <1>1
  <2>4. first \in Chunks /\ first.sent = <<>> /\ first.output = <<>> /\ first.params = 0
    BY <2>1 DEF Chunks
  <2>5. 0 \in 0..n /\ 0 <= 13 /\ 0 <= 1
    BY <1>1
  <2> QED
    BY <1>2, <2>1, <2>2, <2>3, <2>4, <2>5 DEF Chunked
<1>4. ASSUME NEW i \in 1..n, i - 1 \in Right
      PROVE  i \in Right
  <2>1. i \in 0..n
    BY <1>1
  <2>2. Chunked(after[i - 1], t, limit, i - 1)
    BY <1>4
  <2>3. Chunked(chunk(after[i - 1], t[i], limit), t, limit, i)
    BY <2>2, ChunkStep
  <2> QED
    BY <1>2, <2>1, <2>3
<1>5. Chunked(end, t, limit, n)
  <2> HIDE DEF Right
  <2>1. 0..n \subseteq Right
    BY <1>1, <1>3, <1>4, RoundByRound
  <2>2. n \in Right
    BY <1>1, <2>1
  <2> QED
    BY <2>2 DEF Right
<1> DEFINE Y == Seq(Nat)
           sent == end.sent
           output == end.output
           rows == Append(sent, output)
<1>6. /\ sent \in Seq(Y) /\ output \in Y /\ output # <<>>
      /\ FlattenSeq(sent) \o output = SubSeq(t, 1, n)
      /\ \A j \in DOMAIN sent : Row(sent[j], j, t, limit)
  <2>1. /\ end \in Chunks /\ (n # 0 => end.output # <<>>)
        /\ FlattenSeq(end.sent) \o end.output = SubSeq(t, 1, n)
        /\ \A j \in DOMAIN end.sent : Row(end.sent[j], j, t, limit)
    BY <1>5 DEF Chunked
  <2>2. sent \in Seq(Y) /\ output \in Y
    BY <2>1 DEF Chunks
  <2>3. n # 0
    BY <1>1
  <2> QED
    BY <2>1, <2>2, <2>3
<1>7. Row(output, Len(sent) + 1, t, limit)
  <2> DEFINE i == n + 1
  <2>1. i \in 1..(n + 1) /\ i - 1 = n
    BY <1>1
  <2> HIDE DEF i
  <2>2. Chunked(end, t, limit, i - 1)
    BY <1>5, <2>1
  <2>3. i = Len(t) + 1
    BY DEF i
  <2> QED
    BY <2>1, <2>2, <2>3, ChunkEnds
<1>8. FlattenSeq(rows) = t
  <2>1. FlattenSeq(rows) = FlattenSeq(sent) \o output
    BY <1>6, FlattenByOne
  <2>2. SubSeq(t, 1, n) = t
    BY <1>1
  <2> QED
    BY <1>6, <2>1, <2>2
<1>9. end.sent \o When(end.output # <<>>, end.output) = rows
  <2>1. When(output # <<>>, output) = <<output>>
    BY <1>6 DEF When
  <2>2. sent \o <<output>> = Append(sent, output)
    <3> HIDE DEF Y, sent, output
    <3> QED
      BY <1>6
  <2> QED
    BY <2>1, <2>2
<1> HIDE DEF sent, output
<1>10. /\ rows \in Seq(Y) /\ rows # <<>> /\ Len(sent) \in Nat
       /\ Len(rows) = Len(sent) + 1 /\ rows[Len(sent) + 1] = output
       /\ \A j \in 1..Len(sent) : j \in DOMAIN sent /\ rows[j] = sent[j]
  <2> HIDE DEF Y
  <2> QED
    BY <1>6
<1>11. \A j \in 1..Len(rows) : Row(rows[j], j, t, limit)
  <2> HIDE DEF rows
  <2> TAKE j \in 1..Len(rows)
  <2>1. CASE j = Len(sent) + 1
    BY <1>7, <1>10, <2>1
  <2>2. CASE j # Len(sent) + 1
    <3>1. j \in 1..Len(sent)
      BY <1>10, <2>2
    <3> QED
      BY <1>6, <1>10, <3>1
  <2> QED
    BY <2>1, <2>2
<1> HIDE DEF rows
<1> QED
  BY <1>8, <1>9, <1>10, <1>11 DEF RowsOf

LEMMA SupportRows ==
  ASSUME server \in Servers, NEW n \in Names
  PROVE  RowsOf(supportRows(n), info, maxOutputLength(n))
<1> DEFINE limit == maxOutputLength(n)
           t == info
           first == [sent |-> <<>>, output |-> <<>>, params |-> 0]
           After(f) == f = [i \in 0..Len(t) |->
                              IF i = 0 THEN first ELSE chunk(f[i - 1], t[i], limit)]
           after == CHOOSE f : After(f)
           end == after[Len(t)]
<1>1. limit \in Nat /\ Tokens(t)
  BY LimitIs, InfoIsTokens DEF info
<1>2. supportRows(n) = end.sent \o When(end.output # <<>>, end.output)
  BY DEF supportRows
<1> HIDE DEF limit, t
<1>3. \E f : After(f)
  <2> DEFINE step == [p \in Chunks \X Nat |-> chunk(p[1], p[2], limit)]
  <2>1. step \in [Chunks \X Nat -> Chunks]
    BY <1>1, ChunkTyped
  <2>2. first \in Chunks
    <3>1. <<>> \in Seq(Seq(Nat)) /\ <<>> \in Seq(Nat) /\ 0 \in Nat
      OBVIOUS
    <3> QED
      BY <3>1 DEF Chunks
  <2>3. t \in Seq(Nat) /\ Len(t) \in Nat /\ \A i \in 1..Len(t) : t[i] \in Nat
    <3>1. t \in Seq(Nat)
      BY <1>1 DEF Tokens
    <3> QED
      BY <3>1
  <2> HIDE DEF first, step
  <2>4. PICK f \in [0..Len(t) -> Chunks] : Looping(f, first, step, t)
    BY <2>1, <2>2, <2>3, LoopsRun
  <2>5. f = [i \in 0..Len(t) |-> IF i = 0 THEN first ELSE step[<<f[i - 1], t[i]>>]]
    BY <2>4 DEF Looping
  <2>6. ASSUME NEW i \in 0..Len(t), i # 0
        PROVE  step[<<f[i - 1], t[i]>>] = chunk(f[i - 1], t[i], limit)
    <3>1. i \in 1..Len(t) /\ i - 1 \in 0..Len(t)
      BY <2>3, <2>6
    <3> QED
      BY <2>3, <2>4, <3>1 DEF step
  <2> QED
    BY <2>5, <2>6
<1>4. After(after)
  BY <1>3
<1> HIDE DEF after
<1>5. RowsOf(end.sent \o When(end.output # <<>>, end.output), t, limit)
  BY <1>1, <1>4, LoopSendsRows
<1> QED
  BY <1>2, <1>5 DEF limit, t
-----------------------------------------------------------------------------
(* The messages RPL_ISUPPORT of r, behind m others, are those of rows.     *)
TellsRows(r, rows, m) ==
  /\ Without(r, {})
  /\ m \in Nat /\ m + Len(rows) <= Len(r)
  /\ \A i \in 1..Len(r) : r[i].numeric = "ISUPPORT" <=> i \in (m + 1)..(m + Len(rows))
  /\ \A i \in 1..Len(rows) : r[m + i].of = rows[i]

LEMMA SequenceFacts ==
  \A F, s : Without(s, F) =>
    /\ Len(s) \in Nat /\ DOMAIN s = 1..Len(s) /\ s = [i \in 1..Len(s) |-> s[i]]
    /\ Without(s, {})
<1> SUFFICES ASSUME NEW F, NEW s, Without(s, F)
             PROVE  /\ Len(s) \in Nat /\ DOMAIN s = 1..Len(s)
                    /\ s = [i \in 1..Len(s) |-> s[i]] /\ Without(s, {})
  OBVIOUS
<1> DEFINE X == {s[i] : i \in DOMAIN s}
<1>1. s \in Seq(X)
  BY DEF Without
<1>2. Without(s, {})
  BY <1>1 DEF Without
<1> HIDE DEF X
<1> QED
  BY <1>1, <1>2

LEMMA ConcatFacts ==
  \A a, b : Without(a, {}) /\ Without(b, {}) =>
    /\ Len(a \o b) = Len(a) + Len(b)
    /\ \A i \in 1..Len(a) : (a \o b)[i] = a[i]
    /\ \A i \in 1..Len(b) : (a \o b)[Len(a) + i] = b[i]
<1> SUFFICES ASSUME NEW a, NEW b, Without(a, {}), Without(b, {})
             PROVE  /\ Len(a \o b) = Len(a) + Len(b)
                    /\ \A i \in 1..Len(a) : (a \o b)[i] = a[i]
                    /\ \A i \in 1..Len(b) : (a \o b)[Len(a) + i] = b[i]
  OBVIOUS
<1> DEFINE X == {a[i] : i \in DOMAIN a} \cup {b[i] : i \in DOMAIN b}
           A == {a[i] : i \in DOMAIN a}
           B == {b[i] : i \in DOMAIN b}
<1>1. a \in Seq(A) /\ b \in Seq(B)
  BY DEF Without
<1> HIDE DEF A, B
<1>2. a \in Seq(A \cup B) /\ b \in Seq(A \cup B)
  BY <1>1
<1> DEFINE Y == A \cup B
<1> HIDE DEF Y
<1>3. a \in Seq(Y) /\ b \in Seq(Y)
  BY <1>2 DEF Y
<1>4. /\ Len(a) \in Nat /\ Len(b) \in Nat /\ Len(a \o b) = Len(a) + Len(b)
      /\ \A i \in 1..Len(a) : (a \o b)[i] = a[i]
  BY <1>3
<1>5. \A i \in 1..Len(b) : (a \o b)[Len(a) + i] = b[i]
  <2> TAKE i \in 1..Len(b)
  <2> DEFINE j == Len(a) + i
  <2>1. j \in 1..(Len(a) + Len(b)) /\ ~(j <= Len(a)) /\ j - Len(a) = i
    BY <1>4
  <2>2. \A k \in 1..(Len(a) + Len(b)) : (a \o b)[k] = IF k <= Len(a) THEN a[k] ELSE b[k - Len(a)]
    BY <1>3
  <2> HIDE DEF j
  <2>3. (a \o b)[j] = b[i]
    BY <2>1, <2>2
  <2> QED
    BY <2>3 DEF j
<1> QED
  BY <1>4, <1>5

(* Others in front of them                                                 *)
LEMMA RowsAreTold ==
  ASSUME NEW rows, NEW k \in Nat, rows = [i \in 1..k |-> rows[i]], Len(rows) = k,
         NEW h, Without(h, {"ISUPPORT"})
  PROVE  /\ Without([i \in DOMAIN rows |-> ToldOf("ISUPPORT", rows[i])], {})
         /\ TellsRows(h \o [i \in DOMAIN rows |-> ToldOf("ISUPPORT", rows[i])], rows, Len(h))
<1> DEFINE told == [i \in 1..k |-> ToldOf("ISUPPORT", rows[i])]
           m == Len(h)
           r == h \o told
<1>1. DOMAIN rows = 1..k
  OBVIOUS
<1>2. \A i \in 1..k : told[i].numeric = "ISUPPORT" /\ told[i].of = rows[i]
  BY DEF ToldOf
<1>3. DOMAIN told = 1..k /\ told = [i \in 1..k |-> told[i]]
  OBVIOUS
<1> HIDE DEF told
<1>4. Without(told, {})
  BY <1>3, WithoutRows
<1>5. m \in Nat /\ DOMAIN h = 1..m /\ Without(h, {})
  BY SequenceFacts
<1>6. Len(told) = k
  <2>1. Len(told) \in Nat /\ DOMAIN told = 1..Len(told)
    BY <1>4, SequenceFacts
  <2> QED
    BY <1>3, <2>1
<1>7. /\ Len(r) = m + k /\ Without(r, {})
      /\ \A i \in 1..m : r[i] = h[i]
      /\ \A i \in 1..k : r[m + i] = told[i]
  <2>1. /\ Len(h \o told) = Len(h) + Len(told)
        /\ \A i \in 1..Len(h) : (h \o told)[i] = h[i]
        /\ \A i \in 1..Len(told) : (h \o told)[Len(h) + i] = told[i]
    BY <1>4, <1>5, ConcatFacts
  <2>2. Without(h \o told, {})
    BY <1>4, <1>5, WithoutConcat
  <2> QED
    BY <1>6, <2>1, <2>2
<1> HIDE DEF r, m
<1>8. \A i \in 1..m : r[i].numeric # "ISUPPORT"
  BY <1>5, <1>7 DEF Without
<1>9. \A i \in 1..k : r[m + i].numeric = "ISUPPORT" /\ r[m + i].of = rows[i]
  BY <1>2, <1>7
<1>10. \A i \in 1..(m + k) : r[i].numeric = "ISUPPORT" <=> i \in (m + 1)..(m + k)
  <2> TAKE i \in 1..(m + k)
  <2>1. CASE i \in 1..m
    BY <1>5, <1>8, <2>1
  <2>2. CASE i \notin 1..m
    <3>1. i - m \in 1..k /\ m + (i - m) = i /\ i \in (m + 1)..(m + k)
      BY <1>5, <2>2
    <3>2. r[m + (i - m)].numeric = "ISUPPORT"
      BY <1>9, <3>1
    <3> QED
      BY <3>1, <3>2
  <2> QED
    BY <2>1, <2>2
<1>11. TellsRows(r, rows, m)
  BY <1>5, <1>7, <1>9, <1>10 DEF TellsRows
<1> QED
  BY <1>1, <1>4, <1>11 DEF r, m, told

(* Others behind them                                                      *)
LEMMA RowsStayTold ==
  ASSUME NEW rows, Len(rows) \in Nat, NEW m, NEW r, TellsRows(r, rows, m),
         NEW e, Without(e, {"ISUPPORT"})
  PROVE  TellsRows(r \o e, rows, m)
<1> DEFINE n == Len(r)
           k == Len(rows)
           l == Len(e)
           w == r \o e
<1>1. /\ n \in Nat /\ l \in Nat /\ DOMAIN e = 1..l /\ Without(e, {}) /\ Without(r, {})
      /\ k \in Nat /\ m \in Nat /\ m + k <= n
  BY SequenceFacts DEF TellsRows
<1>2. /\ Len(w) = n + l /\ Without(w, {})
      /\ \A i \in 1..n : w[i] = r[i]
      /\ \A i \in 1..l : w[n + i] = e[i]
  BY <1>1, ConcatFacts, WithoutConcat
<1>3. /\ \A i \in 1..n : r[i].numeric = "ISUPPORT" <=> i \in (m + 1)..(m + k)
      /\ \A i \in 1..k : r[m + i].of = rows[i]
  BY DEF TellsRows
<1>4. \A i \in 1..l : w[n + i].numeric # "ISUPPORT"
  BY <1>1, <1>2 DEF Without
<1> HIDE DEF n, k, l, w
<1>5. \A i \in 1..(n + l) : w[i].numeric = "ISUPPORT" <=> i \in (m + 1)..(m + k)
  <2> TAKE i \in 1..(n + l)
  <2>1. CASE i \in 1..n
    BY <1>2, <1>3, <2>1
  <2>2. CASE i \notin 1..n
    <3>1. i - n \in 1..l /\ n + (i - n) = i /\ i \notin (m + 1)..(m + k)
      BY <1>1, <2>2
    <3>2. w[n + (i - n)].numeric # "ISUPPORT"
      BY <1>4, <3>1
    <3> QED
      BY <3>1, <3>2
  <2> QED
    BY <2>1, <2>2
<1>6. \A i \in 1..k : w[m + i].of = rows[i]
  <2> TAKE i \in 1..k
  <2>1. m + i \in 1..n
    BY <1>1
  <2> QED
    BY <1>2, <1>3, <2>1
<1>7. m + k <= n + l
  BY <1>1
<1> QED
  BY <1>1, <1>2, <1>5, <1>6, <1>7 DEF TellsRows, n, k, l, w

(* What ISupportIsWhole says of a reply, its tokens and what it may have   *)
TellsAll(r, t, limit) ==
  LET told == {i \in DOMAIN r : r[i].numeric = "ISUPPORT"}
      rows == [i \in 1..Cardinality(told) |-> r[Min(told) + i - 1].of]
  IN /\ told = Min(told)..Max(told)
     /\ FlattenSeq(rows) = t
     /\ \A i \in DOMAIN rows :
          /\ rows[i] # <<>> \/ (i = 1 /\ t[1] > limit)
          /\ Len(rows[i]) <= maxParams - 2
          /\ Len(rows[i]) = 1 \/ Octets(rows[i]) <= limit + 1

LEMMA RowsTellAll ==
  ASSUME NEW t, NEW limit, NEW rows, RowsOf(rows, t, limit),
         NEW m, NEW r, TellsRows(r, rows, m)
  PROVE  TellsAll(r, t, limit)
<1> DEFINE k == Len(rows)
           told == {i \in DOMAIN r : r[i].numeric = "ISUPPORT"}
           of == [i \in 1..Cardinality(told) |-> r[Min(told) + i - 1].of]
           Y == Seq(Nat)
<1>1. rows \in Seq(Y) /\ rows # <<>>
  BY DEF RowsOf
<1>2. k \in Nat /\ k # 0 /\ rows = [i \in 1..k |-> rows[i]]
  <2> HIDE DEF Y
  <2> QED
    BY <1>1
<1>3. /\ Len(r) \in Nat /\ DOMAIN r = 1..Len(r) /\ m \in Nat /\ m + k <= Len(r)
      /\ \A i \in 1..Len(r) : r[i].numeric = "ISUPPORT" <=> i \in (m + 1)..(m + k)
      /\ \A i \in 1..k : r[m + i].of = rows[i]
  BY SequenceFacts DEF TellsRows
<1> HIDE DEF k
<1>4. told = (m + 1)..(m + k)
  <2>1. (m + 1)..(m + k) \subseteq 1..Len(r)
    BY <1>2, <1>3
  <2> QED
    BY <1>3, <2>1
<1>5. Cardinality(told) = k
  <2> DEFINE a == m + 1
             b == m + k
  <2>1. a \in Int /\ b \in Int /\ ~(a > b) /\ b - a + 1 = k
    BY <1>2, <1>3
  <2>2. told = a..b
    BY <1>4
  <2> HIDE DEF a, b, told
  <2>3. Cardinality(a..b) = IF a > b THEN 0 ELSE b - a + 1
    BY <2>1, FS_Interval
  <2> QED
    BY <2>1, <2>2, <2>3
<1>6. Min(told) = m + 1
  <2>1. told \subseteq Nat /\ m + 1 \in told
    BY <1>2, <1>3, <1>4
  <2>2. Min(told) \in told /\ \A x \in told : Min(told) <= x
    <3> HIDE DEF told
    <3> QED
      BY <2>1, MinOfNumbers
  <2>3. Min(told) \in (m + 1)..(m + k) /\ Min(told) <= m + 1
    BY <1>4, <2>1, <2>2
  <2> HIDE DEF told
  <2> QED
    BY <1>2, <1>3, <2>3
<1>7. Max(told) = m + k
  <2>1. told \subseteq Int /\ m + k \in told /\ \A y \in told : y <= m + k
    BY <1>2, <1>3, <1>4
  <2> HIDE DEF told
  <2> QED
    BY <2>1, MaxIs
<1>8. of = rows
  <2> HIDE DEF told
  <2>1. of = [i \in 1..k |-> r[(m + 1) + i - 1].of]
    BY <1>5, <1>6
  <2>2. \A i \in 1..k : (m + 1) + i - 1 = m + i
    BY <1>3
  <2>3. \A i \in 1..k : r[(m + 1) + i - 1].of = rows[i]
    BY <1>3, <2>2
  <2> HIDE DEF of
  <2> QED
    BY <1>2, <2>1, <2>3
<1>9. told = Min(told)..Max(told)
  <2> HIDE DEF told
  <2> QED
    BY <1>4, <1>6, <1>7
<1>10. /\ FlattenSeq(rows) = t
       /\ \A i \in DOMAIN rows :
            /\ rows[i] # <<>> \/ (i = 1 /\ t[1] > limit)
            /\ Len(rows[i]) <= maxParams - 2
            /\ Len(rows[i]) = 1 \/ Octets(rows[i]) <= limit + 1
  <2>1. maxParams - 2 = 13 /\ DOMAIN rows = 1..Len(rows)
    BY <1>2 DEF maxParams, k
  <2> QED
    BY <2>1 DEF RowsOf, Row
<1> HIDE DEF told, of
<1>11. /\ FlattenSeq(of) = t
       /\ \A i \in DOMAIN of :
            /\ of[i] # <<>> \/ (i = 1 /\ t[1] > limit)
            /\ Len(of[i]) <= maxParams - 2
            /\ Len(of[i]) = 1 \/ Octets(of[i]) <= limit + 1
  BY <1>8, <1>10
<1> QED
  BY <1>9, <1>11 DEF TellsAll, told, of
-----------------------------------------------------------------------------
(* The messages that tell a time, and what is right of them                *)
Timed == {"STATSUPTIME", "TIMEONSERVERIS"}

RightTime(m, uptime, zone) ==
  /\ m.numeric = "STATSUPTIME" =>
       /\ m.of.hours < 24 /\ m.of.minutes < 60 /\ m.of.seconds < 60
       /\ 60 * (60 * (24 * m.of.days + m.of.hours) + m.of.minutes) + m.of.seconds = uptime
  /\ m.numeric = "TIMEONSERVERIS" /\ zone <= 0 =>
       /\ m.of.minutes < 60
       /\ -zone - 60 * (60 * m.of.hours + m.of.minutes) \in 0..59

(* Messages whose times are right                                          *)
RightTimes(r) ==
  /\ Without(r, {})
  /\ \A i \in DOMAIN r : RightTime(r[i], server.uptime, server.timezone)

LEMMA UntimedAreRight ==
  \A r : Without(r, Timed) => RightTimes(r)
<1> SUFFICES ASSUME NEW r, Without(r, Timed)
             PROVE  RightTimes(r)
  OBVIOUS
<1>1. Without(r, {})
  BY SequenceFacts
<1>2. \A i \in DOMAIN r : r[i].numeric # "STATSUPTIME" /\ r[i].numeric # "TIMEONSERVERIS"
  BY DEF Without, Timed
<1> QED
  BY <1>1, <1>2 DEF RightTimes, RightTime

LEMMA RightTogether ==
  \A a, b : RightTimes(a) /\ RightTimes(b) => RightTimes(a \o b)
<1> SUFFICES ASSUME NEW a, NEW b, RightTimes(a), RightTimes(b)
             PROVE  RightTimes(a \o b)
  OBVIOUS
<1>1. Without(a, {}) /\ Without(b, {}) /\ Without(a \o b, {})
  BY WithoutConcat DEF RightTimes
<1>2. /\ Len(a) \in Nat /\ Len(b) \in Nat /\ DOMAIN a = 1..Len(a) /\ DOMAIN b = 1..Len(b)
      /\ DOMAIN (a \o b) = 1..Len(a \o b)
  BY <1>1, SequenceFacts
<1>3. /\ Len(a \o b) = Len(a) + Len(b)
      /\ \A i \in 1..Len(a) : (a \o b)[i] = a[i]
      /\ \A i \in 1..Len(b) : (a \o b)[Len(a) + i] = b[i]
  BY <1>1, ConcatFacts
<1> DEFINE Right(m) == RightTime(m, server.uptime, server.timezone)
           w == a \o b
           n == Len(a)
<1>4. (\A i \in 1..n : Right(a[i])) /\ \A i \in 1..Len(b) : Right(b[i])
  BY <1>2 DEF RightTimes
<1>5. \A i \in 1..(n + Len(b)) : Right(w[i])
  <2> TAKE i \in 1..(n + Len(b))
  <2> HIDE DEF Right, w, n
  <2>1. CASE i \in 1..n
    BY <1>3, <1>4, <2>1 DEF w, n
  <2>2. CASE i \notin 1..n
    <3>1. i - n \in 1..Len(b) /\ n + (i - n) = i
      BY <1>2, <2>2 DEF n
    <3>2. w[n + (i - n)] = b[i - n]
      BY <1>3, <3>1 DEF w, n
    <3> QED
      BY <1>4, <3>1, <3>2
  <2> QED
    BY <2>1, <2>2
<1> QED
  BY <1>1, <1>2, <1>3, <1>5 DEF RightTimes

LEMMA OneIsRight ==
  \A m : RightTime(m, server.uptime, server.timezone) => RightTimes(<<m>>)
<1> SUFFICES ASSUME NEW m, RightTime(m, server.uptime, server.timezone)
             PROVE  RightTimes(<<m>>)
  OBVIOUS
<1>1. Without(<<m>>, {})
  BY WithoutOne
<1>2. DOMAIN <<m>> = {1} /\ <<m>>[1] = m
  OBVIOUS
<1> QED
  BY <1>1, <1>2 DEF RightTimes

LEMMA Divided ==
  \A t, k \in Nat : k > 0 =>
    t \div k \in Nat /\ t % k \in Nat /\ t % k < k /\ t = k * (t \div k) + (t % k)
<1>1. \A t, k \in Nat : k > 0 => t \div k \in Nat
  OBVIOUS
<1>2. \A t, k \in Nat : k > 0 => t % k \in Nat
  OBVIOUS
<1>3. \A t, k \in Nat : k > 0 => t % k < k
  OBVIOUS
<1>4. \A t, k \in Nat : k > 0 => t = k * (t \div k) + (t % k)
  OBVIOUS
<1> QED
  BY <1>1, <1>2, <1>3, <1>4

(* The seconds of time into days, hours, minutes and seconds               *)
LEMMA TimeAddsUp ==
  ASSUME NEW t \in Nat
  PROVE  /\ (t % 86400) \div 3600 < 24 /\ (t % 3600) \div 60 < 60 /\ t % 60 < 60
         /\ 60 * (60 * (24 * (t \div 86400) + ((t % 86400) \div 3600)) + ((t % 3600) \div 60))
              + (t % 60) = t
<1> DEFINE days == t \div 86400
           inDay == t % 86400
           hours == inDay \div 3600
           inHour == inDay % 3600
           minutes == inHour \div 60
           seconds == inHour % 60
<1>1. /\ days \in Nat /\ inDay \in Nat /\ inDay < 86400 /\ t = 86400 * days + inDay
      /\ 86400 \in Nat /\ 3600 \in Nat /\ 60 \in Nat
  <2>1. 86400 \in Nat /\ 86400 > 0 /\ 3600 \in Nat /\ 60 \in Nat
    OBVIOUS
  <2> DEFINE k == 86400
  <2> HIDE DEF k
  <2>2. k \in Nat /\ k > 0
    BY <2>1 DEF k
  <2>3. t \div k \in Nat /\ t % k \in Nat /\ t % k < k /\ t = k * (t \div k) + (t % k)
    BY <2>2, Divided
  <2> QED
    BY <2>1, <2>3 DEF k
<1> HIDE DEF days, inDay
<1>2. hours \in Nat /\ inHour \in Nat /\ inHour < 3600 /\ inDay = 3600 * hours + inHour
  BY <1>1, Divided
<1> HIDE DEF hours, inHour
<1>3. minutes \in Nat /\ seconds \in Nat /\ seconds < 60 /\ inHour = 60 * minutes + seconds
  BY <1>2, Divided
<1> HIDE DEF minutes, seconds
<1>4. hours < 24
  BY <1>1, <1>2
<1>5. minutes < 60
  BY <1>2, <1>3
<1>6. t % 3600 = inHour
  <2>1. \A k, x \in Nat : x < 3600 => (3600 * k + x) % 3600 = x
    OBVIOUS
  <2> DEFINE k == 24 * days + hours
  <2>2. t = 3600 * k + inHour /\ k \in Nat
    BY <1>1, <1>2
  <2> HIDE DEF k
  <2> QED
    BY <1>2, <2>1, <2>2
<1>7. t % 60 = seconds
  <2>1. \A k, x \in Nat : x < 60 => (60 * k + x) % 60 = x
    OBVIOUS
  <2> DEFINE k == 60 * (24 * days + hours) + minutes
  <2>2. t = 60 * k + seconds /\ k \in Nat
    BY <1>1, <1>2, <1>3
  <2> HIDE DEF k
  <2> QED
    BY <1>3, <2>1, <2>2
<1>8. 60 * (60 * (24 * days + hours) + minutes) + seconds = t
  BY <1>1, <1>2, <1>3
<1>9. days = t \div 86400 /\ hours = (t % 86400) \div 3600 /\ minutes = (t % 3600) \div 60
  BY <1>6 DEF days, hours, inDay, minutes
<1> QED
  BY <1>3, <1>4, <1>5, <1>7, <1>8, <1>9

LEMMA UptimeIsRight ==
  ASSUME server \in Servers
  PROVE  RightTimes(handleUptime)
<1> DEFINE t == server.uptime
           days == t \div 86400
           hours == (t % 86400) \div 3600
           minutes == (t % 3600) \div 60
           seconds == t % 60
           of == [days |-> days, hours |-> hours, minutes |-> minutes, seconds |-> seconds]
           m == ToldOf("STATSUPTIME", of)
<1>1. t \in Nat
  BY QueriesAssumption
<1>2. handleUptime = <<m>>
  BY DEF handleUptime
<1> HIDE DEF t
<1>3. /\ hours < 24 /\ minutes < 60 /\ seconds < 60
      /\ 60 * (60 * (24 * days + hours) + minutes) + seconds = t
  BY <1>1, TimeAddsUp
<1> HIDE DEF days, hours, minutes, seconds
<1>4. /\ of.hours < 24 /\ of.minutes < 60 /\ of.seconds < 60
      /\ 60 * (60 * (24 * of.days + of.hours) + of.minutes) + of.seconds = t
  BY <1>3
<1>5. m.numeric = "STATSUPTIME" /\ m.of = of
  BY DEF ToldOf
<1> HIDE DEF m, of
<1>6. RightTime(m, t, server.timezone)
  BY <1>4, <1>5 DEF RightTime
<1> QED
  BY <1>2, <1>6, OneIsRight DEF t

LEMMA ZoneIsRight ==
  ASSUME server \in Servers
  PROVE  RightTimes(sendTimeOnServer)
<1> DEFINE zone == server.timezone
           of == offset(zone)
           m == ToldOf("TIMEONSERVERIS", of)
<1>1. zone \in Int
  BY QueriesAssumption
<1>2. m.numeric = "TIMEONSERVERIS" /\ m.of = of
  BY DEF ToldOf
<1> HIDE DEF zone
<1>3. ASSUME zone <= 0
      PROVE  /\ of.minutes < 60
             /\ -zone - 60 * (60 * of.hours + of.minutes) \in 0..59
  <2> DEFINE z == -zone
             h == z \div 3600
  <2>1. z \in Nat /\ z - 3600 * h >= 0
    BY <1>1, <1>3
  <2>2. of.hours = h /\ of.minutes = (z - 3600 * h) \div 60
    BY <2>1 DEF offset
  <2>3. /\ (z - 3600 * h) \div 60 < 60
        /\ z - 60 * (60 * h + (z - 3600 * h) \div 60) \in 0..59
    <3> HIDE DEF z
    <3> QED
      BY <2>1
  <2> QED
    BY <2>2, <2>3
<1>4. RightTime(m, server.uptime, zone)
  <2> HIDE DEF m, of
  <2> QED
    BY <1>2, <1>3 DEF RightTime
<1>5. sendTimeOnServer = <<m>>
  BY DEF sendTimeOnServer, zone
<1> HIDE DEF m
<1> QED
  BY <1>4, <1>5, OneIsRight DEF zone
-----------------------------------------------------------------------------
LEMMA WithoutLess ==
  \A F, G, s : Without(s, G) /\ F \subseteq G => Without(s, F)
BY DEF Without

LEMMA ShortReplies ==
  ASSUME NEW F,
         NEW a, NEW b, NEW c, NEW d, NEW e,
         a.numeric \notin F, b.numeric \notin F, c.numeric \notin F, d.numeric \notin F,
         e.numeric \notin F
  PROVE  /\ Without(<<a>>, F) /\ Without(<<a, b>>, F) /\ Without(<<a, b, c>>, F)
         /\ Without(<<a, b, c, d>>, F) /\ Without(<<a, b, c, d, e>>, F)
<1> DEFINE X == {a, b, c, d, e}
<1>1. \A m \in X : m.numeric \notin F
  OBVIOUS
<1>2. a \in X /\ b \in X /\ c \in X /\ d \in X /\ e \in X
  OBVIOUS
<1> HIDE DEF X
<1>3. /\ <<a>> \in Seq(X) /\ <<a, b>> \in Seq(X) /\ <<a, b, c>> \in Seq(X)
      /\ <<a, b, c, d>> \in Seq(X) /\ <<a, b, c, d, e>> \in Seq(X)
  BY <1>2
<1> QED
  BY <1>1, <1>3, WithoutIs

(* The counters of the network are eight messages.                         *)
LEMMA CountersAreTold ==
  ASSUME NEW count, NEW F,
         F \cap {"LUSERCLIENT", "LUSEROP", "LUSERSTAFF", "LUSERUNKNOWN", "LUSERCHANNELS",
                 "LUSERME", "LOCALUSERS", "GLOBALUSERS"} = {}
  PROVE  Without(doLUSERS(count), F)
<1> DEFINE n == network(count)
           a == ToldOf("LUSERCLIENT",
                       [users |-> n.users, services |-> n.services, servers |-> n.servers])
           b == Told("LUSEROP")
           c == Told("LUSERSTAFF")
           d == Told("LUSERUNKNOWN")
           e == ToldOf("LUSERCHANNELS", n.channels)
           f == ToldOf("LUSERME", count)
           g == ToldOf("LOCALUSERS", count)
           h == ToldOf("GLOBALUSERS", n.users)
           X == {a, b, c, d, e, f, g, h}
<1>1. \A m \in X : m.numeric \notin F
  BY DEF Told, ToldOf
<1>2. doLUSERS(count) = <<a, b, c, d, e, f, g, h>>
  BY DEF doLUSERS
<1>3. a \in X /\ b \in X /\ c \in X /\ d \in X /\ e \in X /\ f \in X /\ g \in X /\ h \in X
  OBVIOUS
<1> HIDE DEF X, a, b, c, d, e, f, g, h
<1>4. <<a, b, c, d, e, f, g, h>> \in Seq(X)
  BY <1>3
<1> QED
  BY <1>1, <1>2, <1>4, WithoutIs

LEMMA MessagesOfTheDay ==
  ASSUME NEW F, F \cap {"MOTDSTART", "MOTD", "ENDOFMOTD"} = {}
  PROVE  Without(doMOTD, F)
<1>1. /\ Told("MOTDSTART").numeric \notin F /\ Told("MOTD").numeric \notin F
      /\ Told("ENDOFMOTD").numeric \notin F
  BY DEF Told
<1> QED
  BY <1>1, ShortReplies DEF doMOTD

LEMMA TimeIsTold ==
  ASSUME NEW F, "TIMEONSERVERIS" \notin F
  PROVE  Without(sendTimeOnServer, F)
<1>1. ToldOf("TIMEONSERVERIS", offset(server.timezone)).numeric \notin F
  BY DEF ToldOf
<1> QED
  BY <1>1, WithoutOne DEF sendTimeOnServer

(* sendISUPPORT() sends the rows, and nothing else.                        *)
LEMMA SupportIs ==
  ASSUME server \in Servers, NEW n \in Names
  PROVE  /\ Len(supportRows(n)) \in Nat
         /\ supportRows(n) = [i \in 1..Len(supportRows(n)) |-> supportRows(n)[i]]
         /\ \A F : "ISUPPORT" \notin F => Without(sendISUPPORT(n), F)
<1> DEFINE rows == supportRows(n)
           k == Len(rows)
           Y == Seq(Nat)
           s == [i \in 1..k |-> ToldOf("ISUPPORT", rows[i])]
<1>1. rows \in Seq(Y)
  BY SupportRows DEF RowsOf
<1> HIDE DEF Y, rows
<1>2. k \in Nat /\ rows = [i \in 1..k |-> rows[i]] /\ DOMAIN rows = 1..k
  BY <1>1
<1>3. sendISUPPORT(n) = s
  BY <1>2 DEF sendISUPPORT, rows
<1>4. s = [i \in 1..k |-> s[i]] /\ \A i \in 1..k : s[i].numeric = "ISUPPORT"
  BY DEF ToldOf
<1> HIDE DEF s, k
<1>5. ASSUME NEW F, "ISUPPORT" \notin F
      PROVE  Without(s, F)
  BY <1>2, <1>4, <1>5, WithoutRows
<1> QED
  BY <1>2, <1>3, <1>5 DEF rows, k

(* Who is welcomed, and who asks for the version, is told every row.       *)
LEMMA SupportIsTold ==
  ASSUME server \in Servers, NEW n \in Names, NEW h, Without(h, {"ISUPPORT"})
  PROVE  TellsRows(h \o sendISUPPORT(n), supportRows(n), Len(h))
<1> DEFINE rows == supportRows(n)
<1>1. Len(rows) \in Nat /\ rows = [i \in 1..Len(rows) |-> rows[i]]
  BY SupportIs
<1>2. sendISUPPORT(n) = [i \in DOMAIN rows |-> ToldOf("ISUPPORT", rows[i])]
  BY DEF sendISUPPORT
<1> HIDE DEF rows
<1>3. TellsRows(h \o sendISUPPORT(n), rows, Len(h))
  BY <1>1, <1>2, RowsAreTold
<1> QED
  BY <1>3 DEF rows

LEMMA WelcomeTellsAll ==
  ASSUME server \in Servers, NEW n \in Names, NEW count
  PROVE  TellsAll(welcome(n, count), info, maxOutputLength(n))
<1> DEFINE rows == supportRows(n)
           F == {"ISUPPORT"}
           h == <<Told("WELCOME"), Told("YOURHOST"), Told("CREATED"), Told("MYINFO")>>
           l == <<Told("YOURLANGUAGEIS")>>
           a == h \o sendISUPPORT(n)
           b == a \o l
           c == b \o sendTimeOnServer
           d == c \o doLUSERS(count)
<1>1. Without(h, F) /\ Without(l, F)
  <2> DEFINE m1 == Told("WELCOME")
             m2 == Told("YOURHOST")
             m3 == Told("CREATED")
             m4 == Told("MYINFO")
             m5 == Told("YOURLANGUAGEIS")
  <2>1. /\ m1.numeric \notin F /\ m2.numeric \notin F /\ m3.numeric \notin F
        /\ m4.numeric \notin F /\ m5.numeric \notin F
    BY DEF Told
  <2> HIDE DEF m1, m2, m3, m4, m5, F
  <2>2. Without(<<m1, m2, m3, m4>>, F) /\ Without(<<m5>>, F)
    BY <2>1, ShortReplies
  <2> QED
    BY <2>2 DEF m1, m2, m3, m4, m5
<1>2. Without(sendTimeOnServer, F) /\ Without(doLUSERS(count), F) /\ Without(doMOTD, F)
  BY TimeIsTold, CountersAreTold, MessagesOfTheDay
<1>3. Len(rows) \in Nat
  BY SupportIs
<1> HIDE DEF h, l
<1>4. TellsRows(a, rows, Len(h))
  BY <1>1, SupportIsTold
<1> HIDE DEF rows, a
<1>5. TellsRows(b, rows, Len(h))
  BY <1>1, <1>3, <1>4, RowsStayTold
<1> HIDE DEF b
<1>6. TellsRows(c, rows, Len(h))
  BY <1>2, <1>3, <1>5, RowsStayTold
<1> HIDE DEF c
<1>7. TellsRows(d, rows, Len(h))
  BY <1>2, <1>3, <1>6, RowsStayTold
<1> HIDE DEF d
<1>8. TellsRows(d \o doMOTD, rows, Len(h))
  BY <1>2, <1>3, <1>7, RowsStayTold
<1>9. welcome(n, count) = d \o doMOTD
  BY DEF welcome, a, b, c, d, h, l
<1>10. RowsOf(rows, info, maxOutputLength(n))
  BY SupportRows DEF rows
<1> QED
  BY <1>8, <1>9, <1>10, RowsTellAll

LEMMA VersionTellsAll ==
  ASSUME server \in Servers, NEW n \in Names
  PROVE  TellsAll(handleVERSION(<<>>, n), info, maxOutputLength(n))
<1>1. Without(doVERSION, {"ISUPPORT"})
  <2>1. Told("VERSION").numeric \notin {"ISUPPORT"}
    BY DEF Told
  <2> QED
    BY <2>1, WithoutOne DEF doVERSION
<1>2. handleVERSION(<<>>, n) = doVERSION \o sendISUPPORT(n)
  BY DEF handleVERSION, Elsewhere
<1>3. TellsRows(doVERSION \o sendISUPPORT(n), supportRows(n), Len(doVERSION))
  BY <1>1, SupportIsTold
<1>4. RowsOf(supportRows(n), info, maxOutputLength(n))
  BY SupportRows
<1> QED
  BY <1>2, <1>3, <1>4, RowsTellAll
-----------------------------------------------------------------------------
(* What is asked: how the dispatcher decides                               *)
Answerable == {"ADMIN", "HELP", "INFO", "ISON", "JOIN", "LUSERS", "MOTD", "NAMES", "NETWORKS",
               "NICK", "OPER", "PART", "PING", "STATS", "SUMMON", "TIME", "USERHOST", "USERS",
               "VERSION", "WHOIS", "WHOWAS"}

LEMMA CommandsAre ==
  Commands = Answerable \cup NotAsked \cup {"DIE", "KILL", "REHASH", "RESTART", "WALLOPS"}
<1> DEFINE X == Answerable \cup NotAsked \cup {"DIE", "KILL", "REHASH", "RESTART", "WALLOPS"}
<1>1. DOMAIN commandList = 1..32 /\ Commands = {commandList[i] : i \in DOMAIN commandList}
  BY DEF Commands, commandList, ToSet
<1>2. ASSUME NEW i \in 1..32
      PROVE  commandList[i] \in X
  BY <1>2 DEF commandList, Answerable, NotAsked
<1>3. ASSUME NEW c \in X
      PROVE  \E i \in 1..32 : commandList[i] = c
  BY <1>3 DEF commandList, Answerable, NotAsked
<1> QED
  BY <1>1, <1>2, <1>3

(* A line that reaches a handler has one of these commands.                *)
LEMMA Reaches ==
  ASSUME NEW c, NEW p, refusal(c, p) = "NONE"
  PROVE  c \in Answerable \cup NotAsked /\ ~(Len(p) < minimumParams(c))
<1>1. c \in Commands
  BY DEF refusal
<1>2. c \notin Disabled
  BY <1>1 DEF refusal
<1>3. hasAccess(c)
  BY <1>1, <1>2 DEF refusal
<1>4. ~(Len(p) < minimumParams(c))
  BY <1>1, <1>2, <1>3 DEF refusal
<1> QED
  BY <1>1, <1>3, <1>4, CommandsAre DEF hasAccess, Privileged

(* Nobody refuses VERSION.                                                 *)
LEMMA VersionIsAnswered == refusal("VERSION", <<>>) = "NONE"
<1>1. "VERSION" \in Commands /\ "VERSION" \notin Disabled /\ hasAccess("VERSION")
  BY CommandsAre DEF Answerable, Disabled, hasAccess, Privileged
<1>2. ~(Len(<<>>) < minimumParams("VERSION"))
  BY DEF minimumParams
<1> QED
  BY <1>1, <1>2 DEF refusal
-----------------------------------------------------------------------------
(* There is no reply but to who asked, and only who connects or asks gets  *)
(* one: what was true of the last is not asked of any other step.          *)
Silent == asked = Nothing /\ reply = <<>>

Welcomed(u, n) ==
  /\ addUser(u, n) /\ UNCHANGED server
  /\ reply' = IF addUserError(n) = "NO_ERROR" THEN welcome(n, userCount') ELSE <<>>
  /\ asked' = [of |-> u, command |-> Connecting, parameters |-> <<>>]
  /\ speaks' = [speaks EXCEPT ![u] = (addUserError(n) = "NO_ERROR")]
  /\ UNCHANGED away

Answered(u, line) ==
  /\ phase[u] = "user"
  /\ asked' = [of |-> u, command |-> line.command, parameters |-> line.parameters]
  /\ reply' = IF refusal(line.command, line.parameters) # "NONE"
              THEN <<Told(refusal(line.command, line.parameters))>>
              ELSE handler(line.command, line.parameters, nickname[u])
  /\ UNCHANGED <<registryVars, phase, away, speaks, server>>

LEMMA SilentNext ==
  ASSUME asked = Nothing => reply = <<>>, [Next]_vars
  PROVE  \/ UNCHANGED vars
         \/ Silent'
         \/ \E u \in Conns, n \in Names : Welcomed(u, n)
         \/ \E u \in Conns, line \in Lines : Answered(u, line)
<1>1. CASE UNCHANGED vars
  BY <1>1
<1>2. CASE sendOutput
  BY <1>2 DEF sendOutput, Silent, Nothing
<1>3. ASSUME NEW u \in Conns, NEW n \in Names, Connect(u, n)
      PROVE  Welcomed(u, n)
  BY <1>3 DEF Connect, Welcomed
<1>4. ASSUME NEW u \in Conns, Lose(u) \/ handleAWAY(u) \/ handleLANGUAGE(u) \/ handleQUIT(u)
      PROVE  Silent'
  <2>1. asked = Nothing /\ UNCHANGED <<asked, reply>>
    BY <1>4 DEF Lose, handleAWAY, handleLANGUAGE, handleQUIT, Ready, askVars
  <2> QED
    BY <2>1 DEF Silent, Nothing
<1>5. ASSUME NEW u \in Conns, NEW line \in Lines, ask(u, line)
      PROVE  Silent' \/ Answered(u, line)
  <2>1. asked = Nothing /\ phase[u] = "user"
        /\ UNCHANGED <<registryVars, phase, away, speaks, server>>
    BY <1>5 DEF ask, Ready
  <2>2. \/ UNCHANGED <<asked, reply>>
        \/ /\ asked' = [of |-> u, command |-> line.command, parameters |-> line.parameters]
           /\ reply' = IF refusal(line.command, line.parameters) # "NONE"
                       THEN <<Told(refusal(line.command, line.parameters))>>
                       ELSE handler(line.command, line.parameters, nickname[u])
    BY <1>5 DEF ask, askVars
  <2> QED
    BY <2>1, <2>2 DEF Silent, Nothing, Answered
<1> QED
  BY <1>1, <1>2, <1>3, <1>4, <1>5 DEF Next

(* Who asks is somebody, with a name.                                      *)
LEMMA WhoAsks ==
  ASSUME QueriesInv, NEW u \in Conns, phase[u] = "user"
  PROVE  nickname[u] \in Names
<1>1. nickname[u] \in Names \cup {NoName} /\ nickname[u] # NoName
  BY DEF QueriesInv, QueriesTypeOK, RegistryTypeOK
<1> QED
  BY <1>1

LEMMA SupportInit == Init => ISupportIsWhole /\ Silent
<1> SUFFICES ASSUME Init
             PROVE  ISupportIsWhole /\ Silent
  OBVIOUS
<1>1. Silent
  BY DEF Init, Silent
<1>2. ISupportIsWhole
  BY <1>1 DEF Silent, ISupportIsWhole
<1> QED
  BY <1>1, <1>2

SilenceOK == asked = Nothing => reply = <<>>

LEMMA SilenceNext == SilenceOK /\ [Next]_vars => SilenceOK'
<1> SUFFICES ASSUME SilenceOK, [Next]_vars
             PROVE  SilenceOK'
  OBVIOUS
<1>1. CASE UNCHANGED vars \/ sendOutput
  BY <1>1 DEF SilenceOK, vars, askVars, sendOutput
<1>2. ASSUME NEW u \in Conns, NEW n \in Names, Connect(u, n)
      PROVE  SilenceOK'
  <2>1. asked'.of = u
    BY <1>2 DEF Connect
  <2>2. Nothing.of # u
    BY BaseAssumption DEF Nothing
  <2> QED
    BY <2>1, <2>2 DEF SilenceOK
<1>3. ASSUME NEW u \in Conns, Lose(u) \/ handleAWAY(u) \/ handleLANGUAGE(u) \/ handleQUIT(u)
      PROVE  SilenceOK'
  <2>1. UNCHANGED <<asked, reply>>
    BY <1>3 DEF Lose, handleAWAY, handleLANGUAGE, handleQUIT, askVars
  <2> QED
    BY <2>1 DEF SilenceOK
<1>4. ASSUME NEW u \in Conns, NEW line \in Lines, ask(u, line)
      PROVE  SilenceOK'
  <2>1. UNCHANGED <<asked, reply>> \/ asked'.of = u
    BY <1>4 DEF ask, askVars
  <2>2. Nothing.of # u
    BY BaseAssumption DEF Nothing
  <2> QED
    BY <2>1, <2>2 DEF SilenceOK
<1> QED
  BY <1>1, <1>2, <1>3, <1>4 DEF Next

LEMMA SupportNext ==
  QueriesInv /\ SilenceOK /\ ISupportIsWhole /\ [Next]_vars => ISupportIsWhole'
<1> SUFFICES ASSUME QueriesInv, SilenceOK, ISupportIsWhole, [Next]_vars
             PROVE  ISupportIsWhole'
  OBVIOUS
<1>1. server \in Servers
  BY DEF QueriesInv, QueriesTypeOK
<1>2. CASE UNCHANGED vars
  <2>1. UNCHANGED <<asked, reply, nickname, server>>
    BY <1>2 DEF vars, registryVars, askVars
  <2> QED
    BY <2>1 DEF ISupportIsWhole, Places, info, maxOutputLength
<1>3. CASE Silent'
  <2>1. reply' = <<>>
    BY <1>3 DEF Silent
  <2> QED
    BY <2>1 DEF ISupportIsWhole
<1>4. ASSUME NEW n, UNCHANGED server, nickname'[asked'.of] = n, TellsAll(reply', info, maxOutputLength(n))
      PROVE  ISupportIsWhole'
  BY <1>4 DEF ISupportIsWhole, TellsAll, Places, info, maxOutputLength
<1>5. ASSUME NEW u \in Conns, NEW n \in Names, Welcomed(u, n)
      PROVE  ISupportIsWhole'
  <2>1. /\ nickname' = [nickname EXCEPT ![u] = n] /\ asked'.of = u /\ UNCHANGED server
        /\ reply' = <<>> \/ reply' = welcome(n, userCount')
    BY <1>5 DEF Welcomed, addUser
  <2>2. nickname'[asked'.of] = n
    BY <2>1 DEF QueriesInv, QueriesTypeOK, RegistryTypeOK
  <2>3. CASE reply' = <<>>
    BY <2>3 DEF ISupportIsWhole
  <2>4. CASE reply' = welcome(n, userCount')
    BY <1>1, <1>4, <2>1, <2>2, <2>4, WelcomeTellsAll
  <2> QED
    BY <2>1, <2>3, <2>4
<1>6. ASSUME NEW u \in Conns, NEW line \in Lines, Answered(u, line)
      PROVE  ISupportIsWhole'
  <2>1. /\ asked'.of = u /\ asked'.command = line.command
        /\ asked'.parameters = line.parameters /\ UNCHANGED <<nickname, server>>
    BY <1>6 DEF Answered, registryVars
  <2>2. line.command # Connecting
    BY QueriesAssumption
  <2>3. CASE line.command # "VERSION" \/ line.parameters # <<>>
    BY <2>1, <2>2, <2>3 DEF ISupportIsWhole
  <2>4. CASE line.command = "VERSION" /\ line.parameters = <<>>
    <3>1. reply' = handler("VERSION", <<>>, nickname[u])
      BY <1>6, <2>4, VersionIsAnswered DEF Answered
    <3>2. reply' = handleVERSION(<<>>, nickname[u])
      BY <3>1 DEF handler
    <3>3. nickname[u] \in Names
      BY <1>6, WhoAsks DEF Answered
    <3>4. TellsAll(reply', info, maxOutputLength(nickname[u]))
      BY <1>1, <3>2, <3>3, VersionTellsAll
    <3>5. nickname'[asked'.of] = nickname[u]
      BY <2>1
    <3> QED
      BY <1>4, <2>1, <3>4, <3>5
  <2> QED
    BY <2>3, <2>4
<1> QED
  BY <1>2, <1>3, <1>5, <1>6, SilentNext DEF SilenceOK

(* Who is welcomed, or asks for the version, is told every token once, in  *)
(* order, in messages that follow one another and have what is allowed     *)
(* (UserProtocol::sendISUPPORT).                                           *)
THEOREM SupportIsWhole == Spec => []ISupportIsWhole
<1>1. Init => QueriesInv /\ SilenceOK /\ ISupportIsWhole
  BY QueriesInvInit, SupportInit DEF Silent, SilenceOK
<1> QED
  BY <1>1, QueriesInvNext, SilenceNext, SupportNext, PTL DEF Spec
-----------------------------------------------------------------------------
(* With parameters enough, what is refused is what the user may not use.   *)
LEMMA AllowedIs ==
  ASSUME NEW c, NEW enough, enough = [i \in 1..2 |-> <<ServerName>>]
  PROVE  refusal(c, enough) = "NONE" <=> c \in Commands /\ hasAccess(c)
<1>1. Len(enough) = 2
  OBVIOUS
<1>2. c \in Commands => minimumParams(c) \in 0..2
  BY DEF minimumParams
<1>3. c \in Commands => ~(Len(enough) < minimumParams(c))
  BY <1>1, <1>2
<1>4. hasAccess(c) => c \notin Disabled
  BY DEF hasAccess, Disabled, Privileged
<1>5. CASE c \in Commands /\ hasAccess(c)
  BY <1>3, <1>4, <1>5 DEF refusal
<1>6. CASE c \in Commands /\ ~hasAccess(c)
  <2>1. CASE c \in Disabled
    BY <1>6, <2>1 DEF refusal
  <2>2. CASE c \notin Disabled
    BY <1>6, <2>2 DEF refusal
  <2> QED
    BY <2>1, <2>2
<1>7. CASE c \notin Commands
  BY <1>7 DEF refusal
<1> QED
  BY <1>5, <1>6, <1>7

Matches(p, c) == p = <<>> \/ c = Whole(p[1])
HelpRows(p) ==
  [i \in DOMAIN commandList |->
     When(Matches(p, commandList[i]) /\ hasAccess(commandList[i]), ToldOf("HELP", commandList[i]))]

LEMMA HelpIs ==
  ASSUME NEW p
  PROVE  /\ \A F : "HELP" \notin F => Without(FlattenSeq(HelpRows(p)), F)
         /\ handleHELP(p) = FlattenSeq(HelpRows(p)) \o <<Told("HELP_END")>>
         /\ \A m : (\E i \in DOMAIN FlattenSeq(HelpRows(p)) : FlattenSeq(HelpRows(p))[i] = m)
                     <=> \E c \in Commands : Matches(p, c) /\ hasAccess(c) /\ m = ToldOf("HELP", c)
<1> DEFINE X == {ToldOf("HELP", c) : c \in Commands}
           Y == Seq(X)
           n == 32
           ss == HelpRows(p)
           Shown(c) == Matches(p, c) /\ hasAccess(c)
<1>1. DOMAIN commandList = 1..n /\ n \in Nat /\ Commands = {commandList[i] : i \in 1..n}
  BY DEF Commands, commandList, ToSet
<1>2. ss = [i \in 1..n |-> When(Shown(commandList[i]), ToldOf("HELP", commandList[i]))]
  BY <1>1 DEF HelpRows
<1>3. \A i \in 1..n : ss[i] = IF Shown(commandList[i]) THEN <<ToldOf("HELP", commandList[i])>> ELSE <<>>
  BY <1>2 DEF When
<1>4. \A m \in X : <<m>> \in Y
  OBVIOUS
<1>5. <<>> \in Y
  OBVIOUS
<1>6. \A i \in 1..n : ToldOf("HELP", commandList[i]) \in X
  BY <1>1
<1>7. \A m \in X : m.numeric = "HELP"
  BY DEF ToldOf
<1> HIDE DEF X, Y, n, ss, Shown
<1>8. \A i \in 1..n : ss[i] \in Y
  BY <1>3, <1>4, <1>5, <1>6
<1>9. ss \in Seq(Y) /\ DOMAIN ss = 1..n
  <2>1. ss = [i \in 1..n |-> ss[i]]
    BY <1>2
  <2> QED
    BY <1>1, <1>8, <2>1, SequenceOf
<1>10. FlattenSeq(ss) \in Seq(X)
  BY <1>9, FlattenOver DEF Y
<1>11. ASSUME NEW m
       PROVE  (\E i \in DOMAIN FlattenSeq(ss) : FlattenSeq(ss)[i] = m)
                <=> \E c \in Commands : Shown(c) /\ m = ToldOf("HELP", c)
  <2>1. (\E i \in DOMAIN FlattenSeq(ss) : FlattenSeq(ss)[i] = m)
          <=> \E k \in DOMAIN ss : \E i \in DOMAIN ss[k] : ss[k][i] = m
    <3> DEFINE In(x) == \E i \in DOMAIN FlattenSeq(ss) : FlattenSeq(ss)[i] = x
               Within(x) == \E k \in DOMAIN ss : \E i \in DOMAIN ss[k] : ss[k][i] = x
    <3>1. ss \in Seq(Seq(X))
      BY <1>9 DEF Y
    <3>2. \A x : In(x) <=> Within(x)
      BY <3>1, ElementsOfFlatten, Zenon
    <3> HIDE DEF In, Within
    <3>3. In(m) <=> Within(m)
      BY <3>2
    <3> QED
      BY <3>3 DEF In, Within
  <2>2. ASSUME NEW k \in 1..n
        PROVE  (\E i \in DOMAIN ss[k] : ss[k][i] = m)
                 <=> Shown(commandList[k]) /\ m = ToldOf("HELP", commandList[k])
    <3> DEFINE row == ToldOf("HELP", commandList[k])
    <3>1. DOMAIN <<row>> = {1} /\ <<row>>[1] = row /\ DOMAIN <<>> = {}
      OBVIOUS
    <3> HIDE DEF row
    <3>2. ss[k] = IF Shown(commandList[k]) THEN <<row>> ELSE <<>>
      BY <1>3 DEF row
    <3> QED
      BY <3>1, <3>2 DEF row
  <2> QED
    BY <1>1, <1>9, <2>1, <2>2
<1>12. ASSUME NEW F, "HELP" \notin F
       PROVE  Without(FlattenSeq(ss), F)
  BY <1>7, <1>10, <1>12, WithoutIs
<1>13. handleHELP(p) = FlattenSeq(ss) \o <<Told("HELP_END")>>
  BY DEF handleHELP, ss, HelpRows, Matches
<1> QED
  BY <1>11, <1>12, <1>13 DEF ss, Shown

(* What HelpListsWhatIsAllowed says of a reply to parameters               *)
HelpTellsAll(p, r) ==
  LET enough == [i \in 1..2 |-> <<ServerName>>]
      about == IF p = <<>> THEN Commands ELSE {Whole(p[1])}
  IN {r[i].of : i \in {i \in DOMAIN r : r[i].numeric = "HELP"}}
       = {c \in about : refusal(c, enough) = "NONE"}

LEMMA HelpTells ==
  ASSUME NEW p, NEW r, r = handleHELP(p)
  PROVE  HelpTellsAll(p, r)
<1> DEFINE enough == [i \in 1..2 |-> <<ServerName>>]
           about == IF p = <<>> THEN Commands ELSE {Whole(p[1])}
           a == FlattenSeq(HelpRows(p))
           n == Len(a)
           end == Told("HELP_END")
           Helped == {i \in DOMAIN r : r[i].numeric = "HELP"}
<1>1. /\ Without(a, {"HELP_END"}) /\ r = a \o <<end>>
      /\ \A m : (\E i \in DOMAIN a : a[i] = m)
                  <=> \E c \in Commands : Matches(p, c) /\ hasAccess(c) /\ m = ToldOf("HELP", c)
  BY HelpIs
<1>2. \A c : ToldOf("HELP", c).numeric = "HELP" /\ ToldOf("HELP", c).of = c
  BY DEF ToldOf
<1>3. end.numeric # "HELP"
  BY DEF Told
<1>4. Without(a, {}) /\ n \in Nat /\ DOMAIN a = 1..n
  BY <1>1, SequenceFacts
<1> HIDE DEF a, n, end, enough, about
<1>5. /\ Len(r) = n + 1 /\ DOMAIN r = 1..(n + 1) /\ r[n + 1] = end
      /\ \A i \in 1..n : r[i] = a[i]
  <2> DEFINE e == <<end>>
  <2>1. Without(e, {}) /\ Len(e) = 1 /\ e[1] = end
    BY WithoutOne
  <2> HIDE DEF e
  <2>2. r = a \o e
    BY <1>1 DEF e
  <2>3. Without(r, {})
    BY <1>4, <2>1, <2>2, WithoutConcat
  <2>4. DOMAIN r = 1..Len(r)
    BY <2>3, SequenceFacts
  <2>5. /\ Len(r) = n + Len(e)
        /\ \A i \in 1..n : r[i] = a[i]
        /\ \A i \in 1..Len(e) : r[n + i] = e[i]
    <3>1. /\ Len(a \o e) = Len(a) + Len(e)
          /\ \A i \in 1..Len(a) : (a \o e)[i] = a[i]
          /\ \A i \in 1..Len(e) : (a \o e)[Len(a) + i] = e[i]
      <4>1. Without(a, {}) /\ Without(e, {})
        BY <1>4, <2>1
      <4> QED
        BY <4>1, ConcatFacts
    <3> QED
      BY <2>2, <3>1 DEF n
  <2> QED
    BY <2>1, <2>4, <2>5
<1>6. Helped = {i \in 1..n : r[i].numeric = "HELP"}
  <2>1. \A i : i \in 1..(n + 1) <=> i \in 1..n \/ i = n + 1
    BY <1>4
  <2> QED
    BY <1>3, <1>5, <2>1
<1>7. \A i \in 1..n : \E c \in Commands : Matches(p, c) /\ hasAccess(c) /\ r[i] = ToldOf("HELP", c)
  BY <1>1, <1>4, <1>5
<1>8. \A c \in Commands : Matches(p, c) /\ hasAccess(c) => \E i \in 1..n : r[i] = ToldOf("HELP", c)
  BY <1>1, <1>4, <1>5
<1> HIDE DEF Helped
<1>9. {r[i].of : i \in Helped} = {c \in Commands : Matches(p, c) /\ hasAccess(c)}
  <2>1. ASSUME NEW i \in Helped
        PROVE  r[i].of \in {c \in Commands : Matches(p, c) /\ hasAccess(c)}
    BY <1>2, <1>6, <1>7
  <2>2. ASSUME NEW c \in Commands, Matches(p, c), hasAccess(c)
        PROVE  \E i \in Helped : r[i].of = c
    BY <1>2, <1>6, <1>8, <2>2
  <2> QED
    BY <2>1, <2>2
<1>10. \A c : c \in about /\ refusal(c, enough) = "NONE"
                <=> c \in Commands /\ Matches(p, c) /\ hasAccess(c)
  BY AllowedIs DEF Matches, enough, about
<1>11. {r[i].of : i \in Helped} = {c \in about : refusal(c, enough) = "NONE"}
  BY <1>9, <1>10
<1> QED
  BY <1>11 DEF Helped, HelpTellsAll, enough, about

LEMMA HelpNext ==
  QueriesInv /\ SilenceOK /\ HelpListsWhatIsAllowed /\ [Next]_vars => HelpListsWhatIsAllowed'
<1> SUFFICES ASSUME SilenceOK, HelpListsWhatIsAllowed, [Next]_vars
             PROVE  HelpListsWhatIsAllowed'
  OBVIOUS
<1>1. CASE UNCHANGED vars
  BY <1>1 DEF vars, askVars, HelpListsWhatIsAllowed, Places
<1>2. CASE Silent'
  BY <1>2 DEF Silent, Nothing, HelpListsWhatIsAllowed
<1>3. ASSUME NEW u \in Conns, NEW n \in Names, Welcomed(u, n)
      PROVE  HelpListsWhatIsAllowed'
  BY <1>3 DEF Welcomed, Connecting, HelpListsWhatIsAllowed
<1>4. ASSUME NEW u \in Conns, NEW line \in Lines, Answered(u, line)
      PROVE  HelpListsWhatIsAllowed'
  <2> DEFINE p == line.parameters
  <2>1. asked'.command = line.command /\ asked'.parameters = p
    BY <1>4 DEF Answered
  <2>2. CASE line.command = "HELP"
    <3>1. p \in Seq(Seq(STRING))
      BY QueriesAssumption
    <3>2. ~(Len(p) < minimumParams("HELP"))
      <4> DEFINE Y == Seq(STRING)
      <4> HIDE DEF Y, p
      <4>1. p \in Seq(Y)
        BY <3>1 DEF Y
      <4> QED
        BY <4>1 DEF minimumParams
    <3>3. "HELP" \in Commands /\ "HELP" \notin Disabled /\ hasAccess("HELP")
      BY CommandsAre DEF Answerable, Disabled, hasAccess, Privileged
    <3>4. refusal("HELP", p) = "NONE"
      BY <3>2, <3>3 DEF refusal
    <3>5. reply' = handler("HELP", p, nickname[u])
      BY <1>4, <2>2, <3>4 DEF Answered
    <3>6. reply' = handleHELP(p)
      BY <3>5 DEF handler
    <3>7. HelpTellsAll(p, reply')
      BY <3>6, HelpTells
    <3> QED
      BY <2>1, <3>7 DEF HelpListsWhatIsAllowed, HelpTellsAll, Places
  <2> QED
    BY <2>1, <2>2 DEF HelpListsWhatIsAllowed
<1> QED
  BY <1>1, <1>2, <1>3, <1>4, SilentNext DEF SilenceOK

(* HELP lists exactly the commands, or the one it was asked about, that    *)
(* would reach their handler (UserProtocol::handleHELP, parseMessage).     *)
THEOREM HelpListsTheAllowed == Spec => []HelpListsWhatIsAllowed
<1>1. Init => QueriesInv /\ SilenceOK /\ HelpListsWhatIsAllowed
  <2>1. Nothing.command # "HELP"
    BY DEF Nothing
  <2>2. Init => HelpListsWhatIsAllowed
    BY <2>1 DEF Init, HelpListsWhatIsAllowed
  <2> QED
    BY <2>2, QueriesInvInit, SupportInit DEF Silent, SilenceOK
<1> QED
  BY <1>1, QueriesInvNext, SilenceNext, HelpNext, PTL DEF Spec
-----------------------------------------------------------------------------
(* What an answer to a command has in any case: it is there, but for that  *)
(* of NETWORKS with a parameter; it ends with its footer; its times are    *)
(* right.                                                                  *)
Answers(c, p, r) ==
  /\ r = <<>> => c = "NETWORKS" /\ p # <<>>
  /\ c \in DOMAIN Footer => \/ Len(r) = 1
                            \/ {i \in DOMAIN r : r[i].numeric = Footer[c]} = {Len(r)}
  /\ RightTimes(r)

LEMMA FooterIs ==
  /\ DOMAIN Footer = {"HELP", "INFO", "MOTD", "NAMES", "STATS", "WHOIS", "WHOWAS", "USERS"}
  /\ Footer["HELP"] = "HELP_END" /\ Footer["INFO"] = "ENDOFINFO"
  /\ Footer["MOTD"] = "ENDOFMOTD" /\ Footer["STATS"] = "ENDOFSTATS"
  /\ Footer["WHOIS"] = "ENDOFWHOIS" /\ Footer["WHOWAS"] = "ENDOFWHOWAS"
  /\ Footer["USERS"] = "ENDOFUSERS"
BY DEF Footer

LEMMA OneAnswers ==
  \A c, p, m : m.numeric \notin Timed => Answers(c, p, <<m>>)
<1> SUFFICES ASSUME NEW c, NEW p, NEW m, m.numeric \notin Timed
             PROVE  Answers(c, p, <<m>>)
  OBVIOUS
<1>1. <<m>> # <<>> /\ Len(<<m>>) = 1
  OBVIOUS
<1>2. RightTimes(<<m>>)
  BY WithoutOne, UntimedAreRight
<1> QED
  BY <1>1, <1>2 DEF Answers

LEMMA ToldAnswers ==
  \A c, p, n : n \notin Timed => Answers(c, p, <<Told(n)>>)
<1> SUFFICES ASSUME NEW c, NEW p, NEW n, n \notin Timed
             PROVE  Answers(c, p, <<Told(n)>>)
  OBVIOUS
<1>1. Told(n).numeric \notin Timed
  BY DEF Told
<1> QED
  BY <1>1, OneAnswers

(* Messages, and the footer of the command behind them                     *)
LEMMA ListAnswers ==
  ASSUME NEW c, NEW p, NEW a, NEW f, RightTimes(a), Without(a, {f}), f \notin Timed,
         c \in DOMAIN Footer => Footer[c] = f
  PROVE  Answers(c, p, a \o <<Told(f)>>)
<1> DEFINE r == a \o <<Told(f)>>
<1>1. r # <<>> /\ {i \in DOMAIN r : r[i].numeric = f} = {Len(r)}
  BY EndedOnce
<1>2. RightTimes(<<Told(f)>>)
  <2>1. Told(f).numeric \notin Timed
    BY DEF Told
  <2> QED
    BY <2>1, WithoutOne, UntimedAreRight
<1>3. RightTimes(r)
  BY <1>2, RightTogether
<1> HIDE DEF r
<1>4. Answers(c, p, r)
  BY <1>1, <1>3 DEF Answers
<1> QED
  BY <1>4 DEF r

(* The lists that are always the same                                      *)
LEMMA ListsAnswer ==
  ASSUME NEW p
  PROVE  /\ Answers("INFO", p, doINFO) /\ Answers("MOTD", p, doMOTD)
         /\ Answers("WHOWAS", p, doWHOWAS)
         /\ Answers("STATS", p, <<ToldOf("STATS", "messages"), Told("ENDOFSTATS")>>)
<1> USE DEF Told, ToldOf
<1>1. Answers("INFO", p, doINFO)
  <2> DEFINE a == Told("INFO")
             z == Told("ENDOFINFO")
             r == <<a, z>>
  <2>1. a.numeric = "INFO" /\ z.numeric = "ENDOFINFO"
    OBVIOUS
  <2> HIDE DEF a, z
  <2>2. RightTimes(r)
    <3>1. /\ a.numeric \notin Timed /\ z.numeric \notin Timed
      BY <2>1 DEF Timed
    <3>2. Without(r, Timed)
      BY <3>1, ShortReplies
    <3> HIDE DEF r
    <3> QED
      BY <3>2, UntimedAreRight
  <2>3. r # <<>> /\ DOMAIN r = 1..2 /\ Len(r) = 2 /\ r[1] = a /\ r[2] = z
    OBVIOUS
  <2> HIDE DEF r
  <2>4. {i \in DOMAIN r : r[i].numeric = "ENDOFINFO"} = {Len(r)}
    BY <2>1, <2>3
  <2>5. Answers("INFO", p, r)
    BY <2>2, <2>3, <2>4, FooterIs DEF Answers
  <2> QED
    BY <2>5 DEF r, doINFO, a, z
<1>2. Answers("STATS", p, <<ToldOf("STATS", "messages"), Told("ENDOFSTATS")>>)
  <2> DEFINE a == ToldOf("STATS", "messages")
             z == Told("ENDOFSTATS")
             r == <<a, z>>
  <2>1. a.numeric = "STATS" /\ z.numeric = "ENDOFSTATS"
    OBVIOUS
  <2> HIDE DEF a, z
  <2>2. RightTimes(r)
    <3>1. /\ a.numeric \notin Timed /\ z.numeric \notin Timed
      BY <2>1 DEF Timed
    <3>2. Without(r, Timed)
      BY <3>1, ShortReplies
    <3> HIDE DEF r
    <3> QED
      BY <3>2, UntimedAreRight
  <2>3. r # <<>> /\ DOMAIN r = 1..2 /\ Len(r) = 2 /\ r[1] = a /\ r[2] = z
    OBVIOUS
  <2> HIDE DEF r
  <2>4. {i \in DOMAIN r : r[i].numeric = "ENDOFSTATS"} = {Len(r)}
    BY <2>1, <2>3
  <2>5. Answers("STATS", p, r)
    BY <2>2, <2>3, <2>4, FooterIs DEF Answers
  <2> QED
    BY <2>5 DEF r, a, z
<1>3. Answers("MOTD", p, doMOTD)
  <2> DEFINE a == Told("MOTDSTART")
             b == Told("MOTD")
             z == Told("ENDOFMOTD")
             r == <<a, b, z>>
  <2>1. a.numeric = "MOTDSTART" /\ b.numeric = "MOTD" /\ z.numeric = "ENDOFMOTD"
    OBVIOUS
  <2> HIDE DEF a, b, z
  <2>2. RightTimes(r)
    <3>1. /\ a.numeric \notin Timed /\ b.numeric \notin Timed /\ z.numeric \notin Timed
      BY <2>1 DEF Timed
    <3>2. Without(r, Timed)
      BY <3>1, ShortReplies
    <3> HIDE DEF r
    <3> QED
      BY <3>2, UntimedAreRight
  <2>3. r # <<>> /\ DOMAIN r = 1..3 /\ Len(r) = 3 /\ r[1] = a /\ r[2] = b /\ r[3] = z
    OBVIOUS
  <2> HIDE DEF r
  <2>4. {i \in DOMAIN r : r[i].numeric = "ENDOFMOTD"} = {Len(r)}
    BY <2>1, <2>3
  <2>5. Answers("MOTD", p, r)
    BY <2>2, <2>3, <2>4, FooterIs DEF Answers
  <2> QED
    BY <2>5 DEF r, doMOTD, a, b, z
<1>4. Answers("WHOWAS", p, doWHOWAS)
  <2> DEFINE a == Told("WHOWASUSER")
             b == Told("WHOISSERVER")
             d == Told("WHOWASDETAILS")
             e == Told("WASNOSUCHNICK")
             z == Told("ENDOFWHOWAS")
             r == <<a, b, d, e, z>>
  <2>1. /\ a.numeric = "WHOWASUSER" /\ b.numeric = "WHOISSERVER"
        /\ d.numeric = "WHOWASDETAILS" /\ e.numeric = "WASNOSUCHNICK"
        /\ z.numeric = "ENDOFWHOWAS"
    OBVIOUS
  <2> HIDE DEF a, b, d, e, z
  <2>2. RightTimes(r)
    <3>1. /\ a.numeric \notin Timed /\ b.numeric \notin Timed /\ d.numeric \notin Timed
          /\ e.numeric \notin Timed /\ z.numeric \notin Timed
      BY <2>1 DEF Timed
    <3>2. Without(r, Timed)
      BY <3>1, ShortReplies
    <3> HIDE DEF r
    <3> QED
      BY <3>2, UntimedAreRight
  <2>3. /\ r # <<>> /\ DOMAIN r = 1..5 /\ Len(r) = 5
        /\ r[1] = a /\ r[2] = b /\ r[3] = d /\ r[4] = e /\ r[5] = z
    OBVIOUS
  <2> HIDE DEF r
  <2>4. {i \in DOMAIN r : r[i].numeric = "ENDOFWHOWAS"} = {Len(r)}
    BY <2>1, <2>3
  <2>5. Answers("WHOWAS", p, r)
    BY <2>2, <2>3, <2>4, FooterIs DEF Answers
  <2> QED
    BY <2>5 DEF r, doWHOWAS, a, b, d, e, z
<1> QED
  BY <1>1, <1>2, <1>3, <1>4

(* Or another server is named.                                             *)
LEMMA ElsewhereAnswers ==
  \A c, p, k, r : (Len(p) >= k) \in BOOLEAN /\ Answers(c, p, r) => Answers(c, p, Elsewhere(p, k, r))
BY ToldAnswers DEF Elsewhere, Timed

(* STATS                                                                   *)
LEMMA RequestIsMeant ==
  ASSUME NEW meant, meant \subseteq DOMAIN statsCommands, meant # {}
  PROVE  statsCommands[Min(meant)].request
           \in {"languages", "listconnections", "operators", "resources", "uptime"}
<1>1. DOMAIN statsCommands = 1..5
  BY DEF statsCommands
<1>2. \A i \in 1..5 : statsCommands[i].request
        \in {"languages", "listconnections", "operators", "resources", "uptime"}
  BY DEF statsCommands
<1>3. Min(meant) \in meant
  BY <1>1, MinOfNumbers
<1> QED
  BY <1>1, <1>2, <1>3

LEMMA StatsRows ==
  ASSUME server \in Servers
  PROVE  LET F == {"ENDOFSTATS", "TIMEONSERVERIS"}
         IN /\ Without(handleLanguages, Timed \cup F) /\ Without(handleListConnections, Timed \cup F)
            /\ Without(handleOperators, Timed \cup F) /\ Without(handleResources, Timed \cup F)
            /\ Without(handleUptime, F)
<1> DEFINE F == {"ENDOFSTATS", "TIMEONSERVERIS"}
           G == Timed \cup F
<1>1. Without(handleLanguages, G)
  <2> DEFINE n == Len(server.languages)
             r == [i \in 1..n |-> Told("NONE")]
  <2>1. server.languages \in Seq(Nat)
    BY QueriesAssumption
  <2>2. n \in Nat /\ DOMAIN server.languages = 1..n
    BY <2>1
  <2>3. handleLanguages = r
    BY <2>2 DEF handleLanguages
  <2> HIDE DEF n
  <2>4. r = [i \in 1..n |-> r[i]] /\ \A i \in 1..n : r[i].numeric \notin G
    BY DEF Told, Timed
  <2> HIDE DEF r, G
  <2> QED
    BY <2>2, <2>3, <2>4, WithoutRows
<1>2. Without(handleListConnections, G) /\ Without(handleOperators, G)
  <2> DEFINE a == ToldOf("STATSLINKINFO", Open)
             b == Told("STATSOLINE")
  <2>1. a.numeric \notin G /\ b.numeric \notin G
    BY DEF Told, ToldOf, Timed
  <2> HIDE DEF a, b, G
  <2>2. Without(<<a>>, G) /\ Without(<<b>>, G)
    BY <2>1, WithoutOne
  <2> QED
    BY <2>2 DEF handleListConnections, handleOperators, a, b
<1>3. Without(handleResources, G)
  <2> DEFINE ss == [i \in DOMAIN resourceTable |->
                      When(resourceTable[i].call \in server.calls,
                           ToldOf("NONE", resourceTable[i].row))]
  <2>1. DOMAIN resourceTable = 1..6 /\ 6 \in Nat
    BY DEF resourceTable
  <2>2. \A i \in 1..6 : ToldOf("NONE", resourceTable[i].row).numeric \notin G
    BY DEF ToldOf, Timed
  <2>3. \A i \in 1..6 : (resourceTable[i].call \in server.calls) \in BOOLEAN
    OBVIOUS
  <2> HIDE DEF G
  <2>4. \A i \in 1..6 : Without(ss[i], G)
    BY <2>1, <2>2, <2>3, WithoutWhen
  <2>5. ss = [i \in 1..6 |-> ss[i]]
    BY <2>1
  <2>6. handleResources = FlattenSeq(ss)
    BY DEF handleResources
  <2> HIDE DEF ss
  <2> QED
    BY <2>1, <2>4, <2>5, <2>6, WithoutFlatten
<1>4. Without(handleUptime, F)
  <2> DEFINE t == server.uptime
             m == ToldOf("STATSUPTIME",
                         [days |-> t \div 86400, hours |-> (t % 86400) \div 3600,
                          minutes |-> (t % 3600) \div 60, seconds |-> t % 60])
  <2> HIDE DEF t
  <2>1. m.numeric \notin F
    BY DEF ToldOf
  <2>2. handleUptime = <<m>>
    BY DEF handleUptime, t
  <2> HIDE DEF m
  <2> QED
    BY <2>1, <2>2, WithoutOne
<1> QED
  BY <1>1, <1>2, <1>3, <1>4

LEMMA StatsAnswer ==
  ASSUME server \in Servers, NEW p, NEW request
  PROVE  Answers("STATS", p, doSTATS(request))
<1> DEFINE meant == {i \in DOMAIN statsCommands :
                       Abbreviates(request, statsCommands[i].request, statsCommands[i].minChars)}
           first == IF meant = {} THEN "none" ELSE statsCommands[Min(meant)].request
           rows == CASE first = "languages" -> handleLanguages
                     [] first = "listconnections" -> handleListConnections
                     [] first = "operators" -> handleOperators
                     [] first = "resources" -> handleResources
                     [] first = "uptime" -> handleUptime
                     [] first = "none" -> <<>>
           end == Told("ENDOFSTATS")
<1>1. doSTATS(request) = rows \o <<end>>
  BY DEF doSTATS
<1>2. first \in {"languages", "listconnections", "operators", "resources", "uptime", "none"}
  <2>1. meant \subseteq DOMAIN statsCommands
    OBVIOUS
  <2> HIDE DEF meant
  <2> QED
    BY <2>1, RequestIsMeant
<1> HIDE DEF meant, first, end
<1>3. rows \in {handleLanguages, handleListConnections, handleOperators, handleResources,
                handleUptime, <<>>}
  BY <1>2
<1> HIDE DEF rows
<1>4. \A r \in {handleLanguages, handleListConnections, handleOperators, handleResources, <<>>} :
        RightTimes(r) /\ Without(r, {"ENDOFSTATS"})
  <2> DEFINE G == Timed \cup {"ENDOFSTATS", "TIMEONSERVERIS"}
  <2> TAKE r \in {handleLanguages, handleListConnections, handleOperators, handleResources, <<>>}
  <2>1. Without(r, G)
    BY StatsRows, WithoutOne
  <2>2. Timed \subseteq G /\ {"ENDOFSTATS"} \subseteq G
    OBVIOUS
  <2> HIDE DEF G
  <2>3. Without(r, Timed) /\ Without(r, {"ENDOFSTATS"})
    BY <2>1, <2>2, WithoutLess
  <2> QED
    BY <2>3, UntimedAreRight
<1>5. RightTimes(handleUptime) /\ Without(handleUptime, {"ENDOFSTATS"})
  BY UptimeIsRight, StatsRows, WithoutLess
<1>6. RightTimes(rows) /\ Without(rows, {"ENDOFSTATS"})
  BY <1>3, <1>4, <1>5
<1>7. "ENDOFSTATS" \notin Timed
  BY DEF Timed
<1> QED
  BY <1>1, <1>6, <1>7, FooterIs, ListAnswers DEF end

(* USERS                                                                   *)
LEMMA UsersAnswer ==
  ASSUME server \in Servers, NEW p
  PROVE  Answers("USERS", p, doUSERS)
<1> DEFINE n == server.loggedIn
           start == <<Told("USERSSTART")>>
           none == <<Told("NOUSERS")>>
           rows == [i \in 1..n |-> Told("USERS")]
           a == start \o (IF n = 0 THEN none ELSE rows)
           G == Timed \cup {"ENDOFUSERS"}
<1>1. n \in Nat
  BY QueriesAssumption
<1>2. Without(start, G) /\ Without(none, G)
  <2> DEFINE b == Told("USERSSTART")
             c == Told("NOUSERS")
  <2>1. b.numeric \notin G /\ c.numeric \notin G
    BY DEF Told, Timed
  <2> HIDE DEF b, c, G
  <2>2. Without(<<b>>, G) /\ Without(<<c>>, G)
    BY <2>1, WithoutOne
  <2> QED
    BY <2>2 DEF b, c
<1>3. Without(rows, G)
  <2> HIDE DEF n
  <2>1. rows = [i \in 1..n |-> rows[i]] /\ \A i \in 1..n : rows[i].numeric \notin G
    BY DEF Told, Timed
  <2> HIDE DEF rows, G
  <2> QED
    BY <1>1, <2>1, WithoutRows
<1>4. doUSERS \in {<<Told("USERSDISABLED")>>, a \o <<Told("ENDOFUSERS")>>}
  BY DEF doUSERS
<1>5. Without(a, G)
  <2> HIDE DEF start, none, rows, G
  <2> QED
    BY <1>2, <1>3, WithoutConcat
<1> HIDE DEF a
<1>6. Without(a, Timed) /\ Without(a, {"ENDOFUSERS"})
  <2>1. Timed \subseteq G /\ {"ENDOFUSERS"} \subseteq G
    OBVIOUS
  <2> HIDE DEF G
  <2> QED
    BY <1>5, <2>1, WithoutLess
<1>7. "ENDOFUSERS" \notin Timed /\ "USERSDISABLED" \notin Timed
  BY DEF Timed
<1>8. Answers("USERS", p, a \o <<Told("ENDOFUSERS")>>)
  BY <1>6, <1>7, FooterIs, UntimedAreRight, ListAnswers
<1>9. Answers("USERS", p, <<Told("USERSDISABLED")>>)
  BY <1>7, ToldAnswers
<1> QED
  BY <1>4, <1>8, <1>9

(* WHOIS                                                                   *)
WhoisNumerics == {"WHOISUSER", "WHOIS_HIDDEN", "WHOISSERVER", "WHOISLANGUAGE", "AWAY",
                  "WHOISIDLE", "NOSUCHNICK"}

LEMMA HolderIs ==
  ASSUME QueriesInv, NEW n
  PROVE  holder(n) \in Conns \cup {NoConn}
<1>1. CASE n \in Names
  <2>1. IRCtoLower[n] \in Keys
    BY <1>1, BaseAssumption
  <2> QED
    BY <1>1, <2>1 DEF holder, findUser, QueriesInv, QueriesTypeOK, RegistryTypeOK
<1>2. CASE n \notin Names
  BY <1>2 DEF holder
<1> QED
  BY <1>1, <1>2

LEMMA WhoisOneIs ==
  ASSUME QueriesInv, NEW n, NEW F, F \cap WhoisNumerics = {}
  PROVE  Without(whoisOne(n), F)
<1> DEFINE v == holder(n)
<1>1. CASE v = NoConn
  <2>1. ToldOf("NOSUCHNICK", n).numeric \notin F
    BY DEF ToldOf, WhoisNumerics
  <2> QED
    BY <1>1, <2>1, WithoutOne DEF whoisOne
<1>2. CASE v # NoConn
  <2>1. away[v] \in BOOLEAN /\ speaks[v] \in BOOLEAN
    BY <1>2, HolderIs DEF QueriesInv, UsersOK
  <2> DEFINE m1 == ToldOf("WHOISUSER", v)
             m2 == ToldOf("WHOIS_HIDDEN", v)
             m3 == ToldOf("WHOISSERVER", v)
             m4 == ToldOf("WHOISLANGUAGE", v)
             m5 == ToldOf("AWAY", v)
             m6 == ToldOf("WHOISIDLE", v)
  <2>2. /\ m1.numeric \notin F /\ m2.numeric \notin F /\ m3.numeric \notin F
        /\ m4.numeric \notin F /\ m5.numeric \notin F /\ m6.numeric \notin F
    BY DEF ToldOf, WhoisNumerics
  <2>3. whoisOne(n) = <<m1, m2, m3>> \o When(speaks[v], m4) \o When(away[v], m5) \o <<m6>>
    BY <1>2 DEF whoisOne, whoisUser
  <2> HIDE DEF m1, m2, m3, m4, m5, m6, v
  <2>4. Without(<<m1, m2, m3>>, F) /\ Without(<<m6>>, F)
    BY <2>2, ShortReplies
  <2>5. Without(When(speaks[v], m4), F) /\ Without(When(away[v], m5), F)
    BY <2>1, <2>2, WithoutWhen
  <2> QED
    BY <2>3, <2>4, <2>5, WithoutConcat
<1> QED
  BY <1>1, <1>2

LEMMA WhoisAnswers ==
  ASSUME QueriesInv, NEW p, NEW targets \in Seq(STRING)
  PROVE  Answers("WHOIS", p, doWHOIS(targets))
<1> DEFINE n == Len(targets)
           ss == [i \in DOMAIN targets |-> whoisOne(targets[i])]
           F == Timed \cup {"ENDOFWHOIS"}
<1>1. n \in Nat /\ DOMAIN targets = 1..n
  OBVIOUS
<1>2. F \cap WhoisNumerics = {}
  BY DEF Timed, WhoisNumerics
<1> HIDE DEF F, n
<1>3. ss = [i \in 1..n |-> ss[i]] /\ \A i \in 1..n : Without(ss[i], F)
  BY <1>1, <1>2, WhoisOneIs
<1>4. doWHOIS(targets) = FlattenSeq(ss) \o <<Told("ENDOFWHOIS")>>
  BY DEF doWHOIS
<1> HIDE DEF ss
<1>5. Without(FlattenSeq(ss), F)
  BY <1>1, <1>3, WithoutFlatten
<1>6. Without(FlattenSeq(ss), Timed) /\ Without(FlattenSeq(ss), {"ENDOFWHOIS"})
  BY <1>5, WithoutLess DEF F
<1>7. "ENDOFWHOIS" \notin Timed
  BY DEF Timed
<1> QED
  BY <1>4, <1>6, <1>7, FooterIs, UntimedAreRight, ListAnswers

(* HELP                                                                    *)
LEMMA HelpAnswers ==
  ASSUME NEW p
  PROVE  Answers("HELP", p, handleHELP(p))
<1> DEFINE a == FlattenSeq(HelpRows(p))
<1>1. /\ \A F : "HELP" \notin F => Without(a, F)
      /\ handleHELP(p) = a \o <<Told("HELP_END")>>
  BY HelpIs
<1>2. "HELP_END" \notin Timed /\ "HELP" \notin Timed /\ "HELP" \notin {"HELP_END"}
  BY DEF Timed
<1> HIDE DEF a
<1>3. RightTimes(a) /\ Without(a, {"HELP_END"})
  BY <1>1, <1>2, UntimedAreRight
<1> QED
  BY <1>1, <1>2, <1>3, FooterIs, ListAnswers

(* Answers of which nothing ends                                           *)
LEMMA PlainAnswers ==
  ASSUME server \in Servers, NEW p, NEW n \in Names
  PROVE  /\ Answers("LUSERS", p, doLUSERS(userCount))
         /\ Answers("TIME", p, doTIME)
         /\ Answers("VERSION", p, doVERSION \o sendISUPPORT(n))
<1>1. \A c \in {"LUSERS", "TIME", "VERSION"} : c \notin DOMAIN Footer
  BY FooterIs
<1>2. Answers("LUSERS", p, doLUSERS(userCount))
  <2>1. RightTimes(doLUSERS(userCount))
    BY CountersAreTold, UntimedAreRight DEF Timed
  <2>2. doLUSERS(userCount) # <<>>
    BY DEF doLUSERS
  <2> QED
    BY <1>1, <2>1, <2>2 DEF Answers
<1>3. Answers("TIME", p, doTIME)
  <2> DEFINE m == ToldOf("TIME", offset(server.timezone))
             a == sendTimeOnServer
  <2>1. m.numeric \notin Timed
    BY DEF ToldOf, Timed
  <2> HIDE DEF m, a
  <2>2. RightTimes(<<m>>) /\ RightTimes(a) /\ Without(a, {})
    BY <2>1, WithoutOne, UntimedAreRight, ZoneIsRight DEF a, RightTimes
  <2>3. RightTimes(a \o <<m>>)
    BY <2>2, RightTogether
  <2>4. a \o <<m>> # <<>>
    <3> DEFINE e == <<m>>
    <3>1. Without(e, {}) /\ Len(e) = 1
      BY WithoutOne
    <3> HIDE DEF e
    <3>2. Len(a \o e) = Len(a) + Len(e) /\ Len(a) \in Nat
      BY <2>2, <3>1, ConcatFacts, SequenceFacts
    <3>3. Len(<<>>) = 0
      OBVIOUS
    <3> QED
      BY <3>1, <3>2, <3>3 DEF e
  <2> QED
    BY <1>1, <2>3, <2>4 DEF Answers, doTIME, a, m
<1>4. Answers("VERSION", p, doVERSION \o sendISUPPORT(n))
  <2> DEFINE s == sendISUPPORT(n)
             m == Told("VERSION")
             e == <<m>>
  <2>1. m.numeric \notin Timed /\ "ISUPPORT" \notin Timed
    BY DEF Told, Timed
  <2> HIDE DEF s, m
  <2>2. Without(e, Timed) /\ Without(s, Timed)
    BY <2>1, WithoutOne, SupportIs DEF s
  <2>3. RightTimes(e \o s)
    BY <2>2, WithoutConcat, UntimedAreRight
  <2>4. e \o s # <<>>
    <3>1. Without(e, {}) /\ Without(s, {}) /\ Len(e) = 1 /\ Len(<<>>) = 0
      BY <2>2, SequenceFacts
    <3> HIDE DEF e
    <3>2. Len(e \o s) = Len(e) + Len(s) /\ Len(s) \in Nat
      BY <3>1, ConcatFacts, SequenceFacts
    <3> QED
      BY <3>1, <3>2
  <2> QED
    BY <1>1, <2>3, <2>4 DEF Answers, doVERSION, s, m
<1> QED
  BY <1>2, <1>3, <1>4

LEMMA HandlerAnswers ==
  ASSUME QueriesInv, NEW c \in Answerable, NEW p \in Seq(Seq(STRING)),
         ~(Len(p) < minimumParams(c)), NEW n \in Names
  PROVE  Answers(c, p, handler(c, p, n))
<1> DEFINE r == handler(c, p, n)
           Y == Seq(STRING)
<1>1. server \in Servers
  BY DEF QueriesInv, QueriesTypeOK
<1>2. Len(p) \in Nat /\ \A i \in 1..Len(p) : p[i] \in Y
  <2> HIDE DEF Y
  <2>1. p \in Seq(Y)
    BY DEF Y
  <2> QED
    BY <2>1
<1>3. \A k \in Nat : (Len(p) >= k) \in BOOLEAN
  OBVIOUS
<1> HIDE DEF Y
<1>4. CASE c = "ADMIN"
  <2>1. r = handleADMIN(p)
    BY <1>4 DEF handler
  <2>2. handleADMIN(p) \in {<<Told("UNKNOWNERROR")>>, <<Told("NOSUCHSERVER")>>}
    BY DEF handleADMIN, requestAdminInfo
  <2>3. "UNKNOWNERROR" \notin Timed /\ "NOSUCHSERVER" \notin Timed
    BY DEF Timed
  <2> HIDE DEF r
  <2> QED
    BY <2>1, <2>2, <2>3, ToldAnswers DEF r
<1>5. CASE c = "HELP"
  BY <1>5, HelpAnswers DEF handler
<1>6. CASE c = "INFO"
  BY <1>3, <1>6, ListsAnswer, ElsewhereAnswers DEF handler, handleINFO
<1>7. CASE c \in {"ISON", "USERHOST"}
  <2>1. r = handleISON(p) \/ r = handleUSERHOST(p)
    BY <1>7 DEF handler
  <2>2. \E x, y : /\ y \in {"ISON", "USERHOST"} /\ r = <<ToldOf(y, x)>>
    BY <2>1 DEF handleISON, handleUSERHOST
  <2> HIDE DEF r
  <2>3. PICK x, y : y \in {"ISON", "USERHOST"} /\ r = <<ToldOf(y, x)>>
    BY <2>2
  <2>4. ToldOf(y, x).numeric \notin Timed
    BY <2>3 DEF ToldOf, Timed
  <2>5. Answers(c, p, r)
    BY <2>3, <2>4, OneAnswers
  <2> QED
    BY <2>5 DEF r
<1>8. CASE c \in {"JOIN", "NAMES", "OPER", "PART"}
  <2>1. r \in {handleJOIN, handleNAMES, handleOPER, handlePART}
    BY <1>8 DEF handler
  <2>2. {"NOSUCHCHANNEL", "ENDOFNAMES", "NOOPERHOST", "NOTONCHANNEL"} \cap Timed = {}
    BY DEF Timed
  <2> HIDE DEF r
  <2>3. \E y \in {"NOSUCHCHANNEL", "ENDOFNAMES", "NOOPERHOST", "NOTONCHANNEL"} : r = <<Told(y)>>
    BY <2>1 DEF handleJOIN, handleNAMES, handleOPER, handlePART
  <2>4. Answers(c, p, r)
    BY <2>2, <2>3, ToldAnswers
  <2> QED
    BY <2>4 DEF r
<1>9. CASE c = "LUSERS"
  BY <1>1, <1>3, <1>9, PlainAnswers, ElsewhereAnswers DEF handler, handleLUSERS
<1>10. CASE c = "MOTD"
  BY <1>3, <1>10, ListsAnswer, ElsewhereAnswers DEF handler, handleMOTD
<1>11. CASE c = "NETWORKS"
  <2>1. r = handleNETWORKS(p)
    BY <1>11 DEF handler
  <2>2. CASE p = <<>>
    <3>1. r = <<Told("ENDOF_GENERIC")>> /\ "ENDOF_GENERIC" \notin Timed
      BY <2>1, <2>2 DEF handleNETWORKS, Timed
    <3> HIDE DEF r
    <3>2. Answers(c, p, r)
      BY <3>1, ToldAnswers
    <3> QED
      BY <3>2 DEF r
  <2>3. CASE p # <<>>
    <3>1. r = <<>>
      BY <2>1, <2>3 DEF handleNETWORKS
    <3>2. RightTimes(<<>>) /\ c \notin DOMAIN Footer
      BY <1>11, FooterIs, WithoutOne, UntimedAreRight
    <3> QED
      BY <1>11, <2>3, <3>1, <3>2 DEF Answers
  <2> QED
    BY <2>2, <2>3
<1>12. CASE c = "NICK"
  <2>1. r = handleNICK(p)
    BY <1>12 DEF handler
  <2>2. r \in {<<Told("NONICKNAMEGIVEN")>>, <<Told("ERRONEUSNICKNAME")>>}
    BY <2>1 DEF handleNICK, changeNickname
  <2>3. "NONICKNAMEGIVEN" \notin Timed /\ "ERRONEUSNICKNAME" \notin Timed
    BY DEF Timed
  <2> HIDE DEF r
  <2>4. Answers(c, p, r)
    BY <2>2, <2>3, ToldAnswers
  <2> QED
    BY <2>4 DEF r
<1>13. CASE c = "PING"
  <2>1. r = handlePING(p)
    BY <1>13 DEF handler
  <2>2. r \in {<<Told("NOORIGIN")>>, <<Told("PONG")>>}
    BY <2>1 DEF handlePING
  <2>3. "NOORIGIN" \notin Timed /\ "PONG" \notin Timed
    BY DEF Timed
  <2> HIDE DEF r
  <2>4. Answers(c, p, r)
    BY <2>2, <2>3, ToldAnswers
  <2> QED
    BY <2>4 DEF r
<1>14. CASE c = "STATS"
  <2> DEFINE one == IF Abbreviates(Whole(p[1]), "messages", 1)
                    THEN <<ToldOf("STATS", "messages"), Told("ENDOFSTATS")>>
                    ELSE doSTATS(Whole(p[1]))
  <2>1. r = Elsewhere(p, 2, one)
    BY <1>14 DEF handler, handleSTATS
  <2>2. Answers(c, p, one)
    BY <1>1, <1>14, ListsAnswer, StatsAnswer
  <2> HIDE DEF one, r
  <2>3. Answers(c, p, r)
    BY <1>3, <2>1, <2>2, ElsewhereAnswers
  <2> QED
    BY <2>3 DEF r
<1>15. CASE c = "SUMMON"
  <2> DEFINE one == <<Told("SUMMONDISABLED")>>
  <2>1. r = Elsewhere(p, 2, one)
    BY <1>15 DEF handler, handleSUMMON
  <2>2. Answers(c, p, one)
    <3>1. "SUMMONDISABLED" \notin Timed
      BY DEF Timed
    <3> QED
      BY <3>1, ToldAnswers
  <2> HIDE DEF one, r
  <2>3. Answers(c, p, r)
    BY <1>3, <2>1, <2>2, ElsewhereAnswers
  <2> QED
    BY <2>3 DEF r
<1>16. CASE c = "TIME"
  BY <1>1, <1>3, <1>16, PlainAnswers, ElsewhereAnswers DEF handler, handleTIME
<1>17. CASE c = "USERS"
  BY <1>1, <1>3, <1>17, UsersAnswer, ElsewhereAnswers DEF handler, handleUSERS
<1>18. CASE c = "VERSION"
  BY <1>1, <1>3, <1>18, PlainAnswers, ElsewhereAnswers DEF handler, handleVERSION
<1>19. CASE c = "WHOIS"
  <2> DEFINE one == doWHOIS(p[1])
  <2>1. r = Elsewhere(p, 2, one)
    BY <1>19 DEF handler, handleWHOIS
  <2>2. p[1] \in Seq(STRING)
    BY <1>2, <1>19 DEF Y, minimumParams
  <2>3. Answers(c, p, one)
    BY <1>19, <2>2, WhoisAnswers
  <2> HIDE DEF one, r
  <2>4. Answers(c, p, r)
    BY <1>3, <2>1, <2>3, ElsewhereAnswers
  <2> QED
    BY <2>4 DEF r
<1>20. CASE c = "WHOWAS"
  BY <1>3, <1>20, ListsAnswer, ElsewhereAnswers DEF handler, handleWHOWAS
<1> QED
  BY <1>4, <1>5, <1>6, <1>7, <1>8, <1>9, <1>10, <1>11, <1>12, <1>13, <1>14, <1>15, <1>16,
     <1>17, <1>18, <1>19, <1>20 DEF Answerable

(* What anyone is told that sends a line, refused or not                   *)
LEMMA LineIsAnswered ==
  ASSUME QueriesInv, NEW u \in Conns, NEW line \in Lines, Answered(u, line)
  PROVE  Answers(line.command, line.parameters, reply')
<1> DEFINE c == line.command
           p == line.parameters
           refused == refusal(c, p)
<1>1. c \notin NotAsked /\ p \in Seq(Seq(STRING))
  BY QueriesAssumption
<1>2. CASE refused = "NONE"
  <2>1. reply' = handler(c, p, nickname[u])
    BY <1>2 DEF Answered
  <2>2. c \in Answerable /\ ~(Len(p) < minimumParams(c))
    BY <1>1, <1>2, Reaches
  <2>3. nickname[u] \in Names
    BY WhoAsks DEF Answered
  <2> QED
    BY <1>1, <2>1, <2>2, <2>3, HandlerAnswers
<1>3. CASE refused # "NONE"
  <2>1. reply' = <<Told(refused)>>
    BY <1>3 DEF Answered
  <2>2. refused \in {"UNKNOWNCOMMAND", "DISABLED", "NOPRIVILEGES", "NEEDMOREPARAMS", "NONE"}
    <3>1. CASE c \in Commands \ Disabled /\ hasAccess(c)
      BY <3>1 DEF refusal
    <3>2. CASE c \notin Commands \ Disabled \/ ~hasAccess(c)
      BY <3>2 DEF refusal
    <3> QED
      BY <3>1, <3>2
  <2>3. refused \notin Timed
    BY <2>2 DEF Timed
  <2> QED
    BY <2>1, <2>3, ToldAnswers
<1> QED
  BY <1>2, <1>3
-----------------------------------------------------------------------------
(* The times of a welcome are right, and it is not empty.                  *)
LEMMA WelcomeIsRight ==
  ASSUME server \in Servers, NEW n \in Names, NEW count
  PROVE  RightTimes(welcome(n, count)) /\ welcome(n, count) # <<>>
<1> DEFINE h == <<Told("WELCOME"), Told("YOURHOST"), Told("CREATED"), Told("MYINFO")>>
           s == sendISUPPORT(n)
           l == <<Told("YOURLANGUAGEIS")>>
           z == sendTimeOnServer
           c == doLUSERS(count)
           a == ((((h \o s) \o l) \o z) \o c)
<1>1. RightTimes(h) /\ RightTimes(l)
  <2> DEFINE m1 == Told("WELCOME")
             m2 == Told("YOURHOST")
             m3 == Told("CREATED")
             m4 == Told("MYINFO")
             m5 == Told("YOURLANGUAGEIS")
  <2>1. /\ m1.numeric \notin Timed /\ m2.numeric \notin Timed /\ m3.numeric \notin Timed
        /\ m4.numeric \notin Timed /\ m5.numeric \notin Timed
    BY DEF Told, Timed
  <2> HIDE DEF m1, m2, m3, m4, m5
  <2>2. Without(<<m1, m2, m3, m4>>, Timed) /\ Without(<<m5>>, Timed)
    BY <2>1, ShortReplies
  <2>3. RightTimes(<<m1, m2, m3, m4>>) /\ RightTimes(<<m5>>)
    BY <2>2, UntimedAreRight
  <2> QED
    BY <2>3 DEF m1, m2, m3, m4, m5
<1>2. RightTimes(s) /\ RightTimes(z) /\ RightTimes(c) /\ RightTimes(doMOTD)
  <2>1. Without(s, Timed)
    BY SupportIs DEF Timed
  <2>2. Without(c, Timed) /\ Without(doMOTD, Timed)
    BY CountersAreTold, MessagesOfTheDay DEF Timed
  <2> QED
    BY <2>1, <2>2, UntimedAreRight, ZoneIsRight
<1>3. welcome(n, count) = a \o doMOTD
  BY DEF welcome
<1> HIDE DEF h, s, l, z, c
<1>4. RightTimes(a)
  BY <1>1, <1>2, RightTogether
<1> HIDE DEF a
<1>5. RightTimes(a \o doMOTD)
  BY <1>2, <1>4, RightTogether
<1>6. a \o doMOTD # <<>>
  <2>1. Without(a, {}) /\ Without(doMOTD, {}) /\ Len(a) \in Nat
    BY <1>2, <1>4, SequenceFacts DEF RightTimes
  <2>2. Len(a \o doMOTD) = Len(a) + Len(doMOTD)
    BY <2>1, ConcatFacts
  <2>3. Len(doMOTD) = 3 /\ Len(<<>>) = 0
    BY DEF doMOTD
  <2> QED
    BY <2>1, <2>2, <2>3
<1> QED
  BY <1>3, <1>5, <1>6

LEMMA EndNext ==
  QueriesInv /\ SilenceOK /\ QueriesEnd /\ [Next]_vars => QueriesEnd'
<1> SUFFICES ASSUME QueriesInv, SilenceOK, QueriesEnd, [Next]_vars
             PROVE  QueriesEnd'
  OBVIOUS
<1>1. CASE UNCHANGED vars
  <2>1. UNCHANGED <<asked, reply, users>>
    BY <1>1 DEF vars, registryVars, askVars
  <2> QED
    BY <2>1 DEF QueriesEnd, Places, Registered
<1>2. CASE Silent'
  BY <1>2 DEF Silent, QueriesEnd
<1>3. ASSUME NEW u \in Conns, NEW n \in Names, Welcomed(u, n)
      PROVE  QueriesEnd'
  <2>1. /\ asked'.of = u /\ asked'.command = Connecting
    BY <1>3 DEF Welcomed
  <2>2. Connecting \notin DOMAIN Footer
    BY FooterIs DEF Connecting
  <2>3. reply' # <<>> <=> \E k \in Registered' : users'[k] = u
    <3>1. nickname[u] = NoName
      BY <1>3 DEF Welcomed, addUser
    <3>2. CASE addUserError(n) = "NO_ERROR"
      <4>1. users' = [users EXCEPT ![IRCtoLower[n]] = u]
        BY <1>3, <3>2 DEF Welcomed, addUser
      <4>2. IRCtoLower[n] \in Keys /\ u # NoConn /\ users \in [Keys -> Conns \cup {NoConn}]
        BY BaseAssumption DEF QueriesInv, QueriesTypeOK, RegistryTypeOK
      <4>3. IRCtoLower[n] \in Registered' /\ users'[IRCtoLower[n]] = u
        BY <4>1, <4>2 DEF Registered
      <4>4. reply' # <<>>
        <5>1. reply' = welcome(n, userCount')
          BY <1>3, <3>2 DEF Welcomed
        <5>2. server \in Servers
          BY DEF QueriesInv, QueriesTypeOK
        <5> QED
          BY <5>1, <5>2, WelcomeIsRight
      <4> QED
        BY <4>3, <4>4
    <3>3. CASE addUserError(n) # "NO_ERROR"
      <4>1. users' = users /\ reply' = <<>>
        BY <1>3, <3>3 DEF Welcomed, addUser
      <4>2. \A k \in Registered : users[k] # u
        BY <3>1, BaseAssumption DEF QueriesInv, RegistryInv, KeysMatchNicknames
      <4> QED
        BY <4>1, <4>2 DEF Registered
    <3> QED
      BY <3>2, <3>3
  <2> QED
    BY <2>1, <2>2, <2>3 DEF QueriesEnd
<1>4. ASSUME NEW u \in Conns, NEW line \in Lines, Answered(u, line)
      PROVE  QueriesEnd'
  <2> DEFINE c == line.command
             p == line.parameters
  <2>1. asked'.of = u /\ asked'.command = c /\ asked'.parameters = p
    BY <1>4 DEF Answered
  <2>2. c # Connecting
    BY QueriesAssumption
  <2>3. Answers(c, p, reply')
    BY <1>4, LineIsAnswered
  <2> HIDE DEF c, p
  <2> QED
    BY <2>1, <2>2, <2>3 DEF QueriesEnd, Answers, Places
<1> QED
  BY <1>1, <1>2, <1>3, <1>4, SilentNext DEF SilenceOK

(* Whoever sends a line is answered, but for NETWORKS with a parameter; who*)
(* connects is welcomed if and only if the registry lists it; and a list is*)
(* ended by its footer, once and at its end (parseMessage, UserProtocol's  *)
(* constructor, and every handler).                                        *)
THEOREM AnswersEnd == Spec => []QueriesEnd
<1>1. Init => QueriesInv /\ SilenceOK /\ QueriesEnd
  <2>1. Init => QueriesEnd
    BY DEF Init, QueriesEnd
  <2> QED
    BY <2>1, QueriesInvInit, SupportInit DEF Silent, SilenceOK
<1> QED
  BY <1>1, QueriesInvNext, SilenceNext, EndNext, PTL DEF Spec

LEMMA StatsTold ==
  StatsTellTheState
    <=> \A i \in DOMAIN reply : RightTime(reply[i], server.uptime, server.timezone)
BY DEF StatsTellTheState, RightTime

LEMMA StatsNext ==
  QueriesInv /\ SilenceOK /\ StatsTellTheState /\ [Next]_vars => StatsTellTheState'
<1> SUFFICES ASSUME QueriesInv, SilenceOK, StatsTellTheState, [Next]_vars
             PROVE  StatsTellTheState'
  OBVIOUS
<1>1. CASE UNCHANGED vars
  <2>1. UNCHANGED <<reply, server>>
    BY <1>1 DEF vars, askVars
  <2> QED
    BY <2>1 DEF StatsTellTheState
<1>2. ASSUME RightTimes(reply'), UNCHANGED server
      PROVE  StatsTellTheState'
  <2>1. \A i \in DOMAIN reply' : RightTime(reply'[i], server.uptime, server.timezone)
    BY <1>2 DEF RightTimes
  <2> QED
    BY <1>2, <2>1 DEF StatsTellTheState, RightTime
<1>3. CASE Silent'
  BY <1>3 DEF Silent, StatsTellTheState
<1>4. ASSUME NEW u \in Conns, NEW n \in Names, Welcomed(u, n)
      PROVE  StatsTellTheState'
  <2>1. (reply' = <<>> \/ reply' = welcome(n, userCount')) /\ UNCHANGED server
    BY <1>4 DEF Welcomed
  <2>2. server \in Servers
    BY DEF QueriesInv, QueriesTypeOK
  <2>3. RightTimes(reply')
    BY <2>1, <2>2, WelcomeIsRight, WithoutOne, UntimedAreRight
  <2> QED
    BY <1>2, <2>1, <2>3
<1>5. ASSUME NEW u \in Conns, NEW line \in Lines, Answered(u, line)
      PROVE  StatsTellTheState'
  <2>1. RightTimes(reply') /\ UNCHANGED server
    BY <1>5, LineIsAnswered DEF Answers, Answered
  <2> QED
    BY <1>2, <2>1
<1> QED
  BY <1>1, <1>3, <1>4, <1>5, SilentNext DEF SilenceOK
-----------------------------------------------------------------------------
(* What WHOIS tells of a target: who heads it, and what is about that user *)
WhoisMessages == {ToldOf(x[1], x[2]) : x \in WhoisNumerics \X (Conns \cup STRING)}
AboutUsers == {"AWAY", "WHOISLANGUAGE", "WHOISIDLE"}

HeadOf(n) ==
  IF holder(n) = NoConn THEN ToldOf("NOSUCHNICK", n) ELSE ToldOf("WHOISUSER", holder(n))
HeadsOf(r) == {i \in DOMAIN r : r[i].numeric \in {"WHOISUSER", "NOSUCHNICK"}}

Entry(s, n) ==
  /\ s \in Seq(WhoisMessages) /\ Len(s) > 0 /\ s[1] = HeadOf(n)
  /\ \A i \in 2..Len(s) :
       /\ s[i].numeric \notin {"WHOISUSER", "NOSUCHNICK"}
       /\ s[i].numeric \in AboutUsers => s[1] = ToldOf("WHOISUSER", s[i].of)

Counted(r) ==
  \A v \in Conns :
    LET named == Occurrences(ToldOf("WHOISUSER", v), r)
    IN /\ Occurrences(ToldOf("AWAY", v), r) = IF away[v] THEN named ELSE 0
       /\ Occurrences(ToldOf("WHOISLANGUAGE", v), r) = IF speaks[v] THEN named ELSE 0
       /\ Occurrences(ToldOf("WHOISIDLE", v), r) = named

LEMMA MessagesAre ==
  /\ \A a, b, x, y : ToldOf(a, x) = ToldOf(b, y) <=> a = b /\ x = y
  /\ \A a, x : ToldOf(a, x).numeric = a /\ ToldOf(a, x).of = x
  /\ \A a \in WhoisNumerics, x \in Conns \cup STRING : ToldOf(a, x) \in WhoisMessages
<1>1. \A a, x : ToldOf(a, x).numeric = a /\ ToldOf(a, x).of = x
  BY DEF ToldOf
<1>2. \A a \in WhoisNumerics, x \in Conns \cup STRING : ToldOf(a, x) \in WhoisMessages
  <2> TAKE a \in WhoisNumerics, x \in Conns \cup STRING
  <2>1. <<a, x>> \in WhoisNumerics \X (Conns \cup STRING)
    OBVIOUS
  <2>2. <<a, x>>[1] = a /\ <<a, x>>[2] = x
    OBVIOUS
  <2> QED
    BY <2>1, <2>2 DEF WhoisMessages
<1>3. \A a, b, x, y : ToldOf(a, x) = ToldOf(b, y) <=> a = b /\ x = y
  BY <1>1
<1> QED
  BY <1>1, <1>2, <1>3

LEMMA CountedTogether ==
  ASSUME QueriesInv, NEW X, NEW a \in Seq(X), NEW b \in Seq(X), Counted(a), Counted(b)
  PROVE  Counted(a \o b)
<1> SUFFICES ASSUME NEW v \in Conns
             PROVE  LET named == Occurrences(ToldOf("WHOISUSER", v), a \o b)
                    IN /\ Occurrences(ToldOf("AWAY", v), a \o b) = IF away[v] THEN named ELSE 0
                       /\ Occurrences(ToldOf("WHOISLANGUAGE", v), a \o b)
                            = IF speaks[v] THEN named ELSE 0
                       /\ Occurrences(ToldOf("WHOISIDLE", v), a \o b) = named
  BY DEF Counted
<1> DEFINE m1 == ToldOf("WHOISUSER", v)
           m2 == ToldOf("AWAY", v)
           m3 == ToldOf("WHOISLANGUAGE", v)
           m4 == ToldOf("WHOISIDLE", v)
<1>1. /\ Occurrences(m2, a) = IF away[v] THEN Occurrences(m1, a) ELSE 0
      /\ Occurrences(m3, a) = IF speaks[v] THEN Occurrences(m1, a) ELSE 0
      /\ Occurrences(m4, a) = Occurrences(m1, a)
  BY DEF Counted
<1>2. /\ Occurrences(m2, b) = IF away[v] THEN Occurrences(m1, b) ELSE 0
      /\ Occurrences(m3, b) = IF speaks[v] THEN Occurrences(m1, b) ELSE 0
      /\ Occurrences(m4, b) = Occurrences(m1, b)
  BY DEF Counted
<1> HIDE DEF m1, m2, m3, m4
<1>3. \A m : Occurrences(m, a) \in Nat /\ Occurrences(m, b) \in Nat
  BY PositionsAreFinite
<1>4. \A m : Occurrences(m, a \o b) = Occurrences(m, a) + Occurrences(m, b)
  BY OccurrencesOfConcat
<1>5. away[v] \in BOOLEAN /\ speaks[v] \in BOOLEAN
  BY DEF QueriesInv, UsersOK
<1>6. Occurrences(m2, a \o b) = IF away[v] THEN Occurrences(m1, a \o b) ELSE 0
  <2>1. CASE away[v]
    BY <1>1, <1>2, <1>4, <2>1
  <2>2. CASE ~away[v]
    BY <1>1, <1>2, <1>4, <2>2
  <2> QED
    BY <2>1, <2>2
<1>7. Occurrences(m3, a \o b) = IF speaks[v] THEN Occurrences(m1, a \o b) ELSE 0
  <2>1. CASE speaks[v]
    BY <1>1, <1>2, <1>4, <2>1
  <2>2. CASE ~speaks[v]
    BY <1>1, <1>2, <1>4, <2>2
  <2> QED
    BY <2>1, <2>2
<1>8. Occurrences(m4, a \o b) = Occurrences(m1, a \o b)
  BY <1>1, <1>2, <1>4
<1> QED
  BY <1>6, <1>7, <1>8 DEF m1, m2, m3, m4

LEMMA UncountedAre ==
  ASSUME NEW m, m.numeric \notin AboutUsers \cup {"WHOISUSER"}
  PROVE  Counted(<<m>>) /\ Counted(<<>>)
<1>1. \A a \in AboutUsers \cup {"WHOISUSER"} : \A v : m # ToldOf(a, v)
  BY MessagesAre
<1>2. \A a \in AboutUsers \cup {"WHOISUSER"} : \A v : Occurrences(ToldOf(a, v), <<m>>) = 0
  BY <1>1, OccurrencesInOne
<1>3. \A a : Occurrences(a, <<>>) = 0
  BY OccurrencesInOne
<1> QED
  BY <1>2, <1>3 DEF Counted, AboutUsers

(* What is told of a user who is there                                     *)
LEMMA UserIsCounted ==
  ASSUME QueriesInv, NEW h \in Conns
  PROVE  /\ whoisUser(h) \in Seq(WhoisMessages) /\ Counted(whoisUser(h))
<1> DEFINE X == WhoisMessages
           m1 == ToldOf("WHOISUSER", h)
           m2 == ToldOf("WHOIS_HIDDEN", h)
           m3 == ToldOf("WHOISSERVER", h)
           m4 == ToldOf("WHOISLANGUAGE", h)
           m5 == ToldOf("AWAY", h)
           m6 == ToldOf("WHOISIDLE", h)
           s3 == <<m1, m2, m3>>
           s4 == When(speaks[h], m4)
           s5 == When(away[h], m5)
           s6 == <<m6>>
           a == s3 \o s4
           b == a \o s5
           c == b \o s6
<1>1. m1 \in X /\ m2 \in X /\ m3 \in X /\ m4 \in X /\ m5 \in X /\ m6 \in X
  BY MessagesAre DEF WhoisNumerics
<1>2. whoisUser(h) = c
  BY DEF whoisUser
<1>3. away[h] \in BOOLEAN /\ speaks[h] \in BOOLEAN
  BY DEF QueriesInv, UsersOK
<1>4. \A v : /\ (m1 = ToldOf("WHOISUSER", v) <=> v = h)
             /\ (m4 = ToldOf("WHOISLANGUAGE", v) <=> v = h)
             /\ (m5 = ToldOf("AWAY", v) <=> v = h)
             /\ (m6 = ToldOf("WHOISIDLE", v) <=> v = h)
  BY MessagesAre
<1>5. \A v : LET user == ToldOf("WHOISUSER", v)
             IN user \notin {m2, m3, m4, m5, m6}
  BY MessagesAre
<1>6. \A v : LET language == ToldOf("WHOISLANGUAGE", v)
             IN language \notin {m1, m2, m3, m5, m6}
  BY MessagesAre
<1>7. \A v : LET isAway == ToldOf("AWAY", v)
             IN isAway \notin {m1, m2, m3, m4, m6}
  BY MessagesAre
<1>8. \A v : LET idle == ToldOf("WHOISIDLE", v)
             IN idle \notin {m1, m2, m3, m4, m5}
  BY MessagesAre
<1> HIDE DEF X, m1, m2, m3, m4, m5, m6
<1>9. \A m : /\ Occurrences(m, <<m1>>) = IF m1 = m THEN 1 ELSE 0
             /\ Occurrences(m, <<m2>>) = IF m2 = m THEN 1 ELSE 0
             /\ Occurrences(m, <<m3>>) = IF m3 = m THEN 1 ELSE 0
             /\ Occurrences(m, s4) = IF speaks[h] /\ m4 = m THEN 1 ELSE 0
             /\ Occurrences(m, s5) = IF away[h] /\ m5 = m THEN 1 ELSE 0
             /\ Occurrences(m, s6) = IF m6 = m THEN 1 ELSE 0
  <2>1. \A m, x : Occurrences(m, <<x>>) = IF x = m THEN 1 ELSE 0
    BY OccurrencesInOne
  <2>2. \A m : Occurrences(m, <<>>) = 0
    BY OccurrencesInOne
  <2>3. s4 = IF speaks[h] THEN <<m4>> ELSE <<>>
    BY DEF When
  <2>4. s5 = IF away[h] THEN <<m5>> ELSE <<>>
    BY DEF When
  <2> HIDE DEF s4, s5
  <2>5. \A m : Occurrences(m, s4) = IF speaks[h] /\ m4 = m THEN 1 ELSE 0
    BY <1>3, <2>1, <2>2, <2>3
  <2>6. \A m : Occurrences(m, s5) = IF away[h] /\ m5 = m THEN 1 ELSE 0
    BY <1>3, <2>1, <2>2, <2>4
  <2> QED
    BY <2>1, <2>5, <2>6
<1>10. /\ s3 \in Seq(X) /\ s4 \in Seq(X) /\ s5 \in Seq(X) /\ s6 \in Seq(X)
       /\ <<m1>> \in Seq(X) /\ <<m2>> \in Seq(X) /\ <<m3>> \in Seq(X)
  BY <1>1, <1>3 DEF When
<1>11. s3 = (<<m1>> \o <<m2>>) \o <<m3>>
  BY <1>1, ThreeByOne
<1>12. \A m : Occurrences(m, s3)
                = Occurrences(m, <<m1>>) + Occurrences(m, <<m2>>) + Occurrences(m, <<m3>>)
  <2> DEFINE a1 == <<m1>>
             a2 == <<m2>>
             a3 == <<m3>>
  <2>1. a1 \in Seq(X) /\ a2 \in Seq(X) /\ a3 \in Seq(X) /\ s3 = (a1 \o a2) \o a3
    BY <1>10, <1>11
  <2> HIDE DEF a1, a2, a3, s3
  <2>2. a1 \o a2 \in Seq(X)
    BY <2>1
  <2>3. \A m : Occurrences(m, a1 \o a2) = Occurrences(m, a1) + Occurrences(m, a2)
    BY <2>1, OccurrencesOfConcat
  <2>4. \A m : Occurrences(m, (a1 \o a2) \o a3) = Occurrences(m, a1 \o a2) + Occurrences(m, a3)
    BY <2>1, <2>2, OccurrencesOfConcat
  <2> QED
    BY <2>1, <2>3, <2>4 DEF a1, a2, a3
<1> HIDE DEF s3, s4, s5, s6
<1>13. a \in Seq(X) /\ b \in Seq(X) /\ c \in Seq(X)
  BY <1>10
<1>14. \A m : Occurrences(m, a) = Occurrences(m, s3) + Occurrences(m, s4)
  BY <1>10, OccurrencesOfConcat
<1>15. \A m : Occurrences(m, b) = Occurrences(m, a) + Occurrences(m, s5)
  <2> HIDE DEF a
  <2> QED
    BY <1>10, <1>13, OccurrencesOfConcat
<1>16. \A m : Occurrences(m, c) = Occurrences(m, b) + Occurrences(m, s6)
  <2> HIDE DEF b
  <2> QED
    BY <1>10, <1>13, OccurrencesOfConcat
<1> HIDE DEF a, b, c
<1>17. \A m : Occurrences(m, c)
                = (IF m1 = m THEN 1 ELSE 0) + (IF m2 = m THEN 1 ELSE 0) + (IF m3 = m THEN 1 ELSE 0)
                  + (IF speaks[h] /\ m4 = m THEN 1 ELSE 0) + (IF away[h] /\ m5 = m THEN 1 ELSE 0)
                  + (IF m6 = m THEN 1 ELSE 0)
  BY <1>9, <1>12, <1>14, <1>15, <1>16
<1>18. \A v : Occurrences(ToldOf("WHOISUSER", v), c) = IF v = h THEN 1 ELSE 0
  BY <1>4, <1>5, <1>17
<1>19. \A v : Occurrences(ToldOf("WHOISLANGUAGE", v), c) = IF v = h /\ speaks[h] THEN 1 ELSE 0
  BY <1>3, <1>4, <1>6, <1>17
<1>20. \A v : Occurrences(ToldOf("AWAY", v), c) = IF v = h /\ away[h] THEN 1 ELSE 0
  BY <1>3, <1>4, <1>7, <1>17
<1>21. \A v : Occurrences(ToldOf("WHOISIDLE", v), c) = IF v = h THEN 1 ELSE 0
  BY <1>4, <1>8, <1>17
<1>22. Counted(c)
  BY <1>3, <1>18, <1>19, <1>20, <1>21 DEF Counted
<1> QED
  BY <1>2, <1>13, <1>22 DEF X

LEMMA EntryIs ==
  ASSUME QueriesInv, NEW n \in STRING
  PROVE  Entry(whoisOne(n), n) /\ Counted(whoisOne(n))
<1> DEFINE h == holder(n)
<1>1. CASE h = NoConn
  <2> DEFINE m == ToldOf("NOSUCHNICK", n)
             s == <<m>>
  <2>1. whoisOne(n) = s /\ HeadOf(n) = m
    BY <1>1 DEF whoisOne, HeadOf
  <2>2. m \in WhoisMessages /\ m.numeric = "NOSUCHNICK"
    BY MessagesAre DEF WhoisNumerics
  <2> HIDE DEF m
  <2>3. Counted(s)
    BY <2>2, UncountedAre DEF AboutUsers
  <2>4. s \in Seq(WhoisMessages) /\ Len(s) = 1 /\ s[1] = m
    BY <2>2
  <2> HIDE DEF s
  <2>5. Entry(s, n)
    BY <2>1, <2>4 DEF Entry
  <2> QED
    BY <2>1, <2>3, <2>5
<1>2. CASE h # NoConn
  <2> DEFINE m1 == ToldOf("WHOISUSER", h)
             m2 == ToldOf("WHOIS_HIDDEN", h)
             m3 == ToldOf("WHOISSERVER", h)
             m4 == ToldOf("WHOISLANGUAGE", h)
             m5 == ToldOf("AWAY", h)
             m6 == ToldOf("WHOISIDLE", h)
             M == {m1, m2, m3, m4, m5, m6}
             Rest == {m2, m3, m4, m5, m6}
             first == <<m1, m2, m3>>
             s4 == When(speaks[h], m4)
             s5 == When(away[h], m5)
             s6 == <<m6>>
             a == first \o s4
             b == a \o s5
             s == b \o s6
  <2>1. h \in Conns
    BY <1>2, HolderIs
  <2>2. whoisOne(n) = s /\ whoisOne(n) = whoisUser(h) /\ HeadOf(n) = m1
    BY <1>2 DEF whoisOne, whoisUser, HeadOf
  <2>3. s \in Seq(WhoisMessages) /\ Counted(s)
    BY <2>1, <2>2, UserIsCounted
  <2>4. \A m \in Rest : /\ m.numeric \notin {"WHOISUSER", "NOSUCHNICK"}
                        /\ m1 = ToldOf("WHOISUSER", m.of)
    BY MessagesAre
  <2>5. away[h] \in BOOLEAN /\ speaks[h] \in BOOLEAN
    BY <2>1 DEF QueriesInv, UsersOK
  <2> HIDE DEF m1, m2, m3, m4, m5, m6
  <2>10. (s4 = <<m4>> \/ s4 = <<>>) /\ (s5 = <<m5>> \/ s5 = <<>>)
    BY <2>5 DEF When
  <2> HIDE DEF s4, s5
  <2>6. \A i \in 2..Len(s) : s[i] \in Rest
    <3>1. m2 \in Rest /\ m3 \in Rest /\ m4 \in Rest /\ m5 \in Rest /\ m6 \in Rest
      OBVIOUS
    <3>2. m1 \in M /\ Rest \subseteq M
      OBVIOUS
    <3> HIDE DEF Rest, M
    <3>3. first \in Seq(M) /\ s4 \in Seq(M) /\ s5 \in Seq(M) /\ s6 \in Seq(M)
      <4>1. m2 \in M /\ m3 \in M /\ m4 \in M /\ m5 \in M /\ m6 \in M
        BY <3>1, <3>2
      <4>2. <<m4>> \in Seq(M) /\ <<m5>> \in Seq(M) /\ <<>> \in Seq(M)
        BY <4>1
      <4>3. s4 \in Seq(M) /\ s5 \in Seq(M)
        BY <2>10, <4>2
      <4>4. first \in Seq(M) /\ s6 \in Seq(M)
        BY <3>2, <4>1
      <4> QED
        BY <4>3, <4>4
    <3>4. \A i \in 2..Len(first) : first[i] \in Rest
      <4>1. Len(first) = 3 /\ first[2] = m2 /\ first[3] = m3
        OBVIOUS
      <4> HIDE DEF first
      <4> QED
        BY <3>1, <4>1
    <3>5. /\ \A i \in DOMAIN s4 : s4[i] \in Rest
          /\ \A i \in DOMAIN s5 : s5[i] \in Rest
          /\ \A i \in DOMAIN s6 : s6[i] \in Rest
      <4>1. \A x \in Rest : DOMAIN <<x>> = {1} /\ <<x>>[1] = x
        OBVIOUS
      <4>2. DOMAIN <<>> = {}
        OBVIOUS
      <4> QED
        BY <2>10, <3>1, <4>1, <4>2
    <3>6. ASSUME NEW p \in Seq(M), NEW q \in Seq(M), \A i \in 2..Len(p) : p[i] \in Rest,
                 \A i \in DOMAIN q : q[i] \in Rest
          PROVE  p \o q \in Seq(M) /\ \A i \in 2..Len(p \o q) : (p \o q)[i] \in Rest
      <4>1. /\ p \o q \in Seq(M) /\ Len(p) \in Nat /\ Len(q) \in Nat
            /\ Len(p \o q) = Len(p) + Len(q) /\ DOMAIN q = 1..Len(q)
            /\ \A i \in 1..(Len(p) + Len(q)) :
                 (p \o q)[i] = IF i <= Len(p) THEN p[i] ELSE q[i - Len(p)]
        OBVIOUS
      <4> DEFINE w == p \o q
      <4> HIDE DEF w
      <4>2. ASSUME NEW i \in 2..(Len(p) + Len(q))
            PROVE  w[i] \in Rest
        <5>1. CASE i <= Len(p)
          BY <3>6, <4>1, <5>1 DEF w
        <5>2. CASE ~(i <= Len(p))
          <6>1. i - Len(p) \in 1..Len(q) /\ i \in 1..(Len(p) + Len(q))
            BY <4>1, <5>2
          <6> QED
            BY <3>6, <4>1, <5>2, <6>1 DEF w
        <5> QED
          BY <5>1, <5>2
      <4> QED
        BY <4>1, <4>2 DEF w
    <3> HIDE DEF first, s4, s5, s6
    <3>7. a \in Seq(M) /\ \A i \in 2..Len(a) : a[i] \in Rest
      BY <3>3, <3>4, <3>5, <3>6
    <3> HIDE DEF a
    <3>8. b \in Seq(M) /\ \A i \in 2..Len(b) : b[i] \in Rest
      BY <3>3, <3>5, <3>6, <3>7
    <3> HIDE DEF b
    <3> QED
      BY <3>3, <3>5, <3>6, <3>8
  <2>7. Len(s) > 0 /\ s[1] = m1
    <3>1. Len(first) > 0 /\ first[1] = m1
      OBVIOUS
    <3>2. m1 \in M /\ m2 \in M /\ m3 \in M /\ m4 \in M /\ m5 \in M /\ m6 \in M
      OBVIOUS
    <3> HIDE DEF M
    <3>3. first \in Seq(M) /\ s4 \in Seq(M) /\ s5 \in Seq(M) /\ s6 \in Seq(M)
      <4>1. <<m4>> \in Seq(M) /\ <<m5>> \in Seq(M) /\ <<>> \in Seq(M)
        BY <3>2
      <4>2. s4 \in Seq(M) /\ s5 \in Seq(M)
        BY <2>10, <4>1
      <4>3. first \in Seq(M) /\ s6 \in Seq(M)
        BY <3>2
      <4> QED
        BY <4>2, <4>3
    <3>4. ASSUME NEW p \in Seq(M), NEW q \in Seq(M), Len(p) > 0, p[1] = m1
          PROVE  p \o q \in Seq(M) /\ Len(p \o q) > 0 /\ (p \o q)[1] = m1
      BY <3>4
    <3> HIDE DEF first, s4, s5, s6
    <3>5. a \in Seq(M) /\ Len(a) > 0 /\ a[1] = m1
      BY <3>1, <3>3, <3>4
    <3> HIDE DEF a
    <3>6. b \in Seq(M) /\ Len(b) > 0 /\ b[1] = m1
      BY <3>3, <3>4, <3>5
    <3> HIDE DEF b
    <3> QED
      BY <3>3, <3>4, <3>6
  <2> HIDE DEF s
  <2>8. \A i \in 2..Len(s) : /\ s[i].numeric \notin {"WHOISUSER", "NOSUCHNICK"}
                             /\ s[1] = ToldOf("WHOISUSER", s[i].of)
    BY <2>4, <2>6, <2>7
  <2>9. Entry(s, n)
    BY <2>2, <2>3, <2>7, <2>8 DEF Entry
  <2> QED
    BY <2>2, <2>3, <2>9
<1> QED
  BY <1>1, <1>2

(* A reply to which entries of the first k targets were added, one by one  *)
WhoisTold(r, targets, k) ==
  LET heads == HeadsOf(r)
      TargetOf(i) == targets[Cardinality({j \in heads : j <= i})]
  IN /\ Cardinality(heads) = k
     /\ \A i \in heads : r[i] = HeadOf(TargetOf(i))
     /\ \A i \in DOMAIN r : r[i].numeric \in AboutUsers =>
          \E j \in heads : /\ j < i /\ heads \cap ((j + 1)..i) = {}
                            /\ r[j] = ToldOf("WHOISUSER", r[i].of)

LEMMA HeadsAre ==
  ASSUME NEW X, NEW r \in Seq(X)
  PROVE  /\ HeadsOf(r) \subseteq 1..Len(r) /\ IsFiniteSet(HeadsOf(r))
         /\ HeadsOf(r) = {j \in HeadsOf(r) : j <= Len(r)}
<1>1. Len(r) \in Nat /\ DOMAIN r = 1..Len(r)
  OBVIOUS
<1>2. HeadsOf(r) \subseteq 1..Len(r)
  BY <1>1 DEF HeadsOf
<1>3. IsFiniteSet(1..Len(r))
  BY <1>1, FS_Interval
<1>4. IsFiniteSet(HeadsOf(r))
  BY <1>2, <1>3, FS_Subset
<1>5. HeadsOf(r) = {j \in HeadsOf(r) : j <= Len(r)}
  BY <1>1, <1>2
<1> QED
  BY <1>2, <1>4, <1>5

(* One message of which nothing heads, and that is about nobody            *)
LEMMA ToldBeforeOthers ==
  ASSUME NEW X, NEW r \in Seq(X), NEW m \in X, NEW targets, NEW k \in Nat,
         WhoisTold(r, targets, k),
         m.numeric \notin AboutUsers \cup {"WHOISUSER", "NOSUCHNICK"}
  PROVE  WhoisTold(r \o <<m>>, targets, k)
<1> DEFINE n == Len(r)
           w == r \o <<m>>
           heads == HeadsOf(r)
<1>1. /\ n \in Nat /\ DOMAIN r = 1..n /\ DOMAIN w = 1..(n + 1) /\ w[n + 1] = m
      /\ \A i \in 1..n : w[i] = r[i]
  OBVIOUS
<1>2. \A i : i \in 1..(n + 1) <=> i \in 1..n \/ i = n + 1
  BY <1>1
<1> HIDE DEF n, w
<1>3. HeadsOf(w) = heads
  BY <1>1, <1>2 DEF HeadsOf
<1>4. \A i \in heads : i \in 1..n /\ w[i] = r[i]
  BY <1>1 DEF HeadsOf
<1> HIDE DEF heads
<1>5. /\ Cardinality(heads) = k
      /\ \A i \in heads : r[i] = HeadOf(targets[Cardinality({j \in heads : j <= i})])
      /\ \A i \in DOMAIN r : r[i].numeric \in AboutUsers =>
           \E j \in heads : /\ j < i /\ heads \cap ((j + 1)..i) = {}
                             /\ r[j] = ToldOf("WHOISUSER", r[i].of)
  BY DEF WhoisTold, heads
<1>6. \A i \in heads : w[i] = HeadOf(targets[Cardinality({j \in heads : j <= i})])
  BY <1>4, <1>5
<1>7. ASSUME NEW i \in DOMAIN w, w[i].numeric \in AboutUsers
      PROVE  \E j \in heads : /\ j < i /\ heads \cap ((j + 1)..i) = {}
                               /\ w[j] = ToldOf("WHOISUSER", w[i].of)
  <2>1. i \in 1..n
    BY <1>1, <1>2, <1>7
  <2>2. w[i] = r[i]
    BY <1>1, <2>1
  <2>3. PICK j \in heads : /\ j < i /\ heads \cap ((j + 1)..i) = {}
                            /\ r[j] = ToldOf("WHOISUSER", r[i].of)
    BY <1>1, <1>5, <1>7, <2>1, <2>2
  <2> QED
    BY <1>4, <2>2, <2>3
<1> QED
  BY <1>3, <1>5, <1>6, <1>7 DEF WhoisTold, w

(* The entry of one target more                                            *)
LEMMA ToldByOne ==
  ASSUME NEW X, NEW r \in Seq(X), NEW s \in Seq(X), NEW targets, NEW k \in Nat,
         WhoisTold(r, targets, k), Entry(s, targets[k + 1])
  PROVE  WhoisTold(r \o s, targets, k + 1)
<1> DEFINE n == Len(r)
           l == Len(s)
           w == r \o s
           heads == HeadsOf(r)
           h == n + 1
           all == heads \cup {h}
           Upto(i) == {j \in all : j <= i}
<1>1. n \in Nat /\ l \in Nat /\ l > 0
  BY DEF Entry
<1>2. DOMAIN r = 1..n /\ DOMAIN s = 1..l /\ DOMAIN w = 1..(n + l)
  OBVIOUS
<1>3. \A i \in 1..n : w[i] = r[i]
  OBVIOUS
<1>4. \A i \in 1..l : w[n + i] = s[i]
  <2>1. \A i \in 1..(n + l) : w[i] = IF i <= n THEN r[i] ELSE s[i - n]
    OBVIOUS
  <2> HIDE DEF w, n, l
  <2> TAKE i \in 1..l
  <2>2. n + i \in 1..(n + l) /\ ~(n + i <= n) /\ (n + i) - n = i
    BY <1>1
  <2> QED
    BY <2>1, <2>2
<1>5. /\ s[1] = HeadOf(targets[k + 1]) /\ s[1].numeric \in {"WHOISUSER", "NOSUCHNICK"}
      /\ \A i \in 2..l :
           /\ s[i].numeric \notin {"WHOISUSER", "NOSUCHNICK"}
           /\ s[i].numeric \in AboutUsers => s[1] = ToldOf("WHOISUSER", s[i].of)
  <2>1. HeadOf(targets[k + 1]).numeric \in {"WHOISUSER", "NOSUCHNICK"}
    BY MessagesAre DEF HeadOf
  <2> QED
    BY <2>1 DEF Entry
<1> HIDE DEF n, l, w
<1>6. heads \subseteq 1..n /\ IsFiniteSet(heads)
  BY HeadsAre DEF n
<1>7. /\ Cardinality(heads) = k
      /\ \A i \in heads : r[i] = HeadOf(targets[Cardinality({j \in heads : j <= i})])
      /\ \A i \in DOMAIN r : r[i].numeric \in AboutUsers =>
           \E j \in heads : /\ j < i /\ heads \cap ((j + 1)..i) = {}
                             /\ r[j] = ToldOf("WHOISUSER", r[i].of)
  BY DEF WhoisTold
<1>8. \A i : i \in 1..(n + l) <=> i \in 1..n \/ \E j \in 1..l : i = n + j
  <2> TAKE i
  <2>1. ASSUME i \in 1..(n + l), i \notin 1..n
        PROVE  i - n \in 1..l /\ i = n + (i - n)
    BY <1>1, <2>1
  <2>2. ASSUME NEW j \in 1..l, i = n + j
        PROVE  i \in 1..(n + l)
    BY <1>1, <2>2
  <2>3. i \in 1..n => i \in 1..(n + l)
    BY <1>1
  <2> QED
    BY <2>1, <2>2, <2>3
<1>9. HeadsOf(w) = all
  <2>1. \A i \in 1..n : i \in HeadsOf(w) <=> i \in heads
    BY <1>2, <1>3, <1>8 DEF HeadsOf
  <2>2. h \in HeadsOf(w)
    <3>1. 1 \in 1..l
      BY <1>1
    <3>2. h \in 1..(n + l) /\ w[h] = s[1]
      BY <1>4, <1>8, <3>1
    <3> QED
      BY <1>2, <1>5, <3>2 DEF HeadsOf
  <2>3. \A j \in 2..l : n + j \notin HeadsOf(w)
    <3> TAKE j \in 2..l
    <3>1. j \in 1..l
      BY <1>1
    <3>2. w[n + j] = s[j]
      BY <1>4, <3>1
    <3> QED
      BY <1>5, <3>2 DEF HeadsOf
  <2>4. HeadsOf(w) \subseteq 1..(n + l)
    BY <1>2 DEF HeadsOf
  <2>5. \A j \in 1..l : j = 1 \/ j \in 2..l
    BY <1>1
  <2>6. ASSUME NEW i \in HeadsOf(w)
        PROVE  i \in all
    BY <1>8, <2>1, <2>3, <2>4, <2>5, <2>6
  <2>7. heads \subseteq HeadsOf(w)
    BY <1>6, <2>1
  <2> QED
    BY <2>2, <2>6, <2>7
<1> HIDE DEF heads
<1>10. h \notin heads /\ Cardinality(all) = k + 1
  <2>1. h \notin heads
    BY <1>1, <1>6
  <2> QED
    BY <1>6, <1>7, <2>1, FS_AddElement
<1>11. \A i \in heads : Upto(i) = {j \in heads : j <= i}
  BY <1>1, <1>6
<1>12. Upto(h) = all
  <2>1. \A j \in all : j <= h
    BY <1>1, <1>6
  <2> HIDE DEF all, h
  <2> QED
    BY <2>1
<1>13. w[h] = s[1]
  <2>1. 1 \in 1..l
    BY <1>1
  <2> QED
    BY <1>4, <2>1
<1>14. \A i \in all : w[i] = HeadOf(targets[Cardinality(Upto(i))])
  <2> TAKE i \in all
  <2> HIDE DEF h
  <2>1. CASE i = h
    <3> HIDE DEF all, Upto
    <3> QED
      BY <1>5, <1>10, <1>12, <1>13, <2>1
  <2>2. CASE i \in heads
    <3>1. i \in 1..n
      BY <1>6, <2>2
    <3> HIDE DEF all, Upto
    <3> QED
      BY <1>3, <1>7, <1>11, <2>2, <3>1
  <2> QED
    BY <2>1, <2>2
<1>15. ASSUME NEW i \in DOMAIN w, w[i].numeric \in AboutUsers
       PROVE  \E j \in all : /\ j < i /\ all \cap ((j + 1)..i) = {}
                              /\ w[j] = ToldOf("WHOISUSER", w[i].of)
  <2>1. CASE i \in 1..n
    <3>1. w[i] = r[i]
      BY <1>3, <2>1
    <3>2. PICK j \in heads : /\ j < i /\ heads \cap ((j + 1)..i) = {}
                              /\ r[j] = ToldOf("WHOISUSER", r[i].of)
      BY <1>2, <1>7, <1>15, <2>1, <3>1
    <3>3. j \in 1..n /\ w[j] = r[j]
      BY <1>3, <1>6, <3>2
    <3>4. h \notin (j + 1)..i
      BY <1>1, <2>1
    <3> QED
      BY <3>1, <3>2, <3>3, <3>4
  <2>2. CASE i \notin 1..n
    <3>1. PICK j \in 1..l : i = n + j
      BY <1>2, <1>8, <2>2
    <3>2. w[i] = s[j]
      BY <1>4, <3>1
    <3>3. j # 1
      BY <1>5, <1>15, <3>1, <3>2 DEF AboutUsers
    <3>4. j \in 2..l
      BY <1>1, <3>1, <3>3
    <3>5. w[h] = ToldOf("WHOISUSER", w[i].of)
      BY <1>5, <1>13, <1>15, <3>2, <3>4
    <3>6. h < i
      BY <1>1, <3>1, <3>4
    <3>7. all \cap ((h + 1)..i) = {}
      BY <1>1, <1>6
    <3> QED
      BY <3>5, <3>6, <3>7
  <2> QED
    BY <2>1, <2>2
<1> HIDE DEF all
<1> QED
  BY <1>9, <1>10, <1>14, <1>15 DEF WhoisTold, w

LEMMA WhoisIsTold ==
  ASSUME QueriesInv, NEW targets \in Seq(STRING)
  PROVE  WhoisTold(doWHOIS(targets), targets, Len(targets)) /\ Counted(doWHOIS(targets))
<1> DEFINE end == Told("ENDOFWHOIS")
           X == WhoisMessages \cup {end}
           Y == Seq(X)
           n == Len(targets)
           ss == [i \in DOMAIN targets |-> whoisOne(targets[i])]
<1>1. n \in Nat /\ DOMAIN targets = 1..n /\ \A i \in 1..n : targets[i] \in STRING
  OBVIOUS
<1>2. /\ doWHOIS(targets) = FlattenSeq(ss) \o <<end>>
      /\ end \in X /\ end.numeric = "ENDOFWHOIS"
  BY DEF doWHOIS, Told
<1>3. \A i \in 1..n : Entry(ss[i], targets[i]) /\ Counted(ss[i])
  BY <1>1, EntryIs
<1>4. \A i \in 1..n : ss[i] \in Y
  <2> TAKE i \in 1..n
  <2>1. ss[i] \in Seq(WhoisMessages)
    BY <1>3 DEF Entry
  <2> DEFINE Z == WhoisMessages
             t == ss[i]
  <2> HIDE DEF Z, t, end
  <2>2. t \in Seq(Z)
    BY <2>1 DEF Z, t
  <2>3. t \in Seq(Z \cup {end})
    BY <2>2
  <2> QED
    BY <2>3 DEF Z, t
<1>5. ss = [i \in 1..n |-> ss[i]]
  BY <1>1
<1> HIDE DEF end, X, Y, n, ss
<1>6. ss \in Seq(Y) /\ Len(ss) = n
  <2>1. ss \in Seq(Y)
    BY <1>1, <1>4, <1>5, SequenceOf
  <2>2. DOMAIN ss = 1..n
    BY <1>5
  <2>3. DOMAIN ss = 1..Len(ss) /\ Len(ss) \in Nat
    BY <2>1
  <2> QED
    BY <1>1, <2>1, <2>2, <2>3
<1>7. PICK g : Appending(g, X, ss, n)
  <2>1. ss \in Seq(Seq(X))
    BY <1>6 DEF Y
  <2> QED
    BY <1>6, <2>1, FlattenByRounds
<1>8. /\ g[0] = <<>> /\ g[n] = FlattenSeq(ss)
      /\ \A i \in 0..n : g[i] \in Y
      /\ \A i \in 1..n : g[i] = g[i - 1] \o ss[i]
  BY <1>7 DEF Appending, Y
<1> DEFINE Good == {i \in 0..n : WhoisTold(g[i], targets, i) /\ Counted(g[i])}
<1>9. 0 \in Good
  <2>1. HeadsOf(<<>>) = {} /\ Cardinality({}) = 0
    BY FS_EmptySet DEF HeadsOf
  <2>2. WhoisTold(<<>>, targets, 0)
    <3> DEFINE e == <<>>
    <3>1. DOMAIN e = {}
      OBVIOUS
    <3> HIDE DEF e
    <3>3. HeadsOf(e) = {} /\ Cardinality(HeadsOf(e)) = 0
      BY <2>1 DEF e
    <3>2. WhoisTold(e, targets, 0)
      BY <3>1, <3>3 DEF WhoisTold
    <3> QED
      BY <3>2 DEF e
  <2>3. Counted(<<>>)
    <3>1. end.numeric \notin AboutUsers \cup {"WHOISUSER"}
      BY <1>2 DEF AboutUsers
    <3> QED
      BY <3>1, UncountedAre
  <2> QED
    BY <1>1, <1>8, <2>2, <2>3
<1>10. ASSUME NEW i \in 1..n, i - 1 \in Good
       PROVE  i \in Good
  <2> DEFINE k == i - 1
             r == g[k]
             s == ss[i]
  <2>1. k \in Nat /\ k \in 0..n /\ i \in 0..n /\ k + 1 = i
    BY <1>1
  <2>2. r \in Seq(X) /\ s \in Seq(X) /\ g[i] = r \o s
    BY <1>4, <1>8, <2>1 DEF Y
  <2>3. WhoisTold(r, targets, k) /\ Counted(r)
    BY <1>10
  <2>4. Entry(s, targets[k + 1]) /\ Counted(s)
    BY <1>3, <2>1
  <2> HIDE DEF k, r, s
  <2>5. WhoisTold(r \o s, targets, k + 1)
    BY <2>1, <2>2, <2>3, <2>4, ToldByOne
  <2>6. Counted(r \o s)
    BY <2>2, <2>3, <2>4, CountedTogether
  <2> QED
    BY <2>1, <2>2, <2>5, <2>6
<1>11. n \in Good
  <2> HIDE DEF Good
  <2>1. 0..n \subseteq Good
    BY <1>1, <1>9, <1>10, RoundByRound
  <2> QED
    BY <1>1, <2>1
<1> DEFINE r == FlattenSeq(ss)
<1>12. WhoisTold(r, targets, n) /\ Counted(r) /\ r \in Seq(X)
  BY <1>1, <1>8, <1>11 DEF Y
<1> HIDE DEF r
<1>13. end.numeric \notin AboutUsers \cup {"WHOISUSER", "NOSUCHNICK"}
  BY <1>2 DEF AboutUsers
<1>14. WhoisTold(r \o <<end>>, targets, n)
  BY <1>1, <1>2, <1>12, <1>13, ToldBeforeOthers
<1>15. Counted(r \o <<end>>)
  <2> DEFINE e == <<end>>
  <2>1. e \in Seq(X) /\ Counted(e)
    BY <1>2, <1>13, UncountedAre
  <2> HIDE DEF e
  <2>2. Counted(r \o e)
    BY <1>12, <2>1, CountedTogether
  <2> QED
    BY <2>2 DEF e
<1> QED
  BY <1>2, <1>14, <1>15 DEF r, n

(* What WhoisTellsTheState says of a reply about targets, where these are  *)
(* the users, and those of them that are away or speak languages           *)
TellsOfTargets(r, targets, found, isAway, speaking) ==
  LET who(n) == IF n \in Names THEN found[IRCtoLower[n]] ELSE NoConn
      heads == {i \in DOMAIN r : r[i].numeric = "WHOISUSER"}
                 \cup {i \in DOMAIN r : r[i].numeric = "NOSUCHNICK"}
      TargetOf(i) == targets[Cardinality({j \in heads : j <= i})]
      Often(m) == Cardinality({i \in DOMAIN r : r[i] = m})
  IN /\ Cardinality(heads) = Len(targets)
     /\ \A i \in heads :
          LET n == TargetOf(i)
          IN r[i] = IF who(n) = NoConn THEN ToldOf("NOSUCHNICK", n)
                    ELSE ToldOf("WHOISUSER", who(n))
     /\ \A v \in Conns :
          LET named == Often(ToldOf("WHOISUSER", v))
          IN /\ Often(ToldOf("AWAY", v)) = IF isAway[v] THEN named ELSE 0
             /\ Often(ToldOf("WHOISLANGUAGE", v)) = IF speaking[v] THEN named ELSE 0
             /\ Often(ToldOf("WHOISIDLE", v)) = named
     /\ \A i \in DOMAIN r : r[i].numeric \in {"AWAY", "WHOISLANGUAGE", "WHOISIDLE"} =>
          \E j \in heads : /\ j < i /\ heads \cap ((j + 1)..i) = {}
                            /\ r[j] = ToldOf("WHOISUSER", r[i].of)

LEMMA WhoisTells ==
  ASSUME QueriesInv, NEW targets \in Seq(STRING)
  PROVE  TellsOfTargets(doWHOIS(targets), targets, users, away, speaks)
<1> DEFINE r == doWHOIS(targets)
           heads == {i \in DOMAIN r : r[i].numeric = "WHOISUSER"}
                      \cup {i \in DOMAIN r : r[i].numeric = "NOSUCHNICK"}
<1>1. WhoisTold(r, targets, Len(targets)) /\ Counted(r)
  BY WhoisIsTold
<1> HIDE DEF r
<1>2. HeadsOf(r) = heads
  BY DEF HeadsOf
<1> HIDE DEF heads
<1>3. /\ Cardinality(heads) = Len(targets)
      /\ \A i \in heads : r[i] = HeadOf(targets[Cardinality({j \in heads : j <= i})])
      /\ \A i \in DOMAIN r : r[i].numeric \in AboutUsers =>
           \E j \in heads : /\ j < i /\ heads \cap ((j + 1)..i) = {}
                             /\ r[j] = ToldOf("WHOISUSER", r[i].of)
  BY <1>1, <1>2 DEF WhoisTold
<1>4. \A m : Occurrences(m, r) = Cardinality({i \in DOMAIN r : r[i] = m})
  BY DEF Occurrences, Positions
<1>5. \A v \in Conns :
        /\ Cardinality({i \in DOMAIN r : r[i] = ToldOf("AWAY", v)})
             = IF away[v] THEN Cardinality({i \in DOMAIN r : r[i] = ToldOf("WHOISUSER", v)}) ELSE 0
        /\ Cardinality({i \in DOMAIN r : r[i] = ToldOf("WHOISLANGUAGE", v)})
             = IF speaks[v] THEN Cardinality({i \in DOMAIN r : r[i] = ToldOf("WHOISUSER", v)}) ELSE 0
        /\ Cardinality({i \in DOMAIN r : r[i] = ToldOf("WHOISIDLE", v)})
             = Cardinality({i \in DOMAIN r : r[i] = ToldOf("WHOISUSER", v)})
  BY <1>1, <1>4 DEF Counted
<1>6. \A n : HeadOf(n) = IF (IF n \in Names THEN users[IRCtoLower[n]] ELSE NoConn) = NoConn
                         THEN ToldOf("NOSUCHNICK", n)
                         ELSE ToldOf("WHOISUSER",
                                     IF n \in Names THEN users[IRCtoLower[n]] ELSE NoConn)
  BY DEF HeadOf, holder, findUser
<1>7. \A i \in heads :
        LET n == targets[Cardinality({j \in heads : j <= i})]
        IN r[i] = IF (IF n \in Names THEN users[IRCtoLower[n]] ELSE NoConn) = NoConn
                  THEN ToldOf("NOSUCHNICK", n)
                  ELSE ToldOf("WHOISUSER", IF n \in Names THEN users[IRCtoLower[n]] ELSE NoConn)
  BY <1>3, <1>6
<1> QED
  BY <1>3, <1>5, <1>7 DEF TellsOfTargets, heads, r, AboutUsers

LEMMA WhoisNext ==
  QueriesInv /\ SilenceOK /\ WhoisTellsTheState /\ [Next]_vars => WhoisTellsTheState'
<1> SUFFICES ASSUME QueriesInv, SilenceOK, WhoisTellsTheState, [Next]_vars
             PROVE  WhoisTellsTheState'
  OBVIOUS
<1>1. CASE UNCHANGED vars
  <2>1. UNCHANGED <<asked, reply, users, away, speaks>>
    BY <1>1 DEF vars, registryVars, askVars
  <2> DEFINE about == asked.parameters[1]
  <2>2. CASE asked.command = "WHOIS" /\ Places("ENDOFWHOIS") # {}
    <3>1. TellsOfTargets(reply, about, users, away, speaks)
      BY <2>2 DEF WhoisTellsTheState, TellsOfTargets, Places, Times, holder, findUser
    <3>2. TellsOfTargets(reply', about', users', away', speaks')
      BY <2>1, <3>1
    <3> QED
      BY <3>2 DEF WhoisTellsTheState, TellsOfTargets, Places, Times, holder, findUser
  <2>3. CASE asked.command # "WHOIS"
    BY <2>1, <2>3 DEF WhoisTellsTheState
  <2>4. CASE Places("ENDOFWHOIS") = {}
    <3>1. Places("ENDOFWHOIS")' = {}
      BY <2>1, <2>4 DEF Places
    <3> QED
      BY <3>1 DEF WhoisTellsTheState
  <2> QED
    BY <2>2, <2>3, <2>4
<1>2. CASE Silent'
  <2>1. Nothing.command # "WHOIS"
    BY DEF Nothing
  <2>2. asked'.command # "WHOIS"
    BY <1>2, <2>1 DEF Silent
  <2> QED
    BY <2>2 DEF WhoisTellsTheState
<1>3. ASSUME NEW u \in Conns, NEW n \in Names, Welcomed(u, n)
      PROVE  WhoisTellsTheState'
  BY <1>3 DEF Welcomed, Connecting, WhoisTellsTheState
<1>4. ASSUME NEW u \in Conns, NEW line \in Lines, Answered(u, line)
      PROVE  WhoisTellsTheState'
  <2> DEFINE p == line.parameters
             c == line.command
             targets == p[1]
  <2>1. asked'.command = c /\ asked'.parameters = p /\ UNCHANGED <<users, away, speaks>>
    BY <1>4 DEF Answered, registryVars
  <2>2. p \in Seq(Seq(STRING))
    BY QueriesAssumption
  <2>3. CASE c # "WHOIS"
    <3> HIDE DEF c, p
    <3> QED
      BY <2>1, <2>3 DEF WhoisTellsTheState
  <2>4. ASSUME NEW m, m.numeric # "ENDOFWHOIS", reply' = <<m>>
        PROVE  WhoisTellsTheState'
    <3>1. DOMAIN <<m>> = {1} /\ <<m>>[1] = m
      OBVIOUS
    <3>2. Places("ENDOFWHOIS")' = {}
      BY <2>4, <3>1 DEF Places
    <3> QED
      BY <3>2 DEF WhoisTellsTheState
  <2>5. ASSUME TellsOfTargets(reply', targets, users, away, speaks)
        PROVE  WhoisTellsTheState'
    <3>1. TellsOfTargets(reply', targets, users', away', speaks') /\ asked'.parameters[1] = targets
      BY <2>1, <2>5
    <3> HIDE DEF targets, p, c
    <3> QED
      BY <3>1 DEF WhoisTellsTheState, TellsOfTargets, Places, Times, holder, findUser
  <2>6. CASE c = "WHOIS" /\ refusal(c, p) # "NONE"
    <3> DEFINE m == Told(refusal(c, p))
    <3>1. reply' = <<m>>
      BY <1>4, <2>6 DEF Answered
    <3>2. m.numeric = refusal(c, p)
      BY DEF Told
    <3>3. refusal(c, p) # "ENDOFWHOIS"
      <4>1. CASE c \in Commands \ Disabled /\ hasAccess(c)
        BY <4>1 DEF refusal
      <4>2. CASE c \notin Commands \ Disabled \/ ~hasAccess(c)
        BY <4>2 DEF refusal
      <4> QED
        BY <4>1, <4>2
    <3> HIDE DEF m
    <3> QED
      BY <2>4, <3>1, <3>2, <3>3
  <2>7. CASE c = "WHOIS" /\ refusal(c, p) = "NONE"
    <3>1. ~(Len(p) < minimumParams(c))
      BY <2>7, Reaches
    <3>2. reply' = handleWHOIS(p)
      <4>1. reply' = handler(c, p, nickname[u])
        BY <1>4, <2>7 DEF Answered
      <4> HIDE DEF p
      <4> QED
        BY <2>7, <4>1 DEF handler
    <3>3. targets \in Seq(STRING)
      <4> DEFINE Y == Seq(STRING)
      <4> HIDE DEF Y, p
      <4>1. p \in Seq(Y)
        BY <2>2 DEF Y
      <4>2. Len(p) >= 1
        BY <2>7, <3>1, <4>1 DEF minimumParams
      <4>3. p[1] \in Y
        BY <4>1, <4>2
      <4> QED
        BY <4>3 DEF Y
    <3>4. reply' = <<Told("NOSUCHSERVER")>> \/ reply' = doWHOIS(targets)
      <4> HIDE DEF p
      <4> QED
        BY <3>2 DEF handleWHOIS, Elsewhere
    <3>5. Told("NOSUCHSERVER").numeric # "ENDOFWHOIS"
      BY DEF Told
    <3>6. TellsOfTargets(doWHOIS(targets), targets, users, away, speaks)
      BY <3>3, WhoisTells
    <3> HIDE DEF targets, p, c
    <3> QED
      BY <2>4, <2>5, <3>4, <3>5, <3>6
  <2> QED
    BY <2>3, <2>6, <2>7
<1> QED
  BY <1>1, <1>2, <1>3, <1>4, SilentNext DEF SilenceOK

(* WHOIS tells of every target, in order, who there is, and whether that   *)
(* user is away and speaks languages; STATS and TIME tell the daemon's own *)
(* time (doWHOIS, doSTATS and sendTimeOnServer of the IRC-2 library).      *)
THEOREM TellTheState == Spec => []AnswersTellTheState
<1>1. Init => /\ QueriesInv /\ SilenceOK /\ WhoisTellsTheState /\ StatsTellTheState
  <2>1. Init => WhoisTellsTheState /\ StatsTellTheState
    <3>1. Nothing.command # "WHOIS"
      BY DEF Nothing
    <3> QED
      BY <3>1 DEF Init, WhoisTellsTheState, StatsTellTheState
  <2> QED
    BY <2>1, QueriesInvInit, SupportInit DEF Silent, SilenceOK
<1>2. WhoisTellsTheState /\ StatsTellTheState <=> AnswersTellTheState
  BY DEF AnswersTellTheState
<1> QED
  BY <1>1, <1>2, QueriesInvNext, SilenceNext, WhoisNext, StatsNext, PTL DEF Spec
=============================================================================
