----------------------------- MODULE ChatProofs -----------------------------
(***************************************************************************)
(* Theorems about the commands of users, for any users, names, texts and   *)
(* languages, any lists that clients give and any limits.                  *)
(***************************************************************************)
EXTENDS Chat, RegistryProofs, Loops

(* An empty text is delocalised into itself.                               *)
LEMMA EmptyIsShown == delocaliseStr(outputCharConvDesc, Empty) = Empty
<1> DEFINE D == outputCharConvDesc
<1>1. D.to # KINE_INTERNAL_CHARSET
  BY DEF outputCharConvDesc, changeOutputCharset, changeConvDesc, iconv_open, NoDescriptor,
         KINE_INTERNAL_CHARSET
<1>2. [i \in DOMAIN Empty |-> Octets(Empty[i])] = <<>>
  BY DEF Empty
<1>3. FlattenSeq(<<>>) = <<>>
  BY DEF FlattenSeq
<1>4. encoded(Empty) = [result |-> "done", text |-> <<>>]
  BY <1>2, <1>3 DEF encoded, Empty
<1>5. iconv(D, Empty) = [result |-> "done", text |-> <<>>]
  BY <1>1, <1>4 DEF iconv
<1> HIDE DEF D
<1> QED
  BY <1>5 DEF delocaliseStr, convertChars, Empty, D

LEMMA EmptyIsKept == Empty \in Kept /\ Empty \in Shown
  BY EmptyIsShown DEF Kept, Shown

(* What a user can be told that says nothing of itself                     *)
Quiet ==
  {m \in Replies : m.numeric \notin AwayNumerics \cup LanguageNumerics}

LEMMA QuietReplies ==
  /\ \A numeric \in {"OTHER", "TOOMANYTARGETS"} : Told(numeric) \in Quiet
  /\ \A numeric \in {"PRIVMSG", "NOTICE", "AWAY"}, v \in Conns : ToldOf(numeric, v) \in Quiet
  /\ \A n \in Names : ToldOf("NOSUCHNICK", n) \in Quiet
<1>1. ASSUME NEW numeric \in {"OTHER", "TOOMANYTARGETS"}
      PROVE  Told(numeric) \in Quiet
  <2>1. Told(numeric) \in Replies /\ Told(numeric).numeric = numeric
    BY DEF Replies, Told
  <2> QED
    BY <2>1 DEF Quiet, AwayNumerics, LanguageNumerics
<1>2. ASSUME NEW numeric \in {"PRIVMSG", "NOTICE", "AWAY"}, NEW v \in Conns
      PROVE  ToldOf(numeric, v) \in Quiet
  <2>1. ToldOf(numeric, v) \in Replies
    BY DEF Replies
  <2> QED
    BY <2>1 DEF Quiet, AwayNumerics, LanguageNumerics, ToldOf
<1>3. ASSUME NEW n \in Names
      PROVE  ToldOf("NOSUCHNICK", n) \in Quiet
  <2>1. ToldOf("NOSUCHNICK", n) \in Replies
    BY DEF Replies
  <2> QED
    BY <2>1 DEF Quiet, AwayNumerics, LanguageNumerics, ToldOf
<1> QED
  BY <1>1, <1>2, <1>3

LEMMA LoudReplies ==
  /\ Told("UNAWAY") \in Replies
  /\ \A text \in Shown : ToldOf("NOWAWAY", text) \in Replies
  /\ \A list \in Lists : ToldOf("YOURLANGUAGEIS", list) \in Replies
  BY DEF Replies

(* Only messages that say of what they are speak of it.                    *)
LEMMA RepliesSpeak ==
  ASSUME NEW m \in Replies
  PROVE  /\ m.numeric = "NOWAWAY" => m.of \in Shown
         /\ m.numeric = "YOURLANGUAGEIS" => m.of \in Lists
  BY DEF Replies, Told, ToldOf
-----------------------------------------------------------------------------
(* There is a last message that speaks of a matter, if any does.           *)
LEMMA LastWordIs ==
  ASSUME NEW M, NEW s \in Seq(M), NEW matter, Speaking(s, matter) # {}
  PROVE  /\ Max(Speaking(s, matter)) \in Speaking(s, matter)
         /\ LastWord(s, matter) \in M /\ LastWord(s, matter).numeric \in matter
<1>1. Speaking(s, matter) \subseteq 1..Len(s) /\ Len(s) \in Nat
  BY DEF Speaking
<1>2. Max(Speaking(s, matter)) \in Speaking(s, matter)
  BY <1>1, MaxOfNumbers
<1> QED
  BY <1>1, <1>2 DEF LastWord, Speaking

(* The last word is in what comes last.                                    *)
LEMMA LastWordOfConcat ==
  ASSUME NEW M, NEW a \in Seq(M), NEW b \in Seq(M), NEW matter
  PROVE  /\ Speaking(a \o b, matter) = {} <=>
              Speaking(a, matter) = {} /\ Speaking(b, matter) = {}
         /\ Speaking(b, matter) # {} => LastWord(a \o b, matter) = LastWord(b, matter)
         /\ Speaking(b, matter) = {} /\ Speaking(a, matter) # {} =>
              LastWord(a \o b, matter) = LastWord(a, matter)
<1> DEFINE A == Speaking(a, matter)
           B == Speaking(b, matter)
           C == Speaking(a \o b, matter)
           k == Len(a)
<1>1. /\ k \in Nat /\ Len(b) \in Nat /\ DOMAIN (a \o b) = 1..(k + Len(b))
      /\ A \subseteq 1..k /\ B \subseteq 1..Len(b) /\ C \subseteq 1..(k + Len(b))
  BY DEF Speaking
<1>2. ASSUME NEW i \in 1..k
      PROVE  (a \o b)[i] = a[i] /\ (i \in C <=> i \in A)
  <2>1. i \in 1..(k + Len(b)) /\ i <= k
    BY <1>1
  <2>2. (a \o b)[i] = a[i]
    BY <2>1
  <2> QED
    BY <1>1, <2>1, <2>2 DEF Speaking
<1>3. ASSUME NEW i \in 1..Len(b)
      PROVE  k + i \in Nat /\ (a \o b)[k + i] = b[i] /\ (k + i \in C <=> i \in B)
  <2>1. k + i \in 1..(k + Len(b)) /\ ~(k + i <= k) /\ (k + i) - k = i
    BY <1>1
  <2>2. (a \o b)[k + i] = b[i]
    BY <2>1
  <2> QED
    BY <1>1, <2>1, <2>2 DEF Speaking
<1>4. ASSUME NEW j \in C
      PROVE  \/ j \in A
             \/ \E i \in B : j = k + i
  <2>1. CASE j <= k
    <3>1. j \in 1..k
      BY <1>1, <2>1
    <3> QED
      BY <1>2, <3>1
  <2>2. CASE ~(j <= k)
    <3>1. j - k \in 1..Len(b) /\ j = k + (j - k)
      BY <1>1, <2>2
    <3> QED
      BY <1>3, <3>1
  <2> QED
    BY <2>1, <2>2
<1>5. C = {} <=> A = {} /\ B = {}
  BY <1>1, <1>2, <1>3, <1>4
<1>6. ASSUME B # {}
      PROVE  LastWord(a \o b, matter) = LastWord(b, matter)
  <2>1. Max(B) \in B /\ \A i \in B : i <= Max(B)
    BY <1>1, <1>6, MaxOfNumbers
  <2> DEFINE x == Max(B)
  <2>2. x \in 1..Len(b) /\ k + x \in C
    BY <1>1, <1>3, <2>1
  <2>3. ASSUME NEW j \in C
        PROVE  j <= k + x
    <3>1. CASE j \in A
      BY <1>1, <2>2, <3>1
    <3>2. CASE \E i \in B : j = k + i
      BY <1>1, <2>1, <2>2, <3>2
    <3> QED
      BY <1>4, <3>1, <3>2
  <2>4. Max(C) = k + x
    BY <1>1, <2>2, <2>3, MaxIs
  <2> QED
    BY <1>3, <2>2, <2>4 DEF LastWord
<1>7. ASSUME B = {}, A # {}
      PROVE  LastWord(a \o b, matter) = LastWord(a, matter)
  <2>1. C = A
    BY <1>1, <1>2, <1>4, <1>7
  <2>2. Max(A) \in A
    BY <1>1, <1>7, MaxOfNumbers
  <2>3. Max(A) \in 1..k
    BY <1>1, <2>2
  <2> QED
    BY <1>2, <2>1, <2>3 DEF LastWord
<1> QED
  BY <1>5, <1>6, <1>7

(* Messages that are read in two parts teach what they teach together.     *)
LEMMA LearntByParts ==
  ASSUME NEW M, NEW a \in Seq(M), NEW b \in Seq(M), NEW v
  PROVE  Learnt(v, a \o b) = Learnt(Learnt(v, a), b)
<1>1. \A matter :
         /\ Speaking(a \o b, matter) = {} <=>
              Speaking(a, matter) = {} /\ Speaking(b, matter) = {}
         /\ Speaking(b, matter) # {} => LastWord(a \o b, matter) = LastWord(b, matter)
         /\ Speaking(b, matter) = {} /\ Speaking(a, matter) # {} =>
              LastWord(a \o b, matter) = LastWord(a, matter)
  BY LastWordOfConcat
<1> QED
  BY <1>1 DEF Learnt

(* Nothing is learnt from what speaks of something else.                   *)
LEMMA QuietTeachesNothing ==
  ASSUME NEW s \in Seq(Quiet), NEW v, v = [away |-> v.away, languages |-> v.languages]
  PROVE  Learnt(v, s) = v
<1>1. Speaking(s, AwayNumerics) = {} /\ Speaking(s, LanguageNumerics) = {}
  BY DEF Speaking, Quiet
<1> QED
  BY <1>1 DEF Learnt

(* What one message teaches                                                *)
LEMMA OneMessageTeaches ==
  ASSUME NEW v, NEW m
  PROVE  /\ m.numeric = "UNAWAY" =>
              Learnt(v, <<m>>) = [away |-> Empty, languages |-> v.languages]
         /\ m.numeric = "NOWAWAY" =>
              Learnt(v, <<m>>) = [away |-> m.of, languages |-> v.languages]
         /\ m.numeric = "YOURLANGUAGEIS" =>
              Learnt(v, <<m>>) = [away |-> v.away, languages |-> m.of]
<1>1. ASSUME NEW matter
      PROVE  Speaking(<<m>>, matter) = IF m.numeric \in matter THEN {1} ELSE {}
  BY DEF Speaking
<1>2. Max({1}) = 1
  BY MaxIs
<1>3. ASSUME NEW matter, m.numeric \in matter
      PROVE  LastWord(<<m>>, matter) = m
  BY <1>1, <1>2, <1>3 DEF LastWord
<1> QED
  BY <1>1, <1>3 DEF Learnt, AwayNumerics, LanguageNumerics
-----------------------------------------------------------------------------
(* The state of the loop of LANGUAGE                                       *)
Considering == [list : BoundedSeq(Codes, MaxLanguages), complaints : Nat, full : BOOLEAN]

LEMMA BoundedCodes ==
  \A list : list \in BoundedSeq(Codes, MaxLanguages) <=>
              list \in Seq(Codes) /\ Len(list) <= MaxLanguages
<1>1. ASSUME NEW list \in BoundedSeq(Codes, MaxLanguages)
      PROVE  list \in Seq(Codes) /\ Len(list) <= MaxLanguages
  <2>1. PICK k \in 0..MaxLanguages : list \in [1..k -> Codes]
    BY DEF BoundedSeq, SeqOf
  <2>2. k \in Nat /\ k <= MaxLanguages
    BY ChatAssumption
  <2> QED
    BY <2>1, <2>2
<1>2. ASSUME NEW list \in Seq(Codes), Len(list) <= MaxLanguages
      PROVE  list \in BoundedSeq(Codes, MaxLanguages)
  <2>1. Len(list) \in 0..MaxLanguages /\ list \in [1..Len(list) -> Codes]
    BY <1>2, ChatAssumption
  <2> QED
    BY <2>1 DEF BoundedSeq, SeqOf
<1> QED
  BY <1>1, <1>2

(* A round keeps the limit.                                                *)
LEMMA TakeCodeLimits ==
  ASSUME NEW s \in Considering, NEW code
  PROVE  takeCode(s, code) \in Considering
<1>1. s.list \in Seq(Codes) /\ Len(s.list) <= MaxLanguages
  BY BoundedCodes DEF Considering
<1>2. CASE s.full
  BY <1>2 DEF takeCode
<1>3. CASE ~s.full /\ code \notin Codes
  BY <1>3 DEF takeCode, Considering
<1>4. CASE ~s.full /\ code \in Codes /\ Len(s.list) = MaxLanguages
  <2>1. takeCode(s, code) = [s EXCEPT !.complaints = @ + 1, !.full = TRUE]
    BY <1>4 DEF takeCode
  <2>2. s.list \in BoundedSeq(Codes, MaxLanguages) /\ s.complaints + 1 \in Nat
    BY DEF Considering
  <2>3. takeCode(s, code) = [list |-> s.list, complaints |-> s.complaints + 1, full |-> TRUE]
    BY <2>1 DEF Considering
  <2> QED
    BY <2>2, <2>3 DEF Considering
<1>5. CASE ~s.full /\ code \in Codes /\ Len(s.list) # MaxLanguages
  <2>1. Append(s.list, code) \in Seq(Codes) /\ Len(Append(s.list, code)) <= MaxLanguages
    BY <1>1, <1>5, ChatAssumption
  <2>2. Append(s.list, code) \in BoundedSeq(Codes, MaxLanguages)
    BY <2>1, BoundedCodes
  <2>3. takeCode(s, code) = [s EXCEPT !.list = Append(@, code)]
    BY <1>5 DEF takeCode
  <2> QED
    BY <2>2, <2>3 DEF Considering
<1> QED
  BY <1>2, <1>3, <1>4, <1>5 DEF Considering

(* However many codes LANGUAGE is given, no more languages are taken than  *)
(* there may be.                                                           *)
LEMMA ConsideredLimits ==
  ASSUME NEW codes \in Seq(STRING)
  PROVE  Considered(codes) \in Considering
<1> DEFINE n == Len(codes)
           first == [list |-> <<>>, complaints |-> 0, full |-> FALSE]
           After(f, k) == f = [i \in 0..k |-> IF i = 0 THEN first ELSE takeCode(f[i - 1], codes[i])]
           Rounds == {k \in Nat : \E f \in [0..k -> Considering] : After(f, k)}
<1>0. n \in Nat /\ first \in Considering
  <2>1. <<>> \in BoundedSeq(Codes, MaxLanguages)
    <3>1. <<>> \in Seq(Codes) /\ Len(<<>>) <= MaxLanguages
      BY ChatAssumption
    <3> QED
      BY <3>1, BoundedCodes
  <2> QED
    BY <2>1 DEF Considering
<1> HIDE DEF first
<1>1. 0 \in Rounds
  <2> DEFINE f == [i \in 0..0 |-> first]
  <2>1. f \in [0..0 -> Considering] /\ After(f, 0)
    BY <1>0
  <2> QED
    BY <2>1
<1>2. ASSUME NEW k \in 1..n, k - 1 \in Rounds
      PROVE  k \in Rounds
  <2>0. k \in Nat
    BY <1>0
  <2>1. PICK f \in [0..(k - 1) -> Considering] : After(f, k - 1)
    BY <1>2
  <2> DEFINE h == [i \in 0..k |-> IF i < k THEN f[i] ELSE takeCode(f[k - 1], codes[k])]
  <2>2. h \in [0..k -> Considering]
    <3>1. takeCode(f[k - 1], codes[k]) \in Considering
      BY <2>0, <2>1, TakeCodeLimits
    <3>2. \A i \in 0..k : i < k => i \in 0..(k - 1)
      BY <2>0
    <3> QED
      BY <3>1, <3>2
  <2>3. ASSUME NEW i \in 0..k
        PROVE  h[i] = IF i = 0 THEN first ELSE takeCode(h[i - 1], codes[i])
    <3>1. i # 0 => i - 1 \in 0..k /\ i - 1 < k
      BY <2>0
    <3>2. CASE i < k
      <4>1. i \in 0..(k - 1)
        BY <2>0, <3>2
      <4>2. f[i] = IF i = 0 THEN first ELSE takeCode(f[i - 1], codes[i])
        BY <2>1, <4>1
      <4> QED
        BY <3>1, <3>2, <4>2
    <3>3. CASE i = k
      BY <2>0, <3>1, <3>3
    <3> QED
      BY <2>0, <3>2, <3>3
  <2>4. After(h, k)
    BY <2>2, <2>3
  <2> QED
    BY <2>0, <2>2, <2>4
<1>3. PICK f \in [0..n -> Considering] : After(f, n)
  <2>1. n \in Rounds
    <3> HIDE DEF Rounds
    <3>1. 0..n \subseteq Rounds
      BY <1>0, <1>1, <1>2, RoundByRound
    <3> QED
      BY <1>0, <3>1
  <2> QED
    BY <2>1
<1> DEFINE after == CHOOSE f_1 : After(f_1, n)
<1>4. After(after, n)
  BY <1>3
<1>5. Considered(codes) = after[n]
  BY DEF Considered, first
<1> HIDE DEF after
<1> DEFINE Typed == {i \in 0..n : after[i] \in Considering}
<1>6. after[0] = first /\ \A i \in 1..n : after[i] = takeCode(after[i - 1], codes[i])
  BY <1>0, <1>4
<1>7. n \in Typed
  <2>1. 0 \in Typed
    BY <1>0, <1>6
  <2>2. ASSUME NEW i \in 1..n, i - 1 \in Typed
        PROVE  i \in Typed
    BY <1>0, <1>6, <2>2, TakeCodeLimits
  <2> HIDE DEF Typed
  <2>3. 0..n \subseteq Typed
    BY <1>0, <2>1, <2>2, RoundByRound
  <2> QED
    BY <1>0, <2>3
<1> QED
  BY <1>5, <1>7
-----------------------------------------------------------------------------
(* A connection that has no protocol yet has no user, and nothing is kept  *)
(* or queued for it.                                                       *)
ClosedIsBare ==
  \A u \in Conns : phase[u] = "closed" =>
    /\ nickname[u] = NoName
    /\ awayMessage[u] = Empty /\ languageList[u] = <<>>
    /\ outbox[u] = <<>> /\ view[u] = FirstView

ChatInv == RegistryInv /\ ChatTypeOK /\ ClosedIsBare /\ ClientsKnowTheirUsers

LEMMA EmptyListIsAList == <<>> \in Lists
<1>1. <<>> \in Seq(Codes) /\ Len(<<>>) <= MaxLanguages
  BY ChatAssumption
<1> QED
  BY <1>1, BoundedCodes DEF Lists

LEMMA FirstViewIsAView == FirstView \in [away : Shown, languages : Lists]
  BY EmptyIsKept, EmptyListIsAList DEF FirstView

LEMMA FirstViewIsARecord ==
  /\ FirstView = [away |-> FirstView.away, languages |-> FirstView.languages]
  /\ FirstView.away = Empty
  BY DEF FirstView

LEMMA ChatInvInit == Init => ChatInv
<1> SUFFICES ASSUME Init
             PROVE  ChatInv
  OBVIOUS
<1>1. RegistryInv
  BY RegistryInvInit DEF Init
<1>2. ChatTypeOK
  <2>1. /\ awayMessage \in [Conns -> Kept]
        /\ languageList \in [Conns -> Lists]
        /\ view \in [Conns -> [away : Shown, languages : Lists]]
    BY EmptyIsKept, EmptyListIsAList, FirstViewIsAView DEF Init
  <2>2. outbox \in [Conns -> Seq(Replies)]
    BY DEF Init
  <2>3. /\ phase \in [Conns -> {"closed", "user", "gone"}]
        /\ connected \in [Conns -> BOOLEAN] /\ undefined \in BOOLEAN
        /\ reader \in Conns \cup {NoConn}
    BY DEF Init
  <2> QED
    BY <2>1, <2>2, <2>3 DEF ChatTypeOK
<1>3. ClosedIsBare
  BY DEF Init, RegistryInit, ClosedIsBare
<1>4. ClientsKnowTheirUsers
  BY DEF Init, ClientsKnowTheirUsers
<1> QED
  BY <1>1, <1>2, <1>3, <1>4 DEF ChatInv

(* Every step of a chat is a step of the registry, or none of it.          *)
LEMMA ChatIsRegistry ==
  ASSUME ChatTypeOK, [Next]_vars
  PROVE  [RegistryNext]_registryVars
  BY DEF Next, vars, RegistryNext, Connect, Lose, Read, answer, handleAWAY, listLANGUAGE,
         handleQUIT, handleLANGUAGE, doMessage, handleSQUERY, lookUp, Defined, Crash

(* A user that is found has been one.                                      *)
LEMMA FoundAreUsers ==
  ASSUME ChatInv, NEW n \in Names, findUser(n) # NoConn
  PROVE  findUser(n) \in Conns /\ phase[findUser(n)] # "closed"
<1>1. IRCtoLower[n] \in Registered /\ findUser(n) \in Conns
  BY BaseAssumption DEF ChatInv, RegistryInv, RegistryTypeOK, findUser, Registered
<1>2. nickname[findUser(n)] \in ValidNames
  BY <1>1 DEF ChatInv, RegistryInv, KeysMatchNicknames, findUser
<1> QED
  BY <1>1, <1>2, BaseAssumption DEF ChatInv, ClosedIsBare
-----------------------------------------------------------------------------
(* What is kept of u's user that its client ought to know                  *)
Own(u) ==
  [away |-> delocaliseStr(outputCharConvDesc, awayMessage[u]),
   languages |-> languageList[u]]

LEMMA LearntIsAView ==
  ASSUME NEW v \in [away : Shown, languages : Lists], NEW s \in Seq(Replies)
  PROVE  Learnt(v, s) \in [away : Shown, languages : Lists]
<1>1. ASSUME Speaking(s, AwayNumerics) # {}
      PROVE  LET m == LastWord(s, AwayNumerics)
             IN m.numeric = "NOWAWAY" => m.of \in Shown
  BY <1>1, LastWordIs, RepliesSpeak
<1>2. ASSUME Speaking(s, LanguageNumerics) # {}
      PROVE  LastWord(s, LanguageNumerics).of \in Lists
  BY <1>2, LastWordIs, RepliesSpeak DEF LanguageNumerics
<1> QED
  BY <1>1, <1>2, EmptyIsKept DEF Learnt

(* A line preserves the invariant if it tells every user what it changes of*)
(* that user.                                                              *)
LEMMA Telling ==
  ASSUME ChatInv, NEW u \in Conns, Line(u),
         NEW add \in [Conns -> Seq(Replies)], Send(add),
         \A w \in Conns : phase[w] = "closed" =>
           add[w] = <<>> /\ awayMessage'[w] = awayMessage[w] /\ languageList'[w] = languageList[w],
         \A w \in Conns : phase[w] = "user" => Learnt(Own(w), add[w]) = Own(w)',
         awayMessage' \in [Conns -> Kept], languageList' \in [Conns -> Lists],
         connected' \in [Conns -> BOOLEAN], undefined' \in BOOLEAN,
         nickname' = nickname
  PROVE  ChatTypeOK' /\ ClosedIsBare' /\ ClientsKnowTheirUsers'
<1>0. phase' = phase /\ view' = view /\ reader' = u
  BY DEF Line
<1>1. \A w \in Conns : outbox[w] \in Seq(Replies) /\ outbox'[w] = outbox[w] \o add[w]
  BY DEF ChatInv, ChatTypeOK, Send
<1>2. ChatTypeOK'
  <2>1. outbox' \in [Conns -> Seq(Replies)]
    BY <1>1 DEF Send
  <2> QED
    BY <1>0, <2>1 DEF ChatTypeOK, ChatInv
<1>3. ClosedIsBare'
  <2> SUFFICES ASSUME NEW w \in Conns, phase[w] = "closed"
               PROVE  /\ nickname'[w] = NoName
                      /\ awayMessage'[w] = Empty /\ languageList'[w] = <<>>
                      /\ outbox'[w] = <<>> /\ view'[w] = FirstView
    BY <1>0 DEF ClosedIsBare
  <2>1. outbox'[w] = outbox[w]
    BY <1>1, ConcatEmptySeq
  <2> QED
    BY <1>0, <2>1 DEF ChatInv, ClosedIsBare
<1>4. ClientsKnowTheirUsers'
  <2> SUFFICES ASSUME NEW w \in Conns, phase[w] = "user"
               PROVE  Learnt(view[w], outbox'[w]) = Own(w)'
    BY <1>0 DEF ClientsKnowTheirUsers, Own
  <2>1. Learnt(view[w], outbox[w]) = Own(w)
    BY DEF ChatInv, ClientsKnowTheirUsers, Own
  <2>2. Learnt(view[w], outbox[w] \o add[w]) = Learnt(Learnt(view[w], outbox[w]), add[w])
    BY <1>1, LearntByParts
  <2> QED
    BY <1>1, <2>1, <2>2
<1> QED
  BY <1>2, <1>3, <1>4

(* So does one that changes nothing of any user, and says nothing of it.   *)
LEMMA QuietSend ==
  ASSUME ChatInv, NEW u \in Conns, Line(u),
         NEW add \in [Conns -> Seq(Quiet)], Send(add),
         \A w \in Conns : phase[w] = "closed" => add[w] = <<>>,
         connected' \in [Conns -> BOOLEAN], undefined' \in BOOLEAN,
         UNCHANGED <<awayMessage, languageList, nickname>>
  PROVE  ChatTypeOK' /\ ClosedIsBare' /\ ClientsKnowTheirUsers'
<1>1. add \in [Conns -> Seq(Replies)]
  <2>1. Seq(Quiet) \subseteq Seq(Replies)
    BY DEF Quiet
  <2> QED
    BY <2>1
<1>2. ASSUME NEW w \in Conns
      PROVE  Learnt(Own(w), add[w]) = Own(w)'
  <2>1. Own(w) = [away |-> Own(w).away, languages |-> Own(w).languages]
    BY DEF Own
  <2>2. Learnt(Own(w), add[w]) = Own(w)
    BY <2>1, QuietTeachesNothing
  <2> QED
    BY <2>2 DEF Own
<1>3. awayMessage' \in [Conns -> Kept] /\ languageList' \in [Conns -> Lists]
  BY DEF ChatInv, ChatTypeOK
<1> QED
  BY <1>1, <1>2, <1>3, Telling

LEMMA QuietReply ==
  ASSUME ChatInv, NEW u \in Conns, Line(u), NEW s \in Seq(Quiet), Reply(u, s),
         connected' \in [Conns -> BOOLEAN], undefined' \in BOOLEAN,
         UNCHANGED <<awayMessage, languageList, nickname>>
  PROVE  ChatTypeOK' /\ ClosedIsBare' /\ ClientsKnowTheirUsers'
<1> DEFINE add == [w \in Conns |-> IF w = u THEN s ELSE <<>>]
<1>1. add \in [Conns -> Seq(Quiet)] /\ Send(add)
  BY DEF Reply
<1>2. \A w \in Conns : phase[w] = "closed" => add[w] = <<>>
  BY DEF Line
<1> HIDE DEF add
<1> QED
  BY <1>1, <1>2, QuietSend

(* So does one that tells its own user what has changed.                   *)
LEMMA OwnReply ==
  ASSUME ChatInv, NEW u \in Conns, Line(u), NEW s \in Seq(Replies), Reply(u, s),
         Learnt(Own(u), s) = Own(u)',
         awayMessage' \in [Conns -> Kept], languageList' \in [Conns -> Lists],
         \A w \in Conns \ {u} :
           awayMessage'[w] = awayMessage[w] /\ languageList'[w] = languageList[w],
         UNCHANGED <<connected, nickname>>, undefined' \in BOOLEAN
  PROVE  ChatTypeOK' /\ ClosedIsBare' /\ ClientsKnowTheirUsers'
<1> DEFINE add == [w \in Conns |-> IF w = u THEN s ELSE <<>>]
<1>1. add \in [Conns -> Seq(Replies)] /\ Send(add) /\ add[u] = s
  BY DEF Reply
<1>2. phase[u] = "user" /\ \A w \in Conns \ {u} : add[w] = <<>>
  BY DEF Line
<1>3. ASSUME NEW w \in Conns \ {u}
      PROVE  Learnt(Own(w), <<>>) = Own(w)'
  <2>1. Own(w) = [away |-> Own(w).away, languages |-> Own(w).languages]
    BY DEF Own
  <2>2. <<>> \in Seq(Quiet)
    OBVIOUS
  <2>3. Learnt(Own(w), <<>>) = Own(w)
    BY <2>1, <2>2, QuietTeachesNothing
  <2> QED
    BY <2>3 DEF Own
<1>4. \A w \in Conns : phase[w] = "closed" =>
        add[w] = <<>> /\ awayMessage'[w] = awayMessage[w] /\ languageList'[w] = languageList[w]
  BY <1>2
<1>5. \A w \in Conns : Learnt(Own(w), add[w]) = Own(w)'
  BY <1>1, <1>2, <1>3
<1>6. connected' \in [Conns -> BOOLEAN]
  BY DEF ChatInv, ChatTypeOK
<1> HIDE DEF add
<1> QED
  BY <1>1, <1>4, <1>5, <1>6, Telling

LEMMA CrashInv ==
  ASSUME ChatInv, NEW u \in Conns, Line(u), Crash
  PROVE  ChatTypeOK' /\ ClosedIsBare' /\ ClientsKnowTheirUsers'
<1>1. ChatTypeOK'
  BY DEF ChatInv, ChatTypeOK, Line, Crash
<1>2. ClosedIsBare'
  BY DEF ChatInv, ClosedIsBare, Line, Crash, registryVars
<1>3. ClientsKnowTheirUsers'
  BY DEF ChatInv, ClientsKnowTheirUsers, Line, Crash
<1> QED
  BY <1>1, <1>2, <1>3
-----------------------------------------------------------------------------
(* The targets that are served are those given, or the first of them.      *)
LEMMA ServedAreFirst ==
  ASSUME NEW targets \in Seq(Names)
  PROVE  /\ Served(targets) \in Seq(Names)
         /\ Len(Served(targets)) <= Len(targets)
         /\ \A i \in 1..Len(Served(targets)) : Served(targets)[i] = targets[i]
<1>1. CASE Len(targets) < MaxTargets
  BY <1>1 DEF Served
<1>2. CASE ~(Len(targets) < MaxTargets)
  <2>1. MaxTargets - 1 \in Nat /\ MaxTargets - 1 <= Len(targets) /\ Len(targets) \in Nat
    BY <1>2, ChatAssumption
  <2>2. Served(targets) = SubSeq(targets, 1, MaxTargets - 1)
    BY <1>2 DEF Served
  <2> QED
    BY <2>1, <2>2, SubSeqProperties
<1> QED
  BY <1>1, <1>2

LEMMA TooManyIsQuiet ==
  ASSUME NEW targets
  PROVE  TooMany(targets) \in Seq(Quiet)
  BY QuietReplies DEF TooMany

(* One target of a message is told to users only, and to its sender.       *)
LEMMA OutcomeIsQuiet ==
  ASSUME ChatInv, NEW command \in {"PRIVMSG", "NOTICE"}, NEW u \in Conns, NEW n \in Names,
         NEW w \in Conns
  PROVE  /\ Outcome(command, u, n, w) \in Seq(Quiet)
         /\ w # u /\ phase[w] = "closed" => Outcome(command, u, n, w) = <<>>
<1> DEFINE v == findUser(n)
<1>1. CASE v = NoConn
  BY <1>1, QuietReplies DEF Outcome
<1>2. CASE v # NoConn
  <2> DEFINE message == IF w = v THEN <<Accepted(command, u)>> ELSE <<>>
             away == IF command = "PRIVMSG" /\ w = u /\ isAway(v) THEN <<ToldOf("AWAY", v)>>
                     ELSE <<>>
  <2>1. v \in Conns /\ phase[v] # "closed"
    BY <1>2, FoundAreUsers
  <2>2. Accepted(command, u) \in Quiet
    BY QuietReplies DEF Accepted, doEventReceivePrivateMessage, doEventReceivePrivateNotice
  <2>3. message \in Seq(Quiet)
    BY <2>2
  <2>4. away \in Seq(Quiet)
    BY <2>1, QuietReplies
  <2>5. Outcome(command, u, n, w) = message \o away
    BY <1>2 DEF Outcome
  <2>6. w # u /\ phase[w] = "closed" => message = <<>> /\ away = <<>>
    BY <2>1
  <2> HIDE DEF message, away
  <2> QED
    BY <2>3, <2>4, <2>5, <2>6, ConcatEmptySeq
<1> QED
  BY <1>1, <1>2

(* What a message puts into the outbox of w                                *)
Adding(command, u, targets, w) ==
  FlattenSeq([i \in DOMAIN Served(targets) |-> Outcome(command, u, Served(targets)[i], w)])
  \o (IF command = "PRIVMSG" /\ w = u THEN TooMany(targets) ELSE <<>>)

LEMMA AddingIsQuiet ==
  ASSUME ChatInv, NEW command \in {"PRIVMSG", "NOTICE"}, NEW u \in Conns,
         NEW targets \in Seq(Names), NEW w \in Conns
  PROVE  /\ Adding(command, u, targets, w) \in Seq(Quiet)
         /\ w # u /\ phase[w] = "closed" => Adding(command, u, targets, w) = <<>>
<1> DEFINE ss == [i \in DOMAIN Served(targets) |-> Outcome(command, u, Served(targets)[i], w)]
           last == IF command = "PRIVMSG" /\ w = u THEN TooMany(targets) ELSE <<>>
<1>1. /\ Served(targets) \in Seq(Names) /\ Len(Served(targets)) \in Nat
      /\ DOMAIN Served(targets) = 1..Len(Served(targets))
      /\ \A i \in DOMAIN Served(targets) : Served(targets)[i] \in Names
  BY ServedAreFirst
<1> DEFINE k == Len(Served(targets))
<1>2. ss \in Seq(Seq(Quiet))
  <2>1. \A i \in 1..k : Outcome(command, u, Served(targets)[i], w) \in Seq(Quiet)
    BY <1>1, OutcomeIsQuiet
  <2>2. ss \in [1..k -> Seq(Quiet)]
    BY <1>1, <2>1
  <2> QED
    BY <1>1, <2>2
<1>3. FlattenSeq(ss) \in Seq(Quiet)
  <2> HIDE DEF ss
  <2> QED
    BY <1>2, FlattenOver
<1>4. last \in Seq(Quiet)
  BY TooManyIsQuiet
<1>5. ASSUME w # u, phase[w] = "closed"
      PROVE  FlattenSeq(ss) = <<>> /\ last = <<>>
  <2>1. ss \in Seq(Seq({}))
    <3>1. \A i \in 1..k : Outcome(command, u, Served(targets)[i], w) = <<>>
      BY <1>1, <1>5, OutcomeIsQuiet, ZenonT(40)
    <3>2. \A i \in 1..k : Outcome(command, u, Served(targets)[i], w) \in Seq({})
      BY <3>1, EmptySeq
    <3>3. ss \in [1..k -> Seq({})]
      BY <1>1, <3>2
    <3> QED
      BY <1>1, <3>3
  <2>2. FlattenSeq(ss) \in Seq({})
    <3> HIDE DEF ss
    <3> QED
      BY <2>1, FlattenOver
  <2>3. \A s \in Seq({}) : s = <<>>
    BY EmptySeq
  <2> QED
    BY <1>5, <2>2, <2>3
<1> HIDE DEF ss, last
<1>6. FlattenSeq(ss) \o last \in Seq(Quiet)
  BY <1>3, <1>4
<1>7. w # u /\ phase[w] = "closed" => FlattenSeq(ss) \o last = <<>>
  BY <1>5, ConcatEmptySeq
<1> QED
  BY <1>6, <1>7 DEF Adding, ss, last
-----------------------------------------------------------------------------
(* A line of any command preserves the invariant.                          *)
LEMMA LineInv ==
  ASSUME ChatInv, NEW u \in Conns,
         \/ answer(u) \/ handleAWAY(u) \/ listLANGUAGE(u) \/ handleQUIT(u)
         \/ \E codes \in CodeLists : handleLANGUAGE(u, codes)
         \/ \E targets \in TargetLists :
              \/ \E command \in {"PRIVMSG", "NOTICE"} : doMessage(command, u, targets)
              \/ handleSQUERY(u, targets) \/ lookUp(u, targets)
  PROVE  ChatTypeOK' /\ ClosedIsBare' /\ ClientsKnowTheirUsers'
<1> DEFINE Goal == ChatTypeOK' /\ ClosedIsBare' /\ ClientsKnowTheirUsers'
<1>1. connected \in [Conns -> BOOLEAN] /\ <<Told("OTHER")>> \in Seq(Quiet)
  BY QuietReplies DEF ChatInv, ChatTypeOK
<1>2. Defined => undefined' \in BOOLEAN /\ nickname' = nickname
  BY DEF Defined, registryVars
<1>3. CASE answer(u)
  BY <1>1, <1>2, <1>3, QuietReply DEF answer
<1>4. CASE handleAWAY(u)
  <2>1. ASSUME Line(u), Defined, NEW reason \in Kept, UNCHANGED <<connected, languageList>>,
               awayMessage' = [awayMessage EXCEPT ![u] = reason],
               Reply(u, <<doEventAwayToggle(reason)>>)
        PROVE  Goal
    <3> DEFINE s == <<doEventAwayToggle(reason)>>
    <3>1. awayMessage' \in [Conns -> Kept] /\ awayMessage'[u] = reason
      BY <2>1 DEF ChatInv, ChatTypeOK
    <3>2. doEventAwayToggle(reason) \in Replies
      BY LoudReplies DEF doEventAwayToggle, Shown
    <3>3. Own(u)' = [away |-> delocaliseStr(outputCharConvDesc, reason),
                     languages |-> Own(u).languages]
      BY <2>1, <3>1 DEF Own
    <3>4. Learnt(Own(u), s) = Own(u)'
      <4>1. CASE reason = Empty
        <5>1. s = <<Told("UNAWAY")>> /\ Told("UNAWAY").numeric = "UNAWAY"
          BY <4>1 DEF doEventAwayToggle, Told
        <5> QED
          BY <3>3, <4>1, <5>1, EmptyIsShown, OneMessageTeaches
      <4>2. CASE reason # Empty
        <5> DEFINE m == ToldOf("NOWAWAY", delocaliseStr(outputCharConvDesc, reason))
        <5>1. /\ s = <<m>> /\ m.numeric = "NOWAWAY"
              /\ m.of = delocaliseStr(outputCharConvDesc, reason)
          BY <4>2 DEF doEventAwayToggle, ToldOf
        <5> HIDE DEF m
        <5> QED
          BY <3>3, <5>1, OneMessageTeaches
      <4> QED
        BY <4>1, <4>2
    <3>5. s \in Seq(Replies)
      BY <3>2
    <3>6. \A w \in Conns \ {u} :
            awayMessage'[w] = awayMessage[w] /\ languageList'[w] = languageList[w]
      BY <2>1 DEF ChatInv, ChatTypeOK
    <3>7. languageList' \in [Conns -> Lists]
      BY <2>1 DEF ChatInv, ChatTypeOK
    <3> HIDE DEF s
    <3> QED
      BY <1>2, <2>1, <3>1, <3>4, <3>5, <3>6, <3>7, OwnReply DEF s
  <2>2. \A text \in Spoken : localiseStr(inputCharConvDesc, text) \in Kept
    BY DEF Kept
  <2> HIDE DEF Goal
  <2> QED
    BY <1>4, <2>1, <2>2, EmptyIsKept, CrashInv DEF handleAWAY, setHere, setAway, Goal
<1>5. CASE listLANGUAGE(u)
  BY <1>1, <1>2, <1>5, QuietReply, CrashInv DEF listLANGUAGE
<1>6. CASE handleQUIT(u)
  <2>1. connected' \in [Conns -> BOOLEAN] /\ nickname' = nickname /\ undefined' \in BOOLEAN
    BY <1>1, <1>6 DEF handleQUIT, quit, ChatInv, ChatTypeOK
  <2> QED
    BY <1>1, <1>6, <2>1, QuietReply DEF handleQUIT
<1>7. ASSUME NEW codes \in CodeLists, handleLANGUAGE(u, codes)
      PROVE  Goal
  <2> DEFINE seen == Considered(codes)
             complaints == [i \in 1..seen.complaints |-> Told("OTHER")]
  <2>1. seen \in Considering
    BY ConsideredLimits, ChatAssumption
  <2>2. complaints \in Seq(Quiet)
    <3>1. seen.complaints \in Nat
      BY <2>1 DEF Considering
    <3> QED
      BY <3>1, QuietReplies
  <2> HIDE DEF seen, complaints
  <2>3. CASE Reply(u, complaints) /\ Defined /\ UNCHANGED languageList
    BY <1>1, <1>2, <1>7, <2>2, <2>3, QuietReply DEF handleLANGUAGE
  <2>4. CASE /\ seen.list # <<>> /\ Head(seen.list) # NullLanguage
             /\ setLanguageList(u, seen.list, complaints) /\ Defined
    <3> DEFINE m == YourLanguageIs(seen.list)
               s == Append(complaints, m)
    <3>1. seen.list \in Lists
      BY <2>1, <2>4 DEF Considering, Lists
    <3>2. m \in Replies /\ m.numeric = "YOURLANGUAGEIS" /\ m.of = seen.list
      BY <3>1, LoudReplies DEF YourLanguageIs, ToldOf
    <3>3. complaints \in Seq(Replies)
      BY <2>2 DEF Quiet
    <3>4. s \in Seq(Replies) /\ s = complaints \o <<m>> /\ <<m>> \in Seq(Replies)
      BY <3>2, <3>3, AppendProperties, AppendIsConcat
    <3>5. languageList' \in [Conns -> Lists] /\ languageList'[u] = seen.list
      BY <2>4, <3>1 DEF setLanguageList, ChatInv, ChatTypeOK
    <3>6. /\ awayMessage' = awayMessage /\ connected' = connected /\ Line(u)
          /\ awayMessage' \in [Conns -> Kept]
      BY <1>7 DEF handleLANGUAGE, ChatInv, ChatTypeOK
    <3>7. Learnt(Own(u), s) = Own(u)'
      <4>1. Own(u) = [away |-> Own(u).away, languages |-> Own(u).languages]
        BY DEF Own
      <4>2. Learnt(Own(u), complaints) = Own(u)
        BY <2>2, <4>1, QuietTeachesNothing
      <4>3. Learnt(Own(u), complaints \o <<m>>) = Learnt(Learnt(Own(u), complaints), <<m>>)
        BY <3>3, <3>4, LearntByParts
      <4>4. Learnt(Own(u), <<m>>) = [away |-> Own(u).away, languages |-> seen.list]
        BY <3>2, OneMessageTeaches
      <4>5. Own(u)' = [away |-> Own(u).away, languages |-> seen.list]
        BY <3>5, <3>6 DEF Own
      <4> QED
        BY <3>4, <4>2, <4>3, <4>4, <4>5
    <3>8. \A w \in Conns \ {u} :
            awayMessage'[w] = awayMessage[w] /\ languageList'[w] = languageList[w]
      BY <2>4, <3>6 DEF setLanguageList, ChatInv, ChatTypeOK
    <3>9. Reply(u, s)
      BY <2>4 DEF setLanguageList, doEventLanguageChange
    <3> HIDE DEF s
    <3> QED
      BY <1>2, <2>4, <3>4, <3>5, <3>6, <3>7, <3>8, <3>9, OwnReply
  <2>5. CASE Crash
    BY <1>7, <2>5, CrashInv DEF handleLANGUAGE
  <2> QED
    BY <1>7, <2>3, <2>4, <2>5 DEF handleLANGUAGE, seen, complaints
<1>8. ASSUME NEW targets \in TargetLists, NEW command \in {"PRIVMSG", "NOTICE"},
             doMessage(command, u, targets)
      PROVE  Goal
  <2>1. targets \in Seq(Names)
    BY ChatAssumption
  <2> DEFINE add == [w \in Conns |-> Adding(command, u, targets, w)]
  <2>2. CASE Send(add) /\ Defined
    <3>1. add \in [Conns -> Seq(Quiet)]
      BY <2>1, AddingIsQuiet
    <3>2. phase[u] = "user" /\ Line(u)
      BY <1>8 DEF doMessage, Line
    <3>3. \A w \in Conns : phase[w] = "closed" => add[w] = <<>>
      BY <2>1, <3>2, AddingIsQuiet
    <3>4. UNCHANGED <<connected, awayMessage, languageList>>
      BY <1>8 DEF doMessage
    <3> HIDE DEF add
    <3> QED
      BY <1>1, <1>2, <2>2, <3>1, <3>2, <3>3, <3>4, QuietSend
  <2>3. CASE Crash
    BY <1>8, <2>3, CrashInv DEF doMessage
  <2> QED
    BY <1>8, <2>2, <2>3 DEF doMessage, Adding
<1>9. ASSUME NEW targets \in TargetLists, handleSQUERY(u, targets)
      PROVE  Goal
  <2>1. targets \in Seq(Names)
    BY ChatAssumption
  <2> DEFINE s == [i \in DOMAIN Served(targets) |-> Told("OTHER")] \o TooMany(targets)
  <2>2. s \in Seq(Quiet)
    <3>1. Served(targets) \in Seq(Names)
      BY <2>1, ServedAreFirst
    <3>2. [i \in DOMAIN Served(targets) |-> Told("OTHER")] \in Seq(Quiet)
      BY <3>1, QuietReplies
    <3> QED
      BY <3>2, TooManyIsQuiet, ConcatProperties
  <2> HIDE DEF s
  <2> QED
    BY <1>1, <1>2, <1>9, <2>2, QuietReply, CrashInv DEF handleSQUERY, s
<1>10. ASSUME NEW names \in TargetLists, lookUp(u, names)
       PROVE  Goal
  BY <1>1, <1>2, <1>10, QuietReply, CrashInv DEF lookUp
<1> QED
  BY <1>3, <1>4, <1>5, <1>6, <1>7, <1>8, <1>9, <1>10

(* A new connection is told of its first language, if it is welcome.       *)
LEMMA ConnectInv ==
  ASSUME ChatInv, NEW u \in Conns, NEW n \in Names, Connect(u, n)
  PROVE  ChatTypeOK' /\ ClosedIsBare' /\ ClientsKnowTheirUsers'
<1> DEFINE list == <<DefaultLanguage>>
           s == <<Told("OTHER"), YourLanguageIs(list)>>
<1>1. /\ phase[u] = "closed" /\ phase' = [phase EXCEPT ![u] = "user"]
      /\ nickname' = [nickname EXCEPT ![u] = n]
      /\ awayMessage' = awayMessage /\ view' = view
  BY DEF Connect, addUser
<1>2. list \in Lists
  <2>1. DefaultLanguage \in Codes /\ DefaultLanguage # NullLanguage
    BY ChatAssumption DEF Codes
  <2>2. list \in Seq(Codes) /\ Len(list) <= MaxLanguages /\ Head(list) # NullLanguage
    BY <2>1, ChatAssumption
  <2> QED
    BY <2>2, BoundedCodes DEF Lists
<1> DEFINE m == YourLanguageIs(list)
<1>3. m \in Replies /\ m.numeric = "YOURLANGUAGEIS" /\ m.of = list
  BY <1>2, LoudReplies DEF YourLanguageIs, ToldOf
<1>4. Told("OTHER") \in Quiet /\ Told("OTHER") \in Replies
  BY QuietReplies DEF Quiet
<1>5. s \in Seq(Replies) /\ s = <<Told("OTHER")>> \o <<m>>
  BY <1>3, <1>4
<1>6. /\ outbox[u] = <<>> /\ view[u] = FirstView
      /\ awayMessage[u] = Empty /\ languageList[u] = <<>>
  BY <1>1 DEF ChatInv, ClosedIsBare
<1>7. CASE /\ languageList' = [languageList EXCEPT ![u] = list]
           /\ Reply(u, s)
  <2>1. \A w \in Conns : outbox'[w] = IF w = u THEN s ELSE outbox[w]
    BY <1>5, <1>6, <1>7, ConcatEmptySeq DEF Reply, Send, ChatInv, ChatTypeOK
  <2>2. Learnt(FirstView, s) = [away |-> Empty, languages |-> list]
    <3> HIDE DEF m, list
    <3>0. <<Told("OTHER")>> \in Seq(Quiet) /\ <<Told("OTHER")>> \in Seq(Replies)
      BY <1>4
    <3>1. Learnt(FirstView, <<Told("OTHER")>>) = FirstView
      BY <3>0, FirstViewIsARecord, QuietTeachesNothing
    <3>2. Learnt(FirstView, <<Told("OTHER")>> \o <<m>>)
            = Learnt(Learnt(FirstView, <<Told("OTHER")>>), <<m>>)
      <4>1. <<m>> \in Seq(Replies)
        BY <1>3
      <4> QED
        BY <3>0, <4>1, LearntByParts
    <3>3. Learnt(FirstView, <<m>>) = [away |-> FirstView.away, languages |-> list]
      BY <1>3, OneMessageTeaches
    <3> QED
      BY <1>5, <3>1, <3>2, <3>3, FirstViewIsARecord
  <2>3. ChatTypeOK'
    <3>1. languageList' \in [Conns -> Lists]
      BY <1>2, <1>7 DEF ChatInv, ChatTypeOK
    <3>2. outbox' \in [Conns -> Seq(Replies)]
      BY <1>5, <1>7, <2>1 DEF Reply, Send, ChatInv, ChatTypeOK
    <3> QED
      BY <1>1, <3>1, <3>2 DEF ChatInv, ChatTypeOK, Connect
  <2>4. ClosedIsBare'
    BY <1>1, <1>7, <2>1 DEF ChatInv, ClosedIsBare, ChatTypeOK, RegistryInv, RegistryTypeOK
  <2>5. ClientsKnowTheirUsers'
    <3> HIDE DEF s, list
    <3>1. languageList'[u] = list
      BY <1>7 DEF ChatInv, ChatTypeOK
    <3>2. \A w \in Conns \ {u} : languageList'[w] = languageList[w] /\ phase'[w] = phase[w]
      BY <1>1, <1>7 DEF ChatInv, ChatTypeOK
    <3> QED
      BY <1>1, <1>6, <2>1, <2>2, <3>1, <3>2, EmptyIsShown
         DEF ClientsKnowTheirUsers, ChatInv
  <2> QED
    BY <2>3, <2>4, <2>5
<1>8. CASE UNCHANGED <<languageList, outbox>>
  <2>1. ChatTypeOK'
    BY <1>1, <1>8 DEF ChatInv, ChatTypeOK, Connect
  <2>2. ClosedIsBare'
    BY <1>1, <1>8 DEF ChatInv, ClosedIsBare, ChatTypeOK, RegistryInv, RegistryTypeOK
  <2>3. Learnt(FirstView, <<>>) = FirstView
    <3>1. <<>> \in Seq(Quiet)
      OBVIOUS
    <3> QED
      BY <3>1, FirstViewIsARecord, QuietTeachesNothing
  <2>4. \A w \in Conns \ {u} : phase'[w] = phase[w]
    BY <1>1 DEF ChatInv, ChatTypeOK
  <2>5. ClientsKnowTheirUsers'
    BY <1>1, <1>6, <1>8, <2>3, <2>4, EmptyIsShown DEF ClientsKnowTheirUsers, ChatInv, FirstView
  <2> QED
    BY <2>1, <2>2, <2>5
<1> QED
  BY <1>7, <1>8 DEF Connect

(* What a client has read it still knows.                                  *)
LEMMA ReadInv ==
  ASSUME ChatInv, NEW u \in Conns, Read(u)
  PROVE  ChatTypeOK' /\ ClosedIsBare' /\ ClientsKnowTheirUsers'
<1>1. /\ phase[u] = "user" /\ UNCHANGED <<own, undefined, registryVars>>
      /\ view' = [view EXCEPT ![u] = Learnt(@, outbox[u])]
      /\ outbox' = [outbox EXCEPT ![u] = <<>>]
      /\ reader' = NoConn
  BY DEF Read
<1>2. Learnt(view[u], outbox[u]) \in [away : Shown, languages : Lists]
  BY LearntIsAView DEF ChatInv, ChatTypeOK
<1>3. ChatTypeOK'
  <2>1. view' \in [Conns -> [away : Shown, languages : Lists]]
    BY <1>1, <1>2 DEF ChatInv, ChatTypeOK
  <2>2. outbox' \in [Conns -> Seq(Replies)]
    BY <1>1 DEF ChatInv, ChatTypeOK
  <2> QED
    BY <1>1, <2>1, <2>2 DEF ChatInv, ChatTypeOK, own
<1>4. ClosedIsBare'
  BY <1>1 DEF ChatInv, ClosedIsBare, ChatTypeOK, own, registryVars
<1>5. ClientsKnowTheirUsers'
  <2> DEFINE v == Learnt(view[u], outbox[u])
  <2>1. v = [away |-> v.away, languages |-> v.languages]
    BY DEF Learnt
  <2>2. Learnt(v, <<>>) = v
    <3>1. <<>> \in Seq(Quiet)
      OBVIOUS
    <3> HIDE DEF v
    <3> QED
      BY <2>1, <3>1, QuietTeachesNothing
  <2>3. view'[u] = v /\ outbox'[u] = <<>>
    BY <1>1 DEF ChatInv, ChatTypeOK
  <2>4. \A w \in Conns \ {u} : view'[w] = view[w] /\ outbox'[w] = outbox[w]
    BY <1>1 DEF ChatInv, ChatTypeOK
  <2> HIDE DEF v
  <2>5. v = [away |-> delocaliseStr(outputCharConvDesc, awayMessage[u]),
             languages |-> languageList[u]]
    BY <1>1 DEF v, ChatInv, ClientsKnowTheirUsers
  <2> QED
    BY <1>1, <2>2, <2>3, <2>4, <2>5 DEF ClientsKnowTheirUsers, ChatInv, own
<1> QED
  BY <1>3, <1>4, <1>5

LEMMA LoseInv ==
  ASSUME ChatInv, NEW u \in Conns, Lose(u)
  PROVE  ChatTypeOK' /\ ClosedIsBare' /\ ClientsKnowTheirUsers'
<1>1. ChatTypeOK'
  <2>1. /\ awayMessage' \in [Conns -> Kept]
        /\ languageList' \in [Conns -> Lists]
    BY EmptyIsKept, EmptyListIsAList DEF Lose, ChatInv, ChatTypeOK
  <2>2. view' \in [Conns -> [away : Shown, languages : Lists]]
    BY FirstViewIsAView DEF Lose, ChatInv, ChatTypeOK
  <2>3. outbox' \in [Conns -> Seq(Replies)]
    BY DEF Lose, ChatInv, ChatTypeOK
  <2>4. /\ phase' \in [Conns -> {"closed", "user", "gone"}]
        /\ connected' \in [Conns -> BOOLEAN] /\ undefined' \in BOOLEAN
        /\ reader' \in Conns \cup {NoConn}
    BY DEF Lose, ChatInv, ChatTypeOK
  <2> QED
    BY <2>1, <2>2, <2>3, <2>4 DEF ChatTypeOK
<1>2. \A w \in Conns \ {u} :
        /\ phase'[w] = phase[w] /\ awayMessage'[w] = awayMessage[w]
        /\ languageList'[w] = languageList[w] /\ outbox'[w] = outbox[w] /\ view'[w] = view[w]
  BY DEF Lose, ChatInv, ChatTypeOK
<1>3. phase'[u] = "gone" /\ nickname' = nickname
  BY DEF Lose, ChatInv, ChatTypeOK, registryVars
<1>4. ClosedIsBare'
  BY <1>2, <1>3 DEF ChatInv, ClosedIsBare
<1>5. ClientsKnowTheirUsers'
  BY <1>2, <1>3 DEF ChatInv, ClientsKnowTheirUsers
<1> QED
  BY <1>1, <1>4, <1>5

LEMMA ChatInvNext == ChatInv /\ [Next]_vars => ChatInv'
<1> SUFFICES ASSUME ChatInv, [Next]_vars
             PROVE  ChatInv'
  OBVIOUS
<1>1. RegistryInv'
  BY ChatIsRegistry, RegistryInvNext DEF ChatInv
<1>2. CASE Next
  <2>1. ChatTypeOK' /\ ClosedIsBare' /\ ClientsKnowTheirUsers'
    <3>1. PICK u \in Conns :
            \/ \E n \in Names : Connect(u, n)
            \/ Lose(u) \/ Read(u)
            \/ answer(u) \/ handleAWAY(u) \/ listLANGUAGE(u) \/ handleQUIT(u)
            \/ \E codes \in CodeLists : handleLANGUAGE(u, codes)
            \/ \E targets \in TargetLists :
                 \/ \E command \in {"PRIVMSG", "NOTICE"} : doMessage(command, u, targets)
                 \/ handleSQUERY(u, targets) \/ lookUp(u, targets)
      BY <1>2 DEF Next
    <3> QED
      BY <3>1, ConnectInv, LoseInv, ReadInv, LineInv
  <2> QED
    BY <1>1, <2>1 DEF ChatInv
<1>3. CASE UNCHANGED vars
  <2> USE <1>3 DEF vars, chatVars, own, registryVars
  <2>1. ChatTypeOK'
    BY DEF ChatInv, ChatTypeOK
  <2>2. ClosedIsBare'
    BY DEF ChatInv, ClosedIsBare
  <2>3. ClientsKnowTheirUsers'
    BY DEF ChatInv, ClientsKnowTheirUsers
  <2> QED
    BY <1>1, <2>1, <2>2, <2>3 DEF ChatInv
<1> QED
  BY <1>2, <1>3

LEMMA ChatInvariant == Spec => []ChatInv
  BY ChatInvInit, ChatInvNext, PTL DEF Spec

(* Every variable of the protocol has its type: in particular no user ever *)
(* has more languages than the limit, or none first.                       *)
THEOREM ChatIsTyped == Spec => []ChatTypeOK
  BY ChatInvariant, PTL DEF ChatInv

(* What is queued for a client tells it all that the daemon keeps of its   *)
(* user: AWAY and LANGUAGE never change that without a word, and what is   *)
(* said of others changes nothing of it.                                   *)
THEOREM ClientsAreTold == Spec => []ClientsKnowTheirUsers
  BY ChatInvariant, PTL DEF ChatInv

(* Users chat as the registry lets them: what holds of it holds of chats.  *)
THEOREM ChatKeepsItsRegistry == Spec => RegistrySpec
<1>1. Init => RegistryInit
  BY DEF Init
<1>2. ChatInv /\ [Next]_vars => [RegistryNext]_registryVars
  BY ChatIsRegistry DEF ChatInv
<1> QED
  BY <1>1, <1>2, ChatInvariant, PTL DEF Spec, RegistrySpec
-----------------------------------------------------------------------------
(* What a line adds to an outbox is what it was told to.                   *)
LEMMA AddedIs ==
  ASSUME ChatInv, NEW w \in Conns, NEW s \in Seq(Quiet), outbox'[w] = outbox[w] \o s
  PROVE  Added(w) = s
<1> DEFINE b == outbox[w]
           k == Len(b)
<1>1. b \in Seq(Replies) /\ s \in Seq(Replies) /\ k \in Nat /\ Len(s) \in Nat
  BY DEF ChatInv, ChatTypeOK, Quiet
<1>2. Added(w) = SubSeq(b \o s, k + 1, k + Len(s))
  BY <1>1 DEF Added
<1> HIDE DEF b
<1>3. CASE s = <<>>
  <2>1. k + Len(s) < k + 1
    BY <1>1, <1>3
  <2> QED
    BY <1>1, <1>2, <1>3, <2>1, SubSeqEmpty
<1>4. CASE s # <<>>
  <2>1. Len(s) >= 1
    BY <1>1, <1>4, EmptySeq
  <2>2. /\ k + 1 \in (k + 1)..(k + Len(s)) /\ k + Len(s) \in (k + 1)..(k + Len(s))
        /\ (k + 1) - k = 1 /\ (k + Len(s)) - k = Len(s)
    BY <1>1, <2>1
  <2>3. SubSeq(b \o s, k + 1, k + Len(s)) = SubSeq(s, 1, Len(s))
    BY <1>1, <2>2, SubSeqOfConcat2
  <2> QED
    BY <1>1, <1>2, <2>3, SubSeqFull
<1> QED
  BY <1>3, <1>4

LEMMA MessageAdds ==
  ASSUME ChatInv, NEW command \in {"PRIVMSG", "NOTICE"}, NEW u \in Conns,
         NEW targets \in Seq(Names), doMessage(command, u, targets), NEW w \in Conns
  PROVE  /\ ~undefined' => Added(w) = Adding(command, u, targets, w)
         /\ undefined' => Added(w) = <<>>
<1>1. CASE /\ undefined' = FALSE
           /\ Send([x \in Conns |-> Adding(command, u, targets, x)])
  <2>1. outbox'[w] = outbox[w] \o Adding(command, u, targets, w)
    BY <1>1 DEF Send
  <2>2. Adding(command, u, targets, w) \in Seq(Quiet)
    BY AddingIsQuiet
  <2> QED
    BY <1>1, <2>1, <2>2, AddedIs
<1>2. CASE Crash
  <2>1. outbox' = outbox /\ undefined' = TRUE /\ outbox[w] \in Seq(Replies)
    BY <1>2 DEF Crash, ChatInv, ChatTypeOK
  <2>2. <<>> \in Seq(Quiet) /\ outbox'[w] = outbox[w] \o <<>>
    BY <2>1, ConcatEmptySeq
  <2>3. Added(w) = <<>>
    BY <2>2, AddedIs
  <2> QED
    BY <2>1, <2>3
<1> QED
  BY <1>1, <1>2 DEF doMessage, Defined, Adding

(* A NOTICE is not answered: all that it makes anybody hear is itself.     *)
LEMMA NoticeAdds ==
  ASSUME ChatInv, NEW u \in Conns, NEW targets \in Seq(Names), doMessage("NOTICE", u, targets)
  PROVE  OnlyNotices(u)
<1> DEFINE Itself == {ToldOf("NOTICE", u)}
<1>1. ASSUME NEW w \in Conns, NEW n \in Names
      PROVE  Outcome("NOTICE", u, n, w) \in Seq(Itself)
  <2>1. Accepted("NOTICE", u) \in Itself
    BY DEF Accepted, doEventReceivePrivateNotice
  <2>2. Outcome("NOTICE", u, n, w) \in {<<>>, <<Accepted("NOTICE", u)>>, <<>> \o <<>>,
                                        <<Accepted("NOTICE", u)>> \o <<>>}
    BY DEF Outcome
  <2>3. <<Accepted("NOTICE", u)>> \in Seq(Itself) /\ <<>> \in Seq(Itself)
    BY <2>1
  <2> HIDE DEF Itself
  <2> QED
    BY <2>2, <2>3, ConcatProperties
<1>2. ASSUME NEW w \in Conns
      PROVE  Adding("NOTICE", u, targets, w) \in Seq(Itself)
  <2> DEFINE ss == [i \in DOMAIN Served(targets) |-> Outcome("NOTICE", u, Served(targets)[i], w)]
             k == Len(Served(targets))
  <2> HIDE DEF Itself
  <2>1. /\ k \in Nat /\ DOMAIN Served(targets) = 1..k
        /\ \A i \in 1..k : Served(targets)[i] \in Names
    BY ServedAreFirst
  <2>2. ss \in [1..k -> Seq(Itself)]
    BY <1>1, <2>1
  <2>3. ss \in Seq(Seq(Itself))
    BY <2>1, <2>2
  <2> HIDE DEF ss
  <2>4. FlattenSeq(ss) \in Seq(Itself)
    BY <2>3, FlattenOver
  <2>5. Adding("NOTICE", u, targets, w) = FlattenSeq(ss) \o <<>>
    BY DEF Adding, ss
  <2> QED
    BY <2>4, <2>5, ConcatEmptySeq
<1>3. \A w \in Conns : Added(w) \in Seq(Itself)
  <2>1. <<>> \in Seq(Itself)
    OBVIOUS
  <2> HIDE DEF Itself
  <2> QED
    BY <1>2, <2>1, MessageAdds
<1> QED
  BY <1>3 DEF OnlyNotices

(* Nothing is ever sent in answer to a NOTICE, not even of who is away.    *)
THEOREM NothingAnswersNotices == Spec => NoticesAreSilent
<1>1. ChatInv => \A u \in Conns, targets \in TargetLists :
                   doMessage("NOTICE", u, targets) => OnlyNotices(u)
  BY NoticeAdds, ChatAssumption
<1> QED
  BY <1>1, ChatInvariant, PTL DEF NoticesAreSilent
-----------------------------------------------------------------------------
(* How often a target of a message brings w the message, and its sender    *)
(* that there is nobody                                                    *)
LEMMA OutcomeOccurrences ==
  ASSUME ChatInv, NEW u \in Conns, NEW n \in Names, NEW w \in Conns
  PROVE  /\ Occurrences(ToldOf("PRIVMSG", u), Outcome("PRIVMSG", u, n, w))
               = IF findUser(n) = w THEN 1 ELSE 0
         /\ \A x : Occurrences(ToldOf("NOSUCHNICK", x), Outcome("PRIVMSG", u, n, u))
                     = IF findUser(n) = NoConn /\ n = x THEN 1 ELSE 0
         /\ Occurrences(Told("TOOMANYTARGETS"), Outcome("PRIVMSG", u, n, u)) = 0
<1> DEFINE v == findUser(n)
           full == Told("TOOMANYTARGETS")
           privmsg == ToldOf("PRIVMSG", u)
           noNick(x) == ToldOf("NOSUCHNICK", x)
           away == ToldOf("AWAY", v)
<1>0. /\ \A x : privmsg # noNick(x) /\ away # noNick(x) /\ (noNick(n) = noNick(x) <=> n = x)
      /\ privmsg # away
      /\ full # privmsg /\ full # away /\ \A x : full # noNick(x)
  <2>1. privmsg.numeric = "PRIVMSG" /\ away.numeric = "AWAY"
    BY DEF ToldOf
  <2>2. \A x : noNick(x).numeric = "NOSUCHNICK" /\ noNick(x).of = x
    BY DEF ToldOf
  <2>3. full.numeric = "TOOMANYTARGETS"
    BY DEF Told
  <2> HIDE DEF privmsg, noNick, away, full
  <2> QED
    BY <2>1, <2>2, <2>3
<1>1. CASE v = NoConn
  <2>1. \A x \in Conns : Outcome("PRIVMSG", u, n, x) = IF x = u THEN <<noNick(n)>> ELSE <<>>
    BY <1>1 DEF Outcome
  <2>2. v # w
    BY <1>1, BaseAssumption
  <2>3. Occurrences(privmsg, Outcome("PRIVMSG", u, n, w)) = 0
    <3> HIDE DEF privmsg, noNick, v
    <3> QED
      BY <1>0, <2>1, OccurrencesInOne, SMTT(20)
  <2>4. ASSUME NEW x
        PROVE  Occurrences(noNick(x), Outcome("PRIVMSG", u, n, u)) = IF n = x THEN 1 ELSE 0
    <3> HIDE DEF privmsg, noNick, v
    <3>1. Outcome("PRIVMSG", u, n, u) = <<noNick(n)>>
      BY <2>1
    <3> QED
      BY <1>0, <3>1, OccurrencesInOne
  <2>5. Occurrences(full, Outcome("PRIVMSG", u, n, u)) = 0
    <3> HIDE DEF privmsg, noNick, v, full
    <3>1. Outcome("PRIVMSG", u, n, u) = <<noNick(n)>>
      BY <2>1
    <3> QED
      BY <1>0, <3>1, OccurrencesInOne
  <2> QED
    BY <1>1, <2>2, <2>3, <2>4, <2>5
<1>2. CASE v # NoConn
  <2> DEFINE first(x) == IF x = v THEN <<privmsg>> ELSE <<>>
             second(x) == IF x = u /\ isAway(v) THEN <<away>> ELSE <<>>
  <2>1. v \in Conns /\ privmsg \in Quiet /\ away \in Quiet
    BY <1>2, FoundAreUsers, QuietReplies
  <2>2. \A x \in Conns : /\ first(x) \in Seq(Quiet) /\ second(x) \in Seq(Quiet)
                         /\ Outcome("PRIVMSG", u, n, x) = first(x) \o second(x)
    <3>1. \A x \in Conns : Outcome("PRIVMSG", u, n, x) = first(x) \o second(x)
      BY <1>2 DEF Outcome, Accepted, doEventReceivePrivateMessage
    <3> HIDE DEF privmsg, away
    <3>2. \A x \in Conns : first(x) \in Seq(Quiet) /\ second(x) \in Seq(Quiet)
      BY <2>1
    <3> QED
      BY <3>1, <3>2
  <2>3. ASSUME NEW m, NEW x \in Conns
        PROVE  Occurrences(m, Outcome("PRIVMSG", u, n, x))
                 = Occurrences(m, first(x)) + Occurrences(m, second(x))
    BY <2>2, OccurrencesOfConcat, ZenonT(40)
  <2>4. /\ Occurrences(privmsg, first(w)) = IF v = w THEN 1 ELSE 0
        /\ Occurrences(privmsg, second(w)) = 0
    <3> HIDE DEF privmsg, away, v
    <3> QED
      BY <1>0, OccurrencesInOne
  <2>5. ASSUME NEW x
        PROVE  Occurrences(noNick(x), first(u)) = 0 /\ Occurrences(noNick(x), second(u)) = 0
    <3> HIDE DEF privmsg, away, v, noNick
    <3> QED
      BY <1>0, OccurrencesInOne
  <2>8. Occurrences(full, first(u)) = 0 /\ Occurrences(full, second(u)) = 0
    <3> HIDE DEF privmsg, away, v, full
    <3> QED
      BY <1>0, OccurrencesInOne
  <2> HIDE DEF first, second, privmsg, noNick, full
  <2>6. Occurrences(privmsg, Outcome("PRIVMSG", u, n, w)) = IF v = w THEN 1 ELSE 0
    BY <2>3, <2>4
  <2>7. \A x : Occurrences(noNick(x), Outcome("PRIVMSG", u, n, u)) = 0
    BY <2>3, <2>5
  <2>9. Occurrences(full, Outcome("PRIVMSG", u, n, u)) = 0
    BY <2>3, <2>8
  <2> QED
    BY <1>2, <2>6, <2>7, <2>9 DEF privmsg, noNick, full
<1> QED
  BY <1>1, <1>2

(* The places in front of that of the limit, and what ends w's part        *)
Within(P) == {i \in P : i < MaxTargets}
Ending(u, targets, w) == IF w = u THEN TooMany(targets) ELSE <<>>

(* A PRIVMSG brings what those of its targets bring that are served, and   *)
(* what may end the list.                                                  *)
LEMMA OncePerTarget ==
  ASSUME ChatInv, NEW u \in Conns, NEW targets \in Seq(Names), NEW w \in Conns,
         doMessage("PRIVMSG", u, targets), ~undefined',
         NEW m, NEW P, P \subseteq DOMAIN targets,
         \A i \in DOMAIN targets :
           Occurrences(m, Outcome("PRIVMSG", u, targets[i], w)) = IF i \in P THEN 1 ELSE 0
  PROVE  Times(m, w) = Cardinality(Within(P)) + Occurrences(m, Ending(u, targets, w))
<1> DEFINE served == Served(targets)
           k == Len(served)
           ss(x) == [i \in DOMAIN served |-> Outcome("PRIVMSG", u, served[i], x)]
           last(x) == IF x = u THEN TooMany(targets) ELSE <<>>
<1>1. /\ k \in Nat /\ DOMAIN served = 1..k /\ Len(targets) \in Nat
      /\ DOMAIN targets = 1..Len(targets) /\ k <= Len(targets)
      /\ \A i \in 1..k : served[i] = targets[i] /\ served[i] \in Names
  BY ServedAreFirst
<1>2. ASSUME NEW x \in Conns
      PROVE  /\ ss(x) \in Seq(Seq(Quiet)) /\ Len(ss(x)) = k
             /\ FlattenSeq(ss(x)) \in Seq(Quiet) /\ last(x) \in Seq(Quiet)
             /\ \A y : Times(y, x) = Occurrences(y, FlattenSeq(ss(x))) + Occurrences(y, last(x))
  <2>1. \A i \in 1..k : Outcome("PRIVMSG", u, served[i], x) \in Seq(Quiet)
    BY <1>1, OutcomeIsQuiet
  <2>2. ss(x) \in [1..k -> Seq(Quiet)]
    BY <1>1, <2>1
  <2>3. ss(x) \in Seq(Seq(Quiet)) /\ Len(ss(x)) = k
    BY <1>1, <2>2
  <2>4. last(x) \in Seq(Quiet)
    BY TooManyIsQuiet
  <2>5. Added(x) = FlattenSeq(ss(x)) \o last(x)
    <3>1. Added(x) = Adding("PRIVMSG", u, targets, x)
      BY MessageAdds
    <3> QED
      BY <3>1 DEF Adding
  <2> HIDE DEF ss, last
  <2>6. FlattenSeq(ss(x)) \in Seq(Quiet)
    BY <2>3, FlattenOver
  <2>7. \A y : Times(y, x) = Occurrences(y, Added(x))
    BY DEF Times, Occurrences, Positions
  <2> QED
    BY <2>3, <2>4, <2>5, <2>6, <2>7, OccurrencesOfConcat
<1> DEFINE Q == P \cap (1..k)
<1>3. Occurrences(m, FlattenSeq(ss(w))) = Cardinality(Q)
  <2>1. ASSUME NEW i \in 1..k
        PROVE  Occurrences(m, ss(w)[i]) = IF i \in Q THEN 1 ELSE 0
    <3>1. i \in DOMAIN targets /\ ss(w)[i] = Outcome("PRIVMSG", u, targets[i], w)
      BY <1>1
    <3> QED
      BY <3>1
  <2>2. Q \subseteq 1..k
    OBVIOUS
  <2>3. ss(w) \in Seq(Seq(Quiet)) /\ k = Len(ss(w))
    BY <1>2
  <2>4. OnceAt(m, ss(w), Q)
    <3> HIDE DEF ss, Q, k
    <3> QED
      BY <2>1, <2>2, <2>3 DEF OnceAt
  <2> HIDE DEF ss, Q
  <2> QED
    BY <2>3, <2>4, OccurrencesOfFlatten
<1>4. Times(m, w) = Cardinality(Q) + Occurrences(m, last(w))
  <2> HIDE DEF Q, ss, last
  <2> QED
    BY <1>2, <1>3
<1>5. Q = {i \in P : i < MaxTargets}
  <2>1. MaxTargets \in Nat \ {0}
    BY ChatAssumption
  <2>2. CASE Len(targets) < MaxTargets
    <3>1. k = Len(targets)
      BY <2>2 DEF Served
    <3> QED
      BY <1>1, <2>1, <2>2, <3>1
  <2>3. CASE ~(Len(targets) < MaxTargets)
    <3>1. k = MaxTargets - 1
      <4>1. Served(targets) = SubSeq(targets, 1, MaxTargets - 1)
        BY <2>3 DEF Served
      <4>2. MaxTargets - 1 \in Nat /\ MaxTargets - 1 <= Len(targets)
        BY <1>1, <2>1, <2>3
      <4> QED
        BY <4>1, <4>2, SubSeqProperties
    <3> QED
      BY <1>1, <2>1, <2>3, <3>1
  <2> QED
    BY <2>2, <2>3
<1> QED
  BY <1>4, <1>5 DEF Within, Ending

LEMMA PrivmsgServes ==
  ASSUME ChatInv, NEW u \in Conns, NEW targets \in Seq(Names),
         doMessage("PRIVMSG", u, targets), ~undefined'
  PROVE  ServedOnce(u, targets)
<1> DEFINE full == Told("TOOMANYTARGETS")
           last(w) == Ending(u, targets, w)
<1>1. /\ \A i \in DOMAIN targets : targets[i] \in Names
      /\ TooMany(targets) \in {<<>>, <<full>>}
  BY DEF TooMany
<1>2. \A numeric \in {"PRIVMSG", "NOSUCHNICK"} :
        \A x, w : Occurrences(ToldOf(numeric, x), last(w)) = 0
  <2>1. full.numeric = "TOOMANYTARGETS"
    BY DEF Told
  <2>2. \A numeric, x : ToldOf(numeric, x).numeric = numeric
    BY DEF ToldOf
  <2>3. \A numeric \in {"PRIVMSG", "NOSUCHNICK"} : \A x : ToldOf(numeric, x) # full
    BY <2>1, <2>2
  <2> HIDE DEF full
  <2> QED
    BY <1>1, <2>3, OccurrencesInOne DEF Ending
<1>3. ASSUME NEW P, IsFiniteSet(P)
      PROVE  Cardinality(Within(P)) \in Nat
  <2>1. IsFiniteSet(Within(P))
    BY <1>3, FS_Subset DEF Within
  <2> QED
    BY <2>1, FS_CardinalityType
<1>4. ASSUME NEW P, P \subseteq DOMAIN targets
      PROVE  IsFiniteSet(P)
  <2>1. DOMAIN targets = 1..Len(targets) /\ Len(targets) \in Nat
    OBVIOUS
  <2>2. IsFiniteSet(1..Len(targets))
    BY <2>1, FS_Interval
  <2> QED
    BY <1>4, <2>1, <2>2, FS_Subset
<1>5. ASSUME NEW v \in Conns
      PROVE  Times(ToldOf("PRIVMSG", u), v)
               = Cardinality(Within(Naming(targets, v)))
  <2> DEFINE P == Naming(targets, v)
             m == ToldOf("PRIVMSG", u)
  <2>1. P \subseteq DOMAIN targets
    BY DEF Naming
  <2>2. \A i \in DOMAIN targets :
          Occurrences(m, Outcome("PRIVMSG", u, targets[i], v)) = IF i \in P THEN 1 ELSE 0
    BY <1>1, OutcomeOccurrences DEF Naming
  <2>3. Occurrences(m, last(v)) = 0
    BY <1>2
  <2> HIDE DEF m, P
  <2>4. Times(m, v) = Cardinality(Within(P)) + Occurrences(m, last(v))
    BY <2>1, <2>2, OncePerTarget
  <2> QED
    BY <1>3, <1>4, <2>1, <2>3, <2>4 DEF m, P
<1>6. ASSUME NEW n \in Names
      PROVE  Times(ToldOf("NOSUCHNICK", n), u)
               = Cardinality(Within({i \in Naming(targets, NoConn) : targets[i] = n}))
  <2> DEFINE P == {i \in Naming(targets, NoConn) : targets[i] = n}
             m == ToldOf("NOSUCHNICK", n)
  <2>1. P \subseteq DOMAIN targets
    BY DEF Naming
  <2>2. \A i \in DOMAIN targets :
          Occurrences(m, Outcome("PRIVMSG", u, targets[i], u)) = IF i \in P THEN 1 ELSE 0
    BY <1>1, OutcomeOccurrences DEF Naming
  <2>3. Occurrences(m, last(u)) = 0
    BY <1>2
  <2> HIDE DEF m, P
  <2>4. Times(m, u) = Cardinality(Within(P)) + Occurrences(m, last(u))
    BY <2>1, <2>2, OncePerTarget
  <2> QED
    BY <1>3, <1>4, <2>1, <2>3, <2>4 DEF m, P
<1>7. Times(full, u) = IF Len(targets) < MaxTargets THEN 0 ELSE 1
  <2> DEFINE P == {}
  <2>1. P \subseteq DOMAIN targets /\ \A i \in DOMAIN targets :
          Occurrences(full, Outcome("PRIVMSG", u, targets[i], u)) = IF i \in P THEN 1 ELSE 0
    BY <1>1, OutcomeOccurrences
  <2>2. Occurrences(full, TooMany(targets)) = IF Len(targets) < MaxTargets THEN 0 ELSE 1
    <3> HIDE DEF full
    <3>1. TooMany(targets) = IF Len(targets) < MaxTargets THEN <<>> ELSE <<full>>
      BY DEF TooMany, full
    <3> QED
      BY <3>1, OccurrencesInOne
  <2>3. Within(P) = {} /\ Cardinality({}) = 0
    BY FS_EmptySet DEF Within
  <2> HIDE DEF full, P
  <2>4. Times(full, u) = Cardinality(Within(P)) + Occurrences(full, last(u))
    BY <2>1, OncePerTarget
  <2> QED
    BY <2>2, <2>3, <2>4 DEF Ending
<1> QED
  BY <1>5, <1>6, <1>7 DEF ServedOnce, Within

(* Whatever the list of targets, every target of a PRIVMSG in front of the *)
(* limit comes to something once, and none behind it.                      *)
THEOREM EveryTargetIsServed == Spec => TargetsAreServed
<1>1. ChatInv => \A u \in Conns, targets \in TargetLists :
                   doMessage("PRIVMSG", u, targets) /\ ~undefined' => ServedOnce(u, targets)
  BY PrivmsgServes, ChatAssumption
<1> QED
  BY <1>1, ChatInvariant, PTL DEF TargetsAreServed
=============================================================================
