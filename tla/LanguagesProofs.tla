-------------------------- MODULE LanguagesProofs ---------------------------
(***************************************************************************)
(* Theorems about the languages, for any tags, texts, codes and files.     *)
(***************************************************************************)
EXTENDS Texts, Loops

Vectors == Seq(Texts \cup {NoText})
Data == [languageCode : Codes, tagData : Vectors, tagCount : Nat]

(* Every variable has its type, with the languages as records.             *)
DataOK ==
  /\ phase \in Phases
  /\ tagMap \in [Tags -> Nat]
  /\ languageData \in Data
  /\ Languages \subseteq Codes
  /\ languageDataMap \in [Languages -> Data]
  /\ defaultLanguage \in Languages \cup {NoCode}
  /\ files \in 0..MaxFiles

(* Numbers are given once and without gaps.                                *)
NumbersAreDense ==
  /\ tagDictionary \in [Tags -> Nat]
  /\ highestTagID \in Nat
  /\ {getTagID(t) : t \in Tags} \ {unknownTagID} = 1..highestTagID
  /\ \A s, t \in Tags : getTagID(s) = getTagID(t) /\ s # t => getTagID(s) = unknownTagID

(* No vector reaches beyond the numbers: neither those of the languages nor*)
(* that of the file being read, which becomes one of them at its end.      *)
VectorsFit ==
  /\ Len(languageData.tagData) <= highestTagID
  /\ \A c \in Languages : Len(languageDataMap[c].tagData) <= highestTagID

LanguagesInv == DataOK /\ NumbersAreDense /\ VectorsFit

LEMMA LanguagesInvInit == Init => LanguagesInv
<1> SUFFICES ASSUME Init PROVE LanguagesInv
  OBVIOUS
<1>1. NewLanguageData \in Data /\ Len(NewLanguageData.tagData) = 0
  BY LanguagesAssumption DEF NewLanguageData, Data, Vectors
<1>2. Languages = {}
  BY DEF Init, Languages
<1>3. DataOK
  BY <1>1, <1>2, LanguagesAssumption DEF Init, DataOK, Phases, Languages, unknownTagID
<1>4. NumbersAreDense
  BY DEF Init, NumbersAreDense, getTagID, unknownTagID
<1>5. VectorsFit
  BY <1>1, <1>2 DEF Init, VectorsFit
<1> QED
  BY <1>3, <1>4, <1>5 DEF LanguagesInv

(* Widening a vector gives a vector.                                       *)
LEMMA ResizedVector ==
  ASSUME NEW v \in Vectors, NEW n \in Nat, Len(v) <= n
  PROVE  Resized(v, n) \in Vectors /\ Len(Resized(v, n)) = n
  BY DEF Resized, Vectors

(* What is merged is the data of a language again, and its vector reaches  *)
(* as far as the longer of the two.                                        *)
LEMMA MergedData ==
  ASSUME NEW old \in Data, NEW new \in Data
  PROVE  /\ mergeWith(old, new) \in Data
         /\ Len(mergeWith(old, new).tagData) = Larger(Len(old.tagData), Len(new.tagData))
<1> DEFINE n == Larger(Len(old.tagData), Len(new.tagData))
           v == Resized(old.tagData, n)
           w == [i \in DOMAIN v |-> IF i \in HasText(new.tagData) THEN new.tagData[i] ELSE v[i]]
<1>1. old.tagData \in Vectors /\ new.tagData \in Vectors
  BY DEF Data
<1>2. n \in Nat /\ Len(old.tagData) <= n /\ Len(new.tagData) <= n
  BY <1>1 DEF Larger, Vectors
<1>3. v \in Vectors /\ Len(v) = n
  BY <1>1, <1>2, ResizedVector
<1>4. HasText(new.tagData) \subseteq 1..Len(new.tagData)
  BY <1>1 DEF HasText, Vectors
<1>5. w \in Vectors /\ Len(w) = n
  <2>1. DOMAIN v = 1..n
    BY <1>2, <1>3 DEF Vectors
  <2>2. \A i \in 1..n : w[i] \in Texts \cup {NoText}
    BY <1>1, <1>3, <1>4, <2>1 DEF Vectors
  <2> HIDE DEF n, v
  <2> QED
    BY <1>2, <2>1, <2>2 DEF Vectors
<1>6. Cardinality(HasText(new.tagData)) \in Nat
  <2>1. Len(new.tagData) \in Nat
    BY <1>1 DEF Vectors
  <2>2. IsFiniteSet(1..Len(new.tagData))
    BY <2>1, FS_Interval
  <2> QED
    BY <1>4, <2>2, FS_Subset, FS_CardinalityType
<1>7. mergeWith(old, new) =
        [old EXCEPT !.tagData = w, !.tagCount = @ + Cardinality(HasText(new.tagData))]
  BY DEF mergeWith
<1>8. Len(old.tagData) \in Nat /\ old.tagCount \in Nat
  BY <1>1 DEF Data, Vectors
<1> DEFINE count == old.tagCount + Cardinality(HasText(new.tagData))
<1>9. count \in Nat
  BY <1>6, <1>8
<1>10. mergeWith(old, new) = [old EXCEPT !.tagData = w, !.tagCount = count]
  BY <1>7
<1>11. w \in Vectors /\ Len(w) = Larger(Len(old.tagData), Len(new.tagData))
  BY <1>5
<1> HIDE DEF w, n, v, count
<1>12. mergeWith(old, new) \in Data
  BY <1>9, <1>10, <1>11 DEF Data
<1>13. mergeWith(old, new).tagData = w
  BY <1>10 DEF Data
<1> QED
  BY <1>11, <1>12, <1>13

(* A line with a tag: its number is an old one or the next, and the vector *)
(* of the file is widened for it.                                          *)
LEMMA ReadTagInv ==
  ASSUME LanguagesInv, NEW t \in Tags, NEW x \in Texts, readTag(t, x)
  PROVE  LanguagesInv'
<1> DEFINE id == IF getTagID(t) # unknownTagID THEN getTagID(t) ELSE highestTagID + 1
           v == Resized(languageData.tagData, Larger(Len(languageData.tagData), id))
<1>1. /\ highestTagID \in Nat /\ tagDictionary \in [Tags -> Nat]
      /\ languageData \in Data /\ languageData.tagData \in Vectors
      /\ Len(languageData.tagData) \in Nat
  BY DEF LanguagesInv, NumbersAreDense, DataOK, Data, Vectors
<1>2. /\ tagDictionary' = [tagDictionary EXCEPT ![t] = id]
      /\ highestTagID' = Larger(highestTagID, id)
      /\ languageData' = [languageData EXCEPT !.tagData = [v EXCEPT ![id] = x], !.tagCount = @ + 1]
      /\ UNCHANGED <<phase, languageDataMap, defaultLanguage, files, tagMap>>
  BY DEF readTag
<1>3. NumbersAreDense' /\ id \in 1..highestTagID' /\ highestTagID <= highestTagID'
  <2>1. CASE getTagID(t) # unknownTagID
    <3>1. id \in 1..highestTagID
      BY <2>1 DEF LanguagesInv, NumbersAreDense
    <3>2. tagDictionary' = tagDictionary
      BY <1>1, <1>2, <2>1 DEF getTagID
    <3>3. highestTagID' = highestTagID
      BY <1>1, <1>2, <3>1 DEF Larger
    <3> QED
      BY <1>1, <3>1, <3>2, <3>3 DEF LanguagesInv, NumbersAreDense, getTagID
  <2>2. CASE getTagID(t) = unknownTagID
    <3>1. id = highestTagID + 1 /\ highestTagID' = highestTagID + 1
      BY <1>1, <1>2, <2>2 DEF Larger
    <3>2. \A s \in Tags : getTagID(s)' = IF s = t THEN highestTagID + 1 ELSE getTagID(s)
      BY <1>1, <1>2, <3>1 DEF getTagID
    <3>3. \A s \in Tags : getTagID(s) \in 0..highestTagID
      BY <1>1 DEF LanguagesInv, NumbersAreDense, unknownTagID, getTagID
    <3>4. {getTagID(s) : s \in Tags}' \ {unknownTagID} = 1..(highestTagID + 1)
      <4>1. ASSUME NEW i \in 1..highestTagID
            PROVE  \E s \in Tags : s # t /\ getTagID(s) = i
        BY <2>2 DEF LanguagesInv, NumbersAreDense, unknownTagID
      <4>2. ASSUME NEW i \in 1..(highestTagID + 1)
            PROVE  \E s \in Tags : getTagID(s)' = i
        BY <1>1, <3>2, <4>1
      <4>3. \A s \in Tags : getTagID(s)' \in 0..(highestTagID + 1)
        BY <1>1, <3>2, <3>3
      <4>4. \A i : i \in {getTagID(s) : s \in Tags}' <=> \E s \in Tags : getTagID(s)' = i
        OBVIOUS
      <4>5. ASSUME NEW i \in {getTagID(s) : s \in Tags}' \ {unknownTagID}
            PROVE  i \in 1..(highestTagID + 1)
        BY <1>1, <4>3, <4>4 DEF unknownTagID
      <4>6. ASSUME NEW i \in 1..(highestTagID + 1)
            PROVE  i \in {getTagID(s) : s \in Tags}' \ {unknownTagID}
        BY <4>2, <4>4, <4>6 DEF unknownTagID
      <4> QED
        BY <4>5, <4>6
    <3>5. \A r, s \in Tags :
            getTagID(r)' = getTagID(s)' /\ r # s => getTagID(r)' = unknownTagID
      BY <1>1, <3>2, <3>3 DEF LanguagesInv, NumbersAreDense
    <3>6. tagDictionary' \in [Tags -> Nat] /\ highestTagID' \in Nat
      BY <1>1, <1>2, <3>1
    <3> QED
      BY <1>1, <3>1, <3>4, <3>5, <3>6 DEF NumbersAreDense, unknownTagID
  <2> QED
    BY <2>1, <2>2
<1>4. id \in Nat /\ highestTagID' \in Nat
  BY <1>3 DEF NumbersAreDense
<1> HIDE DEF id
<1>5. /\ Larger(Len(languageData.tagData), id) \in Nat
      /\ Len(languageData.tagData) <= Larger(Len(languageData.tagData), id)
      /\ Larger(Len(languageData.tagData), id) <= highestTagID'
  BY <1>1, <1>3, <1>4 DEF Larger, LanguagesInv, VectorsFit
<1>6. v \in Vectors /\ Len(v) <= highestTagID'
  BY <1>1, <1>5, ResizedVector
<1> HIDE DEF v
<1>7. [v EXCEPT ![id] = x] \in Vectors /\ Len([v EXCEPT ![id] = x]) = Len(v)
  <2> DEFINE u == [i \in 1..Len(v) |-> IF i = id THEN x ELSE v[i]]
  <2>1. DOMAIN v = 1..Len(v) /\ Len(v) \in Nat /\ \A i \in 1..Len(v) : v[i] \in Texts \cup {NoText}
    BY <1>6 DEF Vectors
  <2>2. [v EXCEPT ![id] = x] = u
    BY <2>1
  <2>3. \A i \in 1..Len(v) : u[i] \in Texts \cup {NoText}
    BY <2>1
  <2>4. DOMAIN u = 1..Len(v)
    OBVIOUS
  <2>5. u \in [1..Len(v) -> Texts \cup {NoText}]
    BY <2>3
  <2> HIDE DEF u
  <2>6. u \in Vectors /\ Len(u) = Len(v)
    BY <2>1, <2>4, <2>5 DEF Vectors
  <2> QED
    BY <2>2, <2>6
<1> DEFINE w == [v EXCEPT ![id] = x]
           count == languageData.tagCount + 1
<1>8. /\ languageData' = [languageData EXCEPT !.tagData = w, !.tagCount = count]
      /\ count \in Nat
  BY <1>1, <1>2 DEF Data
<1>9. w \in Vectors /\ Len(w) <= highestTagID'
  BY <1>6, <1>7
<1> HIDE DEF w, count
<1>10. languageData' \in Data /\ languageData'.tagData = w
  BY <1>1, <1>8, <1>9 DEF Data
<1>11. DataOK'
  BY <1>2, <1>10 DEF LanguagesInv, DataOK, Languages
<1>12. VectorsFit'
  <2>1. \A c \in Languages : languageDataMap[c].tagData \in Vectors
    BY DEF LanguagesInv, DataOK, Data
  <2>2. \A c \in Languages : Len(languageDataMap[c].tagData) \in Nat
    BY <2>1 DEF Vectors
  <2>3. \A c \in Languages : Len(languageDataMap[c].tagData) <= highestTagID'
    BY <1>1, <1>3, <1>4, <2>2 DEF LanguagesInv, VectorsFit
  <2> QED
    BY <1>2, <1>9, <1>10, <2>3 DEF VectorsFit, Languages
<1> QED
  BY <1>3, <1>11, <1>12 DEF LanguagesInv

(* The end of a file: what has been read takes its place among the         *)
(* languages, or is merged with one of them.                               *)
LEMMA EndOfFileInv ==
  ASSUME LanguagesInv, endOfFile
  PROVE  LanguagesInv'
<1> DEFINE found == findByCode(languageData.languageCode)
           code == IF found = NoCode THEN languageData.languageCode ELSE found
<1>1. languageData \in Data /\ languageData.languageCode \in Codes
  BY DEF LanguagesInv, DataOK, Data
<1>2. found \in Languages \cup {NoCode} /\ code \in Codes
  BY <1>1 DEF findByCode, LanguagesInv, DataOK
<1>3. /\ phase' = "configuring"
      /\ languageDataMap' = [c \in Languages \cup {code} |->
             IF c # code THEN languageDataMap[c]
             ELSE IF found = NoCode THEN languageData
             ELSE mergeWith(languageDataMap[c], languageData)]
      /\ defaultLanguage' = IF defaultLanguage = NoCode THEN code ELSE defaultLanguage
      /\ languageData' = NewLanguageData
      /\ UNCHANGED <<tagDictionary, highestTagID, files, tagMap>>
  BY DEF endOfFile
<1>4. highestTagID \in Nat /\ Languages' = Languages \cup {code}
  BY <1>3 DEF Languages, LanguagesInv, NumbersAreDense
<1>5. NewLanguageData \in Data /\ Len(NewLanguageData.tagData) = 0
  BY LanguagesAssumption DEF NewLanguageData, Data, Vectors
<1> HIDE DEF found, code
<1>6. ASSUME NEW c \in Languages'
      PROVE  languageDataMap'[c] \in Data /\ Len(languageDataMap'[c].tagData) <= highestTagID
  <2>1. CASE c # code
    BY <1>3, <1>4, <2>1 DEF LanguagesInv, DataOK, VectorsFit
  <2>2. CASE c = code /\ found = NoCode
    BY <1>1, <1>3, <1>4, <2>2 DEF LanguagesInv, VectorsFit
  <2>3. CASE c = code /\ found # NoCode
    <3>1. c \in Languages
      BY <1>2, <2>3 DEF code
    <3>2. languageDataMap[c] \in Data /\ Len(languageDataMap[c].tagData) <= highestTagID
      BY <3>1 DEF LanguagesInv, DataOK, VectorsFit
    <3>3. languageDataMap'[c] = mergeWith(languageDataMap[c], languageData)
      BY <1>3, <1>4, <2>3
    <3>4. /\ mergeWith(languageDataMap[c], languageData) \in Data
          /\ Len(mergeWith(languageDataMap[c], languageData).tagData) =
               Larger(Len(languageDataMap[c].tagData), Len(languageData.tagData))
      BY <1>1, <3>2, MergedData
    <3> QED
      BY <3>2, <3>3, <3>4 DEF Larger, LanguagesInv, VectorsFit
  <2> QED
    BY <2>1, <2>2, <2>3
<1>7. languageDataMap' \in [Languages' -> Data]
  BY <1>3, <1>4, <1>6
<1>8. DataOK'
  BY <1>2, <1>3, <1>4, <1>5, <1>7 DEF LanguagesInv, DataOK, Phases
<1>9. VectorsFit'
  <2>1. Len(languageData'.tagData) <= highestTagID' /\ highestTagID' = highestTagID
    BY <1>3, <1>4, <1>5
  <2>2. \A c \in Languages' : Len(languageDataMap'[c].tagData) <= highestTagID'
    BY <1>6, <2>1
  <2> QED
    BY <2>1, <2>2 DEF VectorsFit
<1>10. NumbersAreDense'
  BY <1>3 DEF LanguagesInv, NumbersAreDense, getTagID
<1> QED
  BY <1>8, <1>9, <1>10 DEF LanguagesInv

(* No step breaks the invariant; all others leave the texts alone.         *)
LEMMA LanguagesInvNext == LanguagesInv /\ [Next]_vars => LanguagesInv'
<1> SUFFICES ASSUME LanguagesInv, [Next]_vars PROVE LanguagesInv'
  OBVIOUS
<1> USE DEF LanguagesInv
<1>1. CASE openFile
  BY <1>1, LanguagesAssumption
     DEF openFile, DataOK, NumbersAreDense, VectorsFit, Languages, getTagID, Phases
<1>2. CASE refuseLine
  <2>1. NewLanguageData \in Data /\ Len(NewLanguageData.tagData) = 0
    BY LanguagesAssumption DEF NewLanguageData, Data, Vectors
  <2> QED
    BY <1>2, <2>1 DEF refuseLine, DataOK, NumbersAreDense, VectorsFit, Languages, getTagID, Phases
<1>3. CASE convertForever
  BY <1>3 DEF convertForever, DataOK, NumbersAreDense, VectorsFit, Languages, getTagID, Phases
<1>4. CASE endOfFile
  BY <1>4, EndOfFileInv
<1>5. CASE registerMap
  BY <1>5 DEF registerMap, processTagMap, DataOK, NumbersAreDense, VectorsFit, Languages, getTagID, Phases
<1>6. ASSUME NEW c \in Codes, readCode(c)
      PROVE  LanguagesInv'
  <2>1. languageData' \in Data /\ languageData'.tagData = languageData.tagData
    BY <1>6 DEF readCode, DataOK, Data
  <2> QED
    BY <1>6, <2>1 DEF readCode, DataOK, NumbersAreDense, VectorsFit, Languages, getTagID
<1>7. ASSUME NEW t \in Tags, NEW x \in Texts, readTag(t, x)
      PROVE  LanguagesInv'
  BY <1>7, ReadTagInv
<1>8. CASE UNCHANGED vars
  BY <1>8 DEF vars, DataOK, NumbersAreDense, VectorsFit, Languages, getTagID
<1> QED
  BY <1>1, <1>2, <1>3, <1>4, <1>5, <1>6, <1>7, <1>8 DEF Next

LEMMA LanguagesInvariant == Spec => []LanguagesInv
  BY LanguagesInvInit, LanguagesInvNext, PTL DEF Spec

(* The variables have their types: the default language in particular is   *)
(* one of the languages and never what a merged file was read into.        *)
THEOREM LanguagesAreTyped == Spec => []LanguagesTypeOK
<1>1. LanguagesInv => LanguagesTypeOK
  BY DEF LanguagesInv, DataOK, NumbersAreDense, LanguagesTypeOK, LanguageDataOK, Data, Vectors
<1> QED
  BY <1>1, LanguagesInvariant, PTL

(* However files number, merge and refuse, tags have the numbers from 1 to *)
(* highestTagID, each its own, and no language has a text without a tag.   *)
THEOREM NumbersTagsOnce == Spec => []DictionaryIsDense
<1>1. LanguagesInv => DictionaryIsDense
  BY DEF LanguagesInv, NumbersAreDense, VectorsFit, DictionaryIsDense
<1> QED
  BY <1>1, LanguagesInvariant, PTL
-----------------------------------------------------------------------------
(* Between two files nothing is left of the last one.                      *)
NothingIsHalfRead == phase = "configuring" => languageData = NewLanguageData

LEMMA NothingIsHalfReadNext ==
  /\ Init => NothingIsHalfRead
  /\ NothingIsHalfRead /\ [Next]_vars => NothingIsHalfRead'
  BY DEF Init, Next, vars, NothingIsHalfRead, openFile, readCode, readTag, refuseLine,
         convertForever, endOfFile, registerMap

(* What a vector holds under a number                                      *)
At(v, i) == IF i \in DOMAIN v THEN v[i] ELSE NoText

LEMMA TextAtIsAt == \A v, t : TextAt(v, t) = At(v, getTagID(t))
  BY DEF TextAt, At

(* A merged vector holds the new text where there is one.                  *)
LEMMA MergedTexts ==
  ASSUME NEW old \in Data, NEW new \in Data, NEW i
  PROVE  At(mergeWith(old, new).tagData, i) =
           IF At(new.tagData, i) # NoText THEN At(new.tagData, i) ELSE At(old.tagData, i)
<1> DEFINE n == Larger(Len(old.tagData), Len(new.tagData))
           v == Resized(old.tagData, n)
           w == [j \in DOMAIN v |-> IF j \in HasText(new.tagData) THEN new.tagData[j] ELSE v[j]]
<1>1. /\ Len(old.tagData) \in Nat /\ DOMAIN old.tagData = 1..Len(old.tagData)
      /\ Len(new.tagData) \in Nat /\ DOMAIN new.tagData = 1..Len(new.tagData)
  BY DEF Data, Vectors
<1>2. n \in Nat /\ Len(old.tagData) <= n /\ Len(new.tagData) <= n
  BY <1>1 DEF Larger
<1>3. mergeWith(old, new).tagData = w
  BY DEF mergeWith, Data
<1> HIDE DEF n
<1>4. /\ DOMAIN v = 1..n /\ DOMAIN w = 1..n
      /\ \A j \in 1..n : v[j] = IF j <= Len(old.tagData) THEN old.tagData[j] ELSE NoText
      /\ \A j \in 1..n : w[j] = IF j \in HasText(new.tagData) THEN new.tagData[j] ELSE v[j]
  BY DEF Resized
<1> HIDE DEF v, w
<1>5. CASE i \in 1..n
  BY <1>1, <1>2, <1>3, <1>4, <1>5 DEF At, HasText
<1>6. CASE i \notin 1..n
  BY <1>1, <1>2, <1>3, <1>4, <1>6 DEF At
<1> QED
  BY <1>5, <1>6

(* The texts by language and tag, and those of the file being read         *)
TextsByTag == [c \in Codes |-> [t \in Tags |->
  IF c \in Languages THEN TextAt(languageDataMap[c].tagData, t) ELSE NoText]]
LinesByTag == [t \in Tags |-> TextAt(languageData.tagData, t)]

(* A new tag leaves what all vectors say of other tags, and they say       *)
(* nothing of it.                                                          *)
LEMMA GivesText ==
  ASSUME LanguagesInv, NEW t \in Tags, NEW x \in Texts, readTag(t, x)
  PROVE  Catalogued!Give(t, x)
<1> DEFINE id == IF getTagID(t) # unknownTagID THEN getTagID(t) ELSE highestTagID + 1
           v == Resized(languageData.tagData, Larger(Len(languageData.tagData), id))
<1>1. /\ highestTagID \in Nat /\ tagDictionary \in [Tags -> Nat]
      /\ languageData \in Data /\ languageData.tagData \in Vectors
      /\ Len(languageData.tagData) \in Nat
      /\ DOMAIN languageData.tagData = 1..Len(languageData.tagData)
  BY DEF LanguagesInv, NumbersAreDense, DataOK, Data, Vectors
<1>2. /\ tagDictionary' = [tagDictionary EXCEPT ![t] = id]
      /\ languageData' = [languageData EXCEPT !.tagData = [v EXCEPT ![id] = x], !.tagCount = @ + 1]
      /\ phase = "loading"
      /\ UNCHANGED <<phase, languageDataMap, defaultLanguage, files, tagMap>>
  BY DEF readTag
<1>3. /\ \A s \in Tags : getTagID(s)' = IF s = t THEN id ELSE getTagID(s)
      /\ \A s \in Tags : getTagID(s) \in 0..highestTagID
      /\ id \in Nat /\ id # 0
      /\ getTagID(t) # unknownTagID => id = getTagID(t)
      /\ getTagID(t) = unknownTagID => id = highestTagID + 1
  <2>1. \A s \in Tags : getTagID(s) \in 0..highestTagID
    BY <1>1 DEF LanguagesInv, NumbersAreDense, unknownTagID, getTagID
  <2> QED
    BY <1>1, <1>2, <2>1 DEF getTagID, unknownTagID
<1>4. \A s \in Tags : s # t => getTagID(s) # id
  <2> SUFFICES ASSUME NEW s \in Tags, s # t, getTagID(s) = id
               PROVE  FALSE
    OBVIOUS
  <2>1. getTagID(t) # unknownTagID
    BY <1>1, <1>3
  <2> QED
    BY <1>3, <2>1 DEF LanguagesInv, NumbersAreDense, unknownTagID
<1> HIDE DEF id
<1>5. /\ DOMAIN v = 1..Larger(Len(languageData.tagData), id)
      /\ id \in DOMAIN v
      /\ DOMAIN languageData.tagData \subseteq DOMAIN v
      /\ \A i \in DOMAIN v :
           v[i] = IF i \in DOMAIN languageData.tagData THEN languageData.tagData[i] ELSE NoText
  BY <1>1, <1>3 DEF Resized, Larger
<1>6. /\ languageData'.tagData = [v EXCEPT ![id] = x]
      /\ languageData'.languageCode = languageData.languageCode
  BY <1>1, <1>2 DEF Data
<1> HIDE DEF v
<1>7. \A s \in Tags : TextAt(languageData.tagData, s)' =
                        IF s = t THEN x ELSE TextAt(languageData.tagData, s)
  BY <1>3, <1>4, <1>5, <1>6 DEF TextAt
<1>8. LinesByTag' = [LinesByTag EXCEPT ![t] = x]
  BY <1>7 DEF LinesByTag
<1>9. ASSUME NEW c \in Languages, NEW s \in Tags
      PROVE  TextAt(languageDataMap[c].tagData, s)' = TextAt(languageDataMap[c].tagData, s)
  <2>1. languageDataMap[c].tagData \in Vectors /\ Len(languageDataMap[c].tagData) <= highestTagID
    BY DEF LanguagesInv, DataOK, VectorsFit, Data
  <2>2. /\ Len(languageDataMap[c].tagData) \in Nat
        /\ DOMAIN languageDataMap[c].tagData = 1..Len(languageDataMap[c].tagData)
    BY <2>1 DEF Vectors
  <2>3. CASE s # t \/ getTagID(t) # unknownTagID
    BY <1>2, <1>3, <2>3 DEF TextAt
  <2>4. CASE s = t /\ getTagID(t) = unknownTagID
    BY <1>1, <1>2, <1>3, <2>1, <2>2, <2>4 DEF TextAt, unknownTagID
  <2> QED
    BY <2>3, <2>4
<1>10. TextsByTag' = TextsByTag
  BY <1>2, <1>9 DEF TextsByTag, Languages
<1> QED
  BY <1>2, <1>6, <1>8, <1>10 DEF Catalogued!Give, LinesByTag, TextsByTag, Languages

(* The end of a file lays its lines over one language.                     *)
LEMMA Publishes ==
  ASSUME LanguagesInv, endOfFile
  PROVE  Catalogued!Publish
<1> DEFINE found == findByCode(languageData.languageCode)
           code == IF found = NoCode THEN languageData.languageCode ELSE found
<1>1. /\ languageData \in Data /\ languageData.languageCode \in Codes
      /\ Languages \subseteq Codes /\ NoCode \notin Codes
      /\ defaultLanguage \in Languages \cup {NoCode}
  BY LanguagesAssumption DEF LanguagesInv, DataOK, Data
<1>2. found \in Languages \cup {NoCode} /\ code \in Codes
      /\ (found = NoCode => code \notin Languages)
      /\ (found # NoCode => code = found)
  BY <1>1 DEF findByCode
<1>3. code = Catalogued!Target(languageData.languageCode)
  BY <1>1 DEF findByCode, Catalogued!Target
<1>4. /\ phase = "loading" /\ phase' = "configuring"
      /\ languageDataMap' = [c \in Languages \cup {code} |->
             IF c # code THEN languageDataMap[c]
             ELSE IF found = NoCode THEN languageData
             ELSE mergeWith(languageDataMap[c], languageData)]
      /\ defaultLanguage' = IF defaultLanguage = NoCode THEN code ELSE defaultLanguage
      /\ languageData' = NewLanguageData
      /\ UNCHANGED <<tagDictionary, highestTagID, files, tagMap>>
  BY DEF endOfFile
<1> HIDE DEF found, code
<1>5. Languages' = Languages \cup {code}
  BY <1>4 DEF Languages
<1>6. LinesByTag' = Catalogued!Blank
  BY <1>4 DEF LinesByTag, TextAt, NewLanguageData, Catalogued!Blank
<1>7. ASSUME NEW s \in Tags
      PROVE  At(languageDataMap'[code].tagData, getTagID(s)) =
               IF LinesByTag[s] # NoText THEN LinesByTag[s] ELSE TextsByTag[code][s]
  <2>2. LinesByTag[s] = At(languageData.tagData, getTagID(s))
    BY TextAtIsAt DEF LinesByTag
  <2>4. CASE found = NoCode
    <3>1. languageDataMap'[code] = languageData /\ TextsByTag[code][s] = NoText
      BY <1>2, <1>4, <2>4 DEF TextsByTag
    <3> QED
      BY <2>2, <3>1
  <2>5. CASE found # NoCode
    <3>1. /\ languageDataMap'[code] = mergeWith(languageDataMap[code], languageData)
          /\ code \in Languages /\ languageDataMap[code] \in Data
      BY <1>2, <1>4, <2>5 DEF LanguagesInv, DataOK
    <3>2. TextsByTag[code][s] = At(languageDataMap[code].tagData, getTagID(s))
      BY <1>2, <3>1, TextAtIsAt DEF TextsByTag
    <3> QED
      BY <1>1, <2>2, <3>1, <3>2, MergedTexts
  <2> QED
    BY <2>4, <2>5
<1>8. TextsByTag' = [TextsByTag EXCEPT ![code] =
        [t \in Tags |-> IF LinesByTag[t] # NoText THEN LinesByTag[t] ELSE @[t]]]
  <2>0. \A c \in Codes, t \in Tags :
          TextsByTag'[c][t] = IF c \in Languages \cup {code}
                              THEN At(languageDataMap'[c].tagData, getTagID(t)) ELSE NoText
    BY <1>4, <1>5 DEF TextsByTag, TextAt, At, getTagID
  <2>1. ASSUME NEW c \in Codes, c # code
        PROVE  TextsByTag'[c] = TextsByTag[c]
    BY <1>4, <1>5, <2>1 DEF TextsByTag, TextAt, getTagID
  <2>2. TextsByTag'[code] =
          [t \in Tags |-> IF LinesByTag[t] # NoText THEN LinesByTag[t] ELSE TextsByTag[code][t]]
    BY <1>2, <1>7, <2>0 DEF TextsByTag
  <2> QED
    BY <1>2, <2>1, <2>2 DEF TextsByTag
<1> QED
  BY <1>3, <1>4, <1>5, <1>6, <1>8 DEF Catalogued!Publish, LinesByTag, TextsByTag

LEMMA CatalogueStep ==
  LanguagesInv /\ NothingIsHalfRead /\ [Next]_vars
    => [Catalogued!CatalogueNext]_(Catalogued!catalogueVars)
<1> SUFFICES ASSUME LanguagesInv, NothingIsHalfRead, [Next]_vars
             PROVE  Catalogued!CatalogueNext \/ UNCHANGED Catalogued!catalogueVars
  OBVIOUS
<1> USE DEF Catalogued!CatalogueNext, Catalogued!catalogueVars
<1>1. CASE openFile
  <2>1. languageData = NewLanguageData /\ NoLangCode \in Codes
    BY <1>1, LanguagesAssumption DEF openFile, NothingIsHalfRead
  <2>2. CASE phase' = "loading"
    <3>1. Catalogued!Name(NoLangCode)
      BY <1>1, <2>1, <2>2 DEF openFile, NewLanguageData, Catalogued!Name, Languages, TextAt, getTagID
    <3> QED
      BY <2>1, <3>1
  <2>3. CASE phase' = "failed"
    BY <1>1, <2>3 DEF openFile, Languages, TextAt, getTagID
  <2> QED
    BY <1>1, <2>2, <2>3 DEF openFile
<1>2. CASE refuseLine
  <2>1. Catalogued!Discard
    BY <1>2 DEF refuseLine, NewLanguageData, Catalogued!Discard, Catalogued!Blank, Languages,
                TextAt, getTagID
  <2> QED
    BY <2>1
<1>3. CASE convertForever
  BY <1>3 DEF convertForever, Languages, TextAt, getTagID
<1>4. CASE endOfFile
  BY <1>4, Publishes
<1>5. CASE registerMap
  BY <1>5 DEF registerMap, Languages, TextAt, getTagID
<1>6. ASSUME NEW c \in Codes, readCode(c)
      PROVE  Catalogued!Name(c)
  <2>1. languageData'.languageCode = c /\ languageData'.tagData = languageData.tagData
    BY <1>6 DEF readCode, LanguagesInv, DataOK, Data
  <2> QED
    BY <1>6, <2>1 DEF readCode, Catalogued!Name, Languages, TextAt, getTagID
<1>7. ASSUME NEW t \in Tags, NEW x \in Texts, readTag(t, x)
      PROVE  Catalogued!Give(t, x)
  BY <1>7, GivesText
<1>8. CASE UNCHANGED vars
  BY <1>8 DEF vars, Languages, TextAt, getTagID
<1> QED
  BY <1>1, <1>2, <1>3, <1>4, <1>5, <1>6, <1>7, <1>8 DEF Next

(* Whatever numbers the tags have been given, the languages amount to a    *)
(* catalogue of texts by language and tag, in which a file changes all of  *)
(* its texts in one language or none (Languages::loadFile, mergeWith).     *)
THEOREM LanguagesAreACatalogue == Spec => ImplementsCatalogue
<1>1. Init => Catalogued!CatalogueInit
  <2> SUFFICES ASSUME Init
               PROVE  Catalogued!CatalogueInit
    OBVIOUS
  <2>1. Languages = {} /\ languageData.tagData = <<>>
    BY DEF Init, Languages, NewLanguageData
  <2> QED
    BY <2>1 DEF Init, Catalogued!CatalogueInit, Catalogued!Blank, TextAt
<1> QED
  BY <1>1, CatalogueStep, NothingIsHalfReadNext, LanguagesInvariant, PTL
     DEF Spec, ImplementsCatalogue, Catalogued!CatalogueSpec
-----------------------------------------------------------------------------
(* Reading a line gives its tag a text, refuses the file or never ends.    *)
LEMMA TextsStep == [TextsNext]_vars => [Next]_vars
<1> SUFFICES ASSUME TextsNext
             PROVE  Next
  OBVIOUS
<1>1. ASSUME NEW t \in Tags, NEW line \in Lines, readLine(t, line)
      PROVE  Next
  BY <1>1, TextsAssumption DEF readLine, Next
<1> QED
  BY <1>1 DEF TextsNext, Next

LEMMA TextsAreLanguages == TextsSpec => Spec
  BY TextsStep, PTL DEF TextsSpec, Spec
-----------------------------------------------------------------------------
(* The counter of a language is never below the number of its texts: a tag *)
(* that is given again counts again, and none is forgotten.                *)
Counted(d) == Cardinality(HasText(d.tagData)) <= d.tagCount

TextsAreCounted ==
  /\ Counted(languageData)
  /\ \A c \in Languages : Counted(languageDataMap[c])

LEMMA TextsOfVector ==
  ASSUME NEW v \in Vectors
  PROVE  /\ HasText(v) \subseteq 1..Len(v) /\ IsFiniteSet(HasText(v))
         /\ Cardinality(HasText(v)) \in Nat
<1>1. Len(v) \in Nat /\ HasText(v) \subseteq 1..Len(v)
  BY DEF Vectors, HasText
<1>2. IsFiniteSet(1..Len(v))
  BY <1>1, FS_Interval
<1> QED
  BY <1>1, <1>2, FS_Subset, FS_CardinalityType

LEMMA NothingCounts == NewLanguageData \in Data /\ Counted(NewLanguageData)
<1>1. NewLanguageData \in Data
  BY LanguagesAssumption DEF NewLanguageData, Data, Vectors
<1>2. HasText(NewLanguageData.tagData) = {}
  BY DEF HasText, NewLanguageData
<1> QED
  BY <1>1, <1>2, FS_EmptySet DEF Counted, NewLanguageData

(* A line adds one text at most, and counts.                               *)
LEMMA ReadTagCounts ==
  ASSUME LanguagesInv, TextsAreCounted, NEW t \in Tags, NEW x \in Texts, readTag(t, x)
  PROVE  TextsAreCounted'
<1> DEFINE id == IF getTagID(t) # unknownTagID THEN getTagID(t) ELSE highestTagID + 1
           old == languageData.tagData
           n == Larger(Len(old), id)
           v == Resized(old, n)
           w == [v EXCEPT ![id] = x]
<1>1. languageData \in Data /\ old \in Vectors
  BY DEF LanguagesInv, DataOK, Data
<1>2. /\ languageData' = [languageData EXCEPT !.tagData = w, !.tagCount = @ + 1]
      /\ UNCHANGED languageDataMap
  BY DEF readTag
<1>3. languageData'.tagData = w /\ languageData'.tagCount = languageData.tagCount + 1
  BY <1>1, <1>2 DEF Data
<1>4. HasText(w) \subseteq HasText(old) \cup {id}
  <2> SUFFICES ASSUME NEW i \in HasText(w), i # id
               PROVE  i \in HasText(old)
    OBVIOUS
  <2> HIDE DEF id
  <2>1. i \in DOMAIN w /\ w[i] # NoText
    BY DEF HasText
  <2> HIDE DEF old, n
  <2>2. i \in 1..n /\ v[i] # NoText
    BY <2>1 DEF Resized
  <2>3. i <= Len(old) /\ old[i] # NoText
    BY <2>2 DEF Resized
  <2> QED
    BY <1>1, <2>2, <2>3 DEF HasText, Vectors
<1> HIDE DEF w, id
<1>5. /\ IsFiniteSet(HasText(old) \cup {id})
      /\ Cardinality(HasText(old) \cup {id}) <= Cardinality(HasText(old)) + 1
      /\ Cardinality(HasText(old)) \in Nat
  <2>1. IsFiniteSet(HasText(old)) /\ Cardinality(HasText(old)) \in Nat
    BY <1>1, TextsOfVector
  <2> HIDE DEF old
  <2> QED
    BY <2>1, FS_AddElement
<1>6. Cardinality(HasText(w)) <= Cardinality(HasText(old)) + 1
  <2>1. Cardinality(HasText(w)) <= Cardinality(HasText(old) \cup {id})
    BY <1>4, <1>5, FS_Subset
  <2>2. Cardinality(HasText(w)) \in Nat /\ Cardinality(HasText(old) \cup {id}) \in Nat
    BY <1>4, <1>5, FS_Subset, FS_CardinalityType
  <2> QED
    BY <1>5, <2>1, <2>2
<1>7. languageData.tagCount \in Nat /\ Cardinality(HasText(w)) \in Nat
  BY <1>1, <1>4, <1>5, FS_Subset, FS_CardinalityType DEF Data
<1>8. Counted(languageData)'
  BY <1>3, <1>5, <1>6, <1>7 DEF TextsAreCounted, Counted
<1> QED
  BY <1>2, <1>8 DEF TextsAreCounted, Languages, Counted

(* The texts of a merged vector are those of either, and each that is new  *)
(* counts.                                                                 *)
LEMMA MergeCounts ==
  ASSUME NEW old \in Data, NEW new \in Data, Counted(old)
  PROVE  Counted(mergeWith(old, new))
<1> DEFINE a == HasText(old.tagData)
           b == HasText(new.tagData)
           m == mergeWith(old, new)
<1>1. /\ IsFiniteSet(a) /\ Cardinality(a) \in Nat
      /\ IsFiniteSet(b) /\ Cardinality(b) \in Nat
      /\ old.tagCount \in Nat
  BY TextsOfVector DEF Data
<1>2. m.tagCount = old.tagCount + Cardinality(b)
  BY DEF mergeWith, Data
<1>3. m \in Data /\ IsFiniteSet(HasText(m.tagData)) /\ Cardinality(HasText(m.tagData)) \in Nat
  BY MergedData, TextsOfVector DEF Data
<1>4. HasText(m.tagData) \subseteq a \cup b
  <2> SUFFICES ASSUME NEW i \in HasText(m.tagData), i \notin b
               PROVE  i \in a
    OBVIOUS
  <2>1. At(m.tagData, i) # NoText
    BY DEF HasText, At
  <2>2. At(new.tagData, i) = NoText
    BY DEF HasText, At
  <2>3. At(old.tagData, i) # NoText
    BY <2>1, <2>2, MergedTexts
  <2> QED
    BY <2>3 DEF HasText, At
<1> HIDE DEF a, b, m
<1>5. IsFiniteSet(a \cup b) /\ Cardinality(a \cup b) \in Nat
  BY <1>1, FS_Union, FS_CardinalityType
<1>6. Cardinality(a \cup b) <= Cardinality(a) + Cardinality(b)
  <2>1. Cardinality(a \cup b) = Cardinality(a) + Cardinality(b) - Cardinality(a \cap b)
    BY <1>1, FS_Union
  <2>2. Cardinality(a \cap b) \in Nat
    BY <1>1, FS_Intersection, FS_CardinalityType
  <2> QED
    BY <1>1, <2>1, <2>2
<1>7. Cardinality(HasText(m.tagData)) <= Cardinality(a \cup b)
  BY <1>4, <1>5, FS_Subset
<1>8. Cardinality(a) <= old.tagCount
  BY DEF Counted, a
<1>9. Cardinality(HasText(m.tagData)) <= m.tagCount
  BY <1>1, <1>2, <1>3, <1>5, <1>6, <1>7, <1>8
<1> QED
  BY <1>9 DEF Counted, m

LEMMA EndOfFileCounts ==
  ASSUME LanguagesInv, TextsAreCounted, endOfFile
  PROVE  TextsAreCounted'
<1> DEFINE found == findByCode(languageData.languageCode)
           code == IF found = NoCode THEN languageData.languageCode ELSE found
<1>1. languageData \in Data /\ \A c \in Languages : languageDataMap[c] \in Data
  BY DEF LanguagesInv, DataOK
<1>2. found \in Languages \cup {NoCode}
  BY DEF findByCode, LanguagesInv, DataOK
<1>3. /\ languageDataMap' = [c \in Languages \cup {code} |->
             IF c # code THEN languageDataMap[c]
             ELSE IF found = NoCode THEN languageData
             ELSE mergeWith(languageDataMap[c], languageData)]
      /\ languageData' = NewLanguageData
  BY DEF endOfFile
<1>4. found # NoCode => code \in Languages
  BY <1>2
<1> HIDE DEF found, code
<1>5. Languages' = Languages \cup {code}
  BY <1>3 DEF Languages
<1>6. ASSUME NEW c \in Languages'
      PROVE  Counted(languageDataMap'[c])
  <2>1. CASE c # code
    BY <1>3, <1>5, <2>1 DEF TextsAreCounted
  <2>2. CASE c = code /\ found = NoCode
    BY <1>3, <1>5, <2>2 DEF TextsAreCounted
  <2>3. CASE c = code /\ found # NoCode
    <3>1. c \in Languages /\ languageDataMap'[c] = mergeWith(languageDataMap[c], languageData)
      BY <1>3, <1>4, <1>5, <2>3
    <3> QED
      BY <1>1, <3>1, MergeCounts DEF TextsAreCounted
  <2> QED
    BY <2>1, <2>2, <2>3
<1> QED
  BY <1>3, <1>6, NothingCounts DEF TextsAreCounted, Counted

LEMMA TextsAreCountedNext ==
  ASSUME LanguagesInv, TextsAreCounted, [Next]_vars
  PROVE  TextsAreCounted'
<1>1. CASE openFile \/ convertForever \/ registerMap \/ UNCHANGED vars
  BY <1>1 DEF openFile, convertForever, registerMap, vars, TextsAreCounted, Languages, Counted
<1>2. CASE refuseLine
  BY <1>2, NothingCounts DEF refuseLine, TextsAreCounted, Languages, Counted
<1>3. CASE endOfFile
  BY <1>3, EndOfFileCounts
<1>4. ASSUME NEW c \in Codes, readCode(c)
      PROVE  TextsAreCounted'
  <2>1. /\ languageData'.tagData = languageData.tagData
        /\ languageData'.tagCount = languageData.tagCount
    BY <1>4 DEF readCode, LanguagesInv, DataOK, Data
  <2> QED
    BY <1>4, <2>1 DEF readCode, TextsAreCounted, Languages, Counted
<1>5. ASSUME NEW t \in Tags, NEW x \in Texts, readTag(t, x)
      PROVE  TextsAreCounted'
  BY <1>5, ReadTagCounts
<1> QED
  BY <1>1, <1>2, <1>3, <1>4, <1>5 DEF Next

LEMMA TextsAreCountedInvariant == Spec => []TextsAreCounted
<1>1. Init => TextsAreCounted
  BY NothingCounts DEF Init, TextsAreCounted, Languages, Counted
<1> QED
  BY <1>1, TextsAreCountedNext, LanguagesInvariant, PTL DEF Spec
-----------------------------------------------------------------------------
(* A language that counts all tags is not shown with less than all.        *)
LEMMA AllIsHundred ==
  ASSUME NEW c \in Languages, languageDataMap[c].tagCount \in Nat,
         highestTagID \in Nat, highestTagID # 0,
         languageDataMap[c].tagCount >= highestTagID
  PROVE  ~(percentComplete(c) < 100)
<1> DEFINE tags == languageDataMap[c].tagCount
           h == highestTagID
           halves == (200 * tags) \div h
<1>1. tags \in Nat /\ h \in Nat \ {0} /\ tags >= h
  OBVIOUS
<1> HIDE DEF tags, h
<1>2. halves \in Int /\ 200 * tags < h * halves + h
  <2>1. 200 * tags \in Nat
    BY <1>1
  <2>2. \A k \in Nat : k \div h \in Int /\ k < h * (k \div h) + h
    BY <1>1
  <2> QED
    BY <2>1, <2>2
<1> HIDE DEF halves
<1>3. halves >= 200
  <2> SUFFICES ASSUME halves + 1 <= 200
               PROVE  FALSE
    BY <1>2
  <2>1. h * (halves + 1) <= h * 200
    BY <1>1, <1>2
  <2>2. h * (halves + 1) = h * halves + h
    BY <1>1, <1>2
  <2>3. h * 200 <= 200 * tags
    BY <1>1
  <2>4. h * halves \in Int /\ 200 * tags \in Int
    BY <1>1, <1>2
  <2> QED
    BY <1>1, <1>2, <2>1, <2>2, <2>3, <2>4
<1>4. halves \div 2 >= 100 /\ halves \div 2 \in Int
  BY <1>2, <1>3
<1>5. \/ percentComplete(c) = halves \div 2
      \/ percentComplete(c) = halves \div 2 + 1
  BY DEF percentComplete, halves, tags, h
<1> QED
  BY <1>4, <1>5

(* As many texts as tags are needed for a language to have them all, and   *)
(* none is counted that is not there: whoever is told of a language that   *)
(* is incomplete (handleLANGUAGE, Stats::handleLanguages) is told the      *)
(* truth, for any files.                                                   *)
THEOREM IncompleteIsTrue == TextsSpec => []IncompleteLacksATag
<1>1. LanguagesInv /\ TextsAreCounted => IncompleteLacksATag
  <2> SUFFICES ASSUME LanguagesInv, TextsAreCounted, NEW c \in Languages,
                      \/ languageDataMap[c].tagCount < highestTagID
                      \/ highestTagID # 0 /\ percentComplete(c) < 100
               PROVE  \E t \in Tags : /\ getTagID(t) # unknownTagID
                                      /\ TextAt(languageDataMap[c].tagData, t) = NoText
    BY DEF IncompleteLacksATag
  <2> DEFINE v == languageDataMap[c].tagData
  <2>1. /\ languageDataMap[c] \in Data /\ v \in Vectors
        /\ languageDataMap[c].tagCount \in Nat /\ highestTagID \in Nat
    BY DEF LanguagesInv, DataOK, NumbersAreDense, Data
  <2>2. languageDataMap[c].tagCount < highestTagID
    BY <2>1, AllIsHundred
  <2>3. Cardinality(HasText(v)) < highestTagID
    BY <2>1, <2>2, TextsOfVector DEF TextsAreCounted, Counted
  <2>4. PICK i \in 1..highestTagID : i \notin HasText(v)
    <3>1. IsFiniteSet(1..highestTagID) /\ Cardinality(1..highestTagID) = highestTagID
      BY <2>1, <2>2, FS_Interval
    <3>2. CASE 1..highestTagID \subseteq HasText(v)
      <4>1. Cardinality(1..highestTagID) <= Cardinality(HasText(v))
        BY <2>1, <3>2, TextsOfVector, FS_Subset
      <4> QED
        BY <2>1, <2>3, <3>1, <4>1, TextsOfVector
    <3> QED
      BY <3>2
  <2>5. PICK t \in Tags : getTagID(t) = i
    BY DEF LanguagesInv, NumbersAreDense
  <2>6. getTagID(t) # unknownTagID
    BY <2>1, <2>5 DEF unknownTagID
  <2>7. TextAt(v, t) = NoText
    BY <2>4, <2>5 DEF TextAt, HasText
  <2> QED
    BY <2>6, <2>7
<1> QED
  BY <1>1, TextsAreLanguages, TextsAreCountedInvariant, LanguagesInvariant, PTL
-----------------------------------------------------------------------------
(* What is told where a language has no text                               *)

(* The texts that lines give, in vectors                                   *)
Given == {TextOf(line) : line \in {line \in Lines : ResultOf(line) = "done"}}
OfLines(v) == \A i \in DOMAIN v : v[i] # NoText => v[i] \in Given

(* All texts come from lines, and a module's numbers are those of its tags.*)
TextsAreOfLines ==
  /\ OfLines(languageData.tagData)
  /\ \A c \in Languages : OfLines(languageDataMap[c].tagData)
  /\ phase = "running" => \A t \in Tags : tagMap[t] = getTagID(t)

LEMMA ReadTagGives ==
  ASSUME LanguagesInv, TextsAreOfLines, NEW t \in Tags, NEW x \in Given, readTag(t, x)
  PROVE  TextsAreOfLines'
<1> DEFINE id == IF getTagID(t) # unknownTagID THEN getTagID(t) ELSE highestTagID + 1
           old == languageData.tagData
           n == Larger(Len(old), id)
           w == [Resized(old, n) EXCEPT ![id] = x]
<1>1. languageData \in Data /\ old \in Vectors
  BY DEF LanguagesInv, DataOK, Data
<1>2. /\ languageData' = [languageData EXCEPT !.tagData = w, !.tagCount = @ + 1]
      /\ phase = "loading" /\ UNCHANGED <<phase, languageDataMap>>
  BY DEF readTag
<1>3. languageData'.tagData = w
  BY <1>1, <1>2 DEF Data
<1>4. OfLines(w)
  <2> SUFFICES ASSUME NEW i \in DOMAIN w, w[i] # NoText
               PROVE  w[i] \in Given
    BY DEF OfLines
  <2> HIDE DEF id
  <2>1. CASE i = id
    BY <2>1
  <2>2. CASE i # id
    <3> HIDE DEF old, n
    <3>1. i \in 1..n /\ w[i] = IF i <= Len(old) THEN old[i] ELSE NoText
      BY <2>2 DEF Resized
    <3>2. i \in DOMAIN old /\ w[i] = old[i]
      BY <1>1, <3>1 DEF Vectors
    <3> QED
      BY <3>2 DEF TextsAreOfLines, OfLines, old
  <2> QED
    BY <2>1, <2>2
<1> HIDE DEF w
<1>5. OfLines(languageData'.tagData)
  BY <1>3, <1>4
<1> QED
  BY <1>2, <1>5 DEF TextsAreOfLines, Languages, OfLines

LEMMA EndOfFileGives ==
  ASSUME LanguagesInv, TextsAreOfLines, endOfFile
  PROVE  TextsAreOfLines'
<1> DEFINE found == findByCode(languageData.languageCode)
           code == IF found = NoCode THEN languageData.languageCode ELSE found
<1>1. languageData \in Data /\ \A c \in Languages : languageDataMap[c] \in Data
  BY DEF LanguagesInv, DataOK
<1>2. found \in Languages \cup {NoCode}
  BY DEF findByCode, LanguagesInv, DataOK
<1>3. /\ languageDataMap' = [c \in Languages \cup {code} |->
             IF c # code THEN languageDataMap[c]
             ELSE IF found = NoCode THEN languageData
             ELSE mergeWith(languageDataMap[c], languageData)]
      /\ languageData' = NewLanguageData /\ phase' = "configuring"
  BY DEF endOfFile
<1>4. found # NoCode => code \in Languages
  BY <1>2
<1> HIDE DEF found, code
<1>5. Languages' = Languages \cup {code}
  BY <1>3 DEF Languages
<1>6. ASSUME NEW c \in Languages'
      PROVE  OfLines(languageDataMap'[c].tagData)
  <2>1. CASE c # code
    BY <1>3, <1>5, <2>1 DEF TextsAreOfLines
  <2>2. CASE c = code /\ found = NoCode
    BY <1>3, <1>5, <2>2 DEF TextsAreOfLines
  <2>3. CASE c = code /\ found # NoCode
    <3> DEFINE m == mergeWith(languageDataMap[c], languageData).tagData
    <3>1. c \in Languages /\ languageDataMap'[c].tagData = m
      BY <1>3, <1>4, <1>5, <2>3
    <3>2. ASSUME NEW i \in DOMAIN m, m[i] # NoText
          PROVE  m[i] \in Given
      <4>1. At(m, i) = IF At(languageData.tagData, i) # NoText THEN At(languageData.tagData, i)
                       ELSE At(languageDataMap[c].tagData, i)
        BY <1>1, <3>1, MergedTexts
      <4>2. At(m, i) = m[i]
        BY DEF At
      <4> HIDE DEF m
      <4>3. \A v \in {languageData.tagData, languageDataMap[c].tagData} :
              At(v, i) # NoText => At(v, i) \in Given
        BY <3>1 DEF At, TextsAreOfLines, OfLines
      <4> QED
        BY <3>2, <4>1, <4>2, <4>3
    <3> HIDE DEF m
    <3> QED
      BY <3>1, <3>2 DEF OfLines
  <2> QED
    BY <2>1, <2>2, <2>3
<1>7. OfLines(languageData'.tagData)
  BY <1>3 DEF OfLines, NewLanguageData
<1> QED
  BY <1>3, <1>6, <1>7 DEF TextsAreOfLines, OfLines

LEMMA TextsAreOfLinesNext ==
  ASSUME LanguagesInv, TextsAreOfLines, [TextsNext]_vars
  PROVE  TextsAreOfLines'
<1>1. CASE openFile \/ convertForever \/ UNCHANGED vars
  BY <1>1 DEF openFile, convertForever, vars, TextsAreOfLines, Languages, OfLines, getTagID
<1>2. ASSUME refuseLine
      PROVE  TextsAreOfLines'
  BY <1>2 DEF refuseLine, TextsAreOfLines, Languages, OfLines, NewLanguageData
<1>3. CASE endOfFile
  BY <1>3, EndOfFileGives
<1>4. ASSUME NEW c \in Codes, readCode(c)
      PROVE  TextsAreOfLines'
  <2>1. languageData'.tagData = languageData.tagData
    BY <1>4 DEF readCode, LanguagesInv, DataOK, Data
  <2> QED
    BY <1>4, <2>1 DEF readCode, TextsAreOfLines, Languages, OfLines
<1>5. CASE registerMap
  BY <1>5 DEF registerMap, processTagMap, TextsAreOfLines, Languages, OfLines, getTagID
<1>6. ASSUME NEW t \in Tags, NEW line \in Lines, readLine(t, line)
      PROVE  TextsAreOfLines'
  <2>1. CASE ResultOf(line) = "done"
    <3>1. readTag(t, TextOf(line)) /\ TextOf(line) \in Given
      BY <1>6, <2>1 DEF readLine, Given
    <3> QED
      BY <3>1, ReadTagGives
  <2>2. CASE ResultOf(line) # "done"
    <3>1. refuseLine \/ convertForever
      BY <1>6, <2>2 DEF readLine
    <3> QED
      BY <1>1, <1>2, <3>1
  <2> QED
    BY <2>1, <2>2
<1> QED
  BY <1>1, <1>2, <1>3, <1>4, <1>5, <1>6 DEF TextsNext

LEMMA TextsAreOfLinesInvariant == TextsSpec => []TextsAreOfLines
<1>1. Init => TextsAreOfLines
  BY DEF Init, TextsAreOfLines, Languages, OfLines, NewLanguageData
<1> QED
  BY <1>1, TextsAreOfLinesNext, TextsAreLanguages, LanguagesInvariant, PTL DEF TextsSpec

(* The first text of some that is not empty is one of them.                *)
LEMMA FirstIsOne ==
  ASSUME NEW X, NEW texts \in Seq(X), \E i \in DOMAIN texts : texts[i] # Empty
  PROVE  \E i \in DOMAIN texts : FirstOf(texts) = texts[i] /\ texts[i] # Empty
<1> DEFINE S == {i \in DOMAIN texts : texts[i] # Empty}
<1>1. DOMAIN texts = 1..Len(texts) /\ Len(texts) \in Nat
  OBVIOUS
<1>2. PICK i \in S : \A j \in S : i <= j
  <2>1. S \subseteq Nat /\ S # {}
    BY <1>1
  <2> HIDE DEF S
  <2> QED
    BY <2>1, LeastElement
<1>3. \A j \in 1..(i - 1) : texts[j] = Empty
  BY <1>1, <1>2
<1> DEFINE Is(k) == texts[k] # Empty /\ \A j \in 1..(k - 1) : texts[j] = Empty
           k == CHOOSE k \in DOMAIN texts : Is(k)
<1>4. k \in DOMAIN texts /\ Is(k)
  <2>1. i \in DOMAIN texts /\ Is(i)
    BY <1>2, <1>3
  <2> HIDE DEF Is
  <2> QED
    BY <2>1
<1>5. FirstOf(texts) = texts[k]
  BY DEF FirstOf
<1> HIDE DEF k
<1> QED
  BY <1>4, <1>5

(* No character is made the marker of a new line.                          *)
LEMMA SoftenedIs ==
  \A c : softened(c) # newLineMarkerChar /\ (c \in Nat => softened(c) \in Nat)
<1> TAKE c
<1> USE DEF newLineMarkerChar, NEL
<1>1. CASE c \in {1, 8} \cup 10..13 \cup 17..20
  <2>1. softened(c) = c + 9216
    BY <1>1 DEF softened
  <2>2. c + 9216 \in Nat /\ c + 9216 # 133
    BY SMT, <1>1
  <2> QED
    BY <2>1, <2>2
<1>2. CASE c \notin {1, 8} \cup 10..13 \cup 17..20 /\ c = 127
  <2>1. softened(c) = 9249
    BY <1>2 DEF softened
  <2> QED
    BY SMT, <2>1
<1>3. CASE c \notin {1, 8} \cup 10..13 \cup 17..20 /\ c # 127
           /\ c \in {133, 141} \cup 65532..65535
  <2>1. softened(c) = 65533
    BY <1>3 DEF softened, CharacterGlyph
  <2> QED
    BY SMT, <2>1
<1>4. CASE c \notin {1, 8} \cup 10..13 \cup 17..20 /\ c # 127
           /\ c \notin {133, 141} \cup 65532..65535
  BY <1>4 DEF softened
<1> QED
  BY <1>1, <1>2, <1>3, <1>4

(* No text of a line has a marker of a new section in it: it would have    *)
(* been softened.                                                          *)
LEMMA NothingIsSections ==
  ASSUME NEW text \in Given
  PROVE  text \in Seq(Nat) /\ Sections(text) = <<text>>
<1>1. PICK line \in Lines : ResultOf(line) = "done" /\ text = TextOf(line)
  BY DEF Given
<1>2. text \in Seq(Nat)
  BY <1>1, TextsAssumption
<1>3. \A i \in DOMAIN text : text[i] # newLineMarkerChar
  <2> DEFINE wide == convertChars(convDesc, preprocess(line)).text
  <2>1. text = [i \in DOMAIN wide |-> softened(wide[i])]
    BY <1>1 DEF TextOf
  <2> HIDE DEF wide
  <2> QED
    BY <2>1, SoftenedIs
<1> DEFINE n == Len(text)
           ends == {i \in DOMAIN text : text[i] = newLineMarkerChar}
           startOf(i) == IF \E j \in ends : j < i
                         THEN 1 + (CHOOSE j \in ends :
                                     j < i /\ \A k \in ends : k < i => k <= j)
                         ELSE 1
           before(e) == {j \in ends : j < e}
           Is(e, m) == Cardinality(before(e)) = m - 1
           at(m) == CHOOSE e \in ends \cup {n + 1} : Is(e, m)
<1>4. ends = {} /\ n \in Nat
  BY <1>2, <1>3
<1>5. Sections(text) = [m \in 1..(Cardinality(ends) + 1) |->
                          SubSeq(text, startOf(at(m)), at(m) - 1)]
  BY DEF Sections
<1>6. at(1) = n + 1
  <2>1. Is(n + 1, 1)
    <3>1. before(n + 1) = {}
      BY <1>4
    <3> HIDE DEF before
    <3>2. Cardinality(before(n + 1)) = 0
      BY <3>1, FS_EmptySet
    <3> QED
      BY <3>2
  <2> HIDE DEF Is, ends, n
  <2>2. ends \cup {n + 1} = {n + 1}
    BY <1>4
  <2> QED
    BY <2>1, <2>2
<1>7. startOf(at(1)) = 1
  <2> HIDE DEF at, ends
  <2> QED
    BY <1>4
<1>8. Cardinality(ends) = 0
  BY <1>4, FS_EmptySet
<1> HIDE DEF at, startOf, ends
<1>9. Sections(text) = <<SubSeq(text, 1, n)>>
  <2>1. Sections(text) = [m \in 1..1 |-> SubSeq(text, startOf(at(m)), at(m) - 1)]
    BY <1>5, <1>8
  <2>2. SubSeq(text, startOf(at(1)), at(1) - 1) = SubSeq(text, 1, n)
    BY <1>4, <1>6, <1>7
  <2> DEFINE x == SubSeq(text, 1, n)
  <2>3. Sections(text) = [m \in 1..1 |-> x]
    <3> DEFINE part(m) == SubSeq(text, startOf(at(m)), at(m) - 1)
    <3>1. part(1) = x
      BY <2>2
    <3> HIDE DEF part, x
    <3>2. \A m \in 1..1 : part(m) = x
      BY <3>1
    <3>3. [m \in 1..1 |-> part(m)] = [m \in 1..1 |-> x]
      BY <3>2
    <3> QED
      BY <2>1, <3>3 DEF part
  <2> HIDE DEF x
  <2>4. [m \in 1..1 |-> x] = <<x>>
    OBVIOUS
  <2> QED
    BY <2>3, <2>4 DEF x
<1>10. SubSeq(text, 1, n) = text
  BY <1>2
<1> QED
  BY <1>2, <1>9, <1>10

(* A language tells of a tag nothing, or what a line says.                 *)
Tells(parameters) == {process(text, parameters) : text \in Given}

LEMMA ToldIs ==
  ASSUME LanguagesInv, TextsAreOfLines, phase = "running",
         NEW t \in Tags, NEW c \in Languages, NEW parameters
  PROVE  LET text == TextAt(languageDataMap[c].tagData, t)
         IN /\ told(c, tagMap[t], parameters) =
                 IF text = NoText THEN Empty ELSE process(text, parameters)
            /\ text # NoText =>
                 /\ text \in Given
                 /\ CanCall(languageDataMap[c], tagMap[t])
                 /\ languageDataMap[c].tagData[tagMap[t]] = text
<1> DEFINE v == languageDataMap[c].tagData
           id == getTagID(t)
<1>1. v \in Vectors /\ id \in Nat /\ tagMap[t] = id /\ c # NoCode
  BY LanguagesAssumption
  DEF LanguagesInv, DataOK, NumbersAreDense, Data, TextsAreOfLines, getTagID
<1>2. Len(v) \in Nat /\ DOMAIN v = 1..Len(v)
  BY <1>1 DEF Vectors
<1>3. told(c, id, parameters) =
        IF id # unknownTagID /\ id <= Len(v) /\ v[id] # NoText
        THEN process(v[id], parameters) ELSE Empty
  BY <1>1 DEF told, toldBy
<1>4. id \in DOMAIN v <=> id # unknownTagID /\ id <= Len(v)
  BY <1>1, <1>2 DEF unknownTagID
<1>5. TextAt(v, t) = IF id \in DOMAIN v THEN v[id] ELSE NoText
  BY DEF TextAt
<1>6. CASE TextAt(v, t) = NoText
  BY <1>1, <1>3, <1>4, <1>5, <1>6
<1>7. CASE TextAt(v, t) # NoText
  <2>1. id \in DOMAIN v /\ v[id] = TextAt(v, t)
    BY <1>5, <1>7
  <2>2. v[id] \in Given
    BY <1>7, <2>1 DEF TextsAreOfLines, OfLines
  <2> QED
    BY <1>1, <1>3, <1>4, <1>7, <2>1, <2>2 DEF CanCall
<1> QED
  BY <1>6, <1>7

(* The default language's text of a tag, if it is not empty, is told by    *)
(* every language that has none of its own.                                *)
LEMMA TellsSomething ==
  ASSUME NoLineIsTheSign, LanguagesInv, TextsAreOfLines, phase = "running",
         NEW t \in Tags, NEW parameters \in ParameterLists, defaultLanguage \in Languages,
         told(defaultLanguage, tagMap[t], parameters) # Empty,
         NEW n \in Nat, NEW before \in [1..n -> Languages],
         NEW texts, texts = [i \in 1..n |-> told(before[i], tagMap[t], parameters)]
  PROVE  FirstOf(Append(texts, told(defaultLanguage, tagMap[t], parameters))) # <<ObjectGlyph>>
<1> DEFINE id == tagMap[t]
           last == told(defaultLanguage, id, parameters)
           All == {Empty} \cup Tells(parameters)
           more == Append(texts, last)
<1>1. ASSUME NEW c \in Languages
      PROVE  told(c, id, parameters) \in All
  BY ToldIs DEF Tells
<1>2. texts \in Seq(All) /\ Len(texts) = n /\ last \in All
  <2> HIDE DEF All, id
  <2> QED
    BY <1>1 DEF id
<1> HIDE DEF All, last
<1>3. more \in Seq(All) /\ DOMAIN more = 1..(n + 1) /\ more[n + 1] = last
  BY <1>2
<1> HIDE DEF more
<1>4. PICK i \in DOMAIN more : FirstOf(more) = more[i] /\ more[i] # Empty
  <2>1. n + 1 \in DOMAIN more /\ more[n + 1] # Empty
    BY <1>3 DEF last
  <2> QED
    BY <1>3, <2>1, FirstIsOne
<1>5. PICK text \in Given : more[i] = process(text, parameters)
  <2>1. more[i] \in All
    BY <1>3
  <2> QED
    BY <1>4, <2>1 DEF All, Tells
<1>6. more[i] # <<ObjectGlyph>>
  BY <1>5 DEF NoLineIsTheSign, Given
<1> QED
  BY <1>4, <1>6 DEF more, last, id

(* The first language is the default, and stays it.                        *)
FirstIsDefault == Languages # {} => defaultLanguage # NoCode

LEMMA FirstIsDefaultInvariant == Spec => []FirstIsDefault
<1>1. Init => FirstIsDefault
  BY DEF Init, FirstIsDefault, Languages
<1>2. LanguagesInv /\ FirstIsDefault /\ [Next]_vars => FirstIsDefault'
  <2> SUFFICES ASSUME LanguagesInv, FirstIsDefault, [Next]_vars
               PROVE  FirstIsDefault'
    OBVIOUS
  <2>1. CASE endOfFile
    <3> DEFINE found == findByCode(languageData.languageCode)
               code == IF found = NoCode THEN languageData.languageCode ELSE found
    <3>1. code # NoCode
      BY LanguagesAssumption DEF LanguagesInv, DataOK, Data
    <3>2. defaultLanguage' = IF defaultLanguage = NoCode THEN code ELSE defaultLanguage
      BY <2>1 DEF endOfFile
    <3> HIDE DEF code
    <3> QED
      BY <3>1, <3>2 DEF FirstIsDefault
  <2>2. CASE ~endOfFile
    <3>1. UNCHANGED <<languageDataMap, defaultLanguage>>
      BY <2>2 DEF Next, vars, openFile, readCode, readTag, refuseLine, convertForever, registerMap
    <3> QED
      BY <3>1 DEF FirstIsDefault, Languages
  <2> QED
    BY <2>1, <2>2
<1> QED
  BY <1>1, <1>2, LanguagesInvariant, PTL DEF Spec

(* What the default language has a text for, every language tells, for any *)
(* files: the numbers of a module's tags lead to the same texts however the*)
(* files numbered them, and no language is without a fallback (process(),  *)
(* Languages::get()).                                                      *)
THEOREM EveryLanguageSpeaks ==
  ASSUME NoLineIsTheSign
  PROVE  TextsSpec => []DefaultSpeaksForAll
<1>1. LanguagesInv /\ TextsAreOfLines /\ FirstIsDefault => DefaultSpeaksForAll
  <2> SUFFICES ASSUME LanguagesInv, TextsAreOfLines, FirstIsDefault, phase = "running",
                      NEW t \in Tags, NEW parameters \in ParameterLists, Languages # {},
                      NEW default,
                      default = (IF TextAt(languageDataMap[defaultLanguage].tagData, t) = NoText
                                 THEN Empty
                                 ELSE process(TextAt(languageDataMap[defaultLanguage].tagData, t),
                                              parameters)),
                      default # Empty
               PROVE  /\ \A code \in Codes :
                           findByCode(code) # NoCode =>
                             getByCode(code, tagMap[t], parameters) # <<ObjectGlyph>>
                      /\ \A c, d \in Languages :
                           getOfList(<<c, d>>, tagMap[t], parameters) # <<ObjectGlyph>>
                      /\ getByCalls(defaultLanguage, tagMap[t], parameters, 2) = <<default>>
    BY DEF DefaultSpeaksForAll
  <2> DEFINE id == tagMap[t]
             text == TextAt(languageDataMap[defaultLanguage].tagData, t)
  <2>1. defaultLanguage \in Languages /\ NoCode \notin Languages /\ Languages \subseteq Codes
    BY LanguagesAssumption DEF LanguagesInv, DataOK, FirstIsDefault
  <2>2. /\ told(defaultLanguage, id, parameters) = default
        /\ text # NoText /\ text \in Given /\ default = process(text, parameters)
        /\ CanCall(languageDataMap[defaultLanguage], id)
        /\ languageDataMap[defaultLanguage].tagData[id] = text
    BY <2>1, ToldIs
  <2> HIDE DEF id, text
  <2>3. ASSUME NEW code \in Codes, findByCode(code) # NoCode
        PROVE  getByCode(code, id, parameters) # <<ObjectGlyph>>
    <3> DEFINE c == findByCode(code)
               texts == <<told(c, id, parameters)>>
               before == [i \in 1..1 |-> c]
    <3>1. c \in Languages
      BY <2>1, <2>3 DEF findByCode
    <3>2. getByCode(code, id, parameters)
            = FirstOf(<<told(c, id, parameters), told(defaultLanguage, id, parameters)>>)
      BY <2>3 DEF getByCode, get
    <3> HIDE DEF c
    <3>3. before \in [1..1 -> Languages]
          /\ texts = [i \in 1..1 |-> told(before[i], id, parameters)]
      BY <3>1
    <3>4. FirstOf(Append(texts, told(defaultLanguage, id, parameters))) # <<ObjectGlyph>>
      <4> HIDE DEF texts, before
      <4> QED
        BY <2>1, <2>2, <3>3, TellsSomething DEF id
    <3>5. Append(texts, told(defaultLanguage, id, parameters))
            = <<told(c, id, parameters), told(defaultLanguage, id, parameters)>>
      <4> DEFINE a == told(c, id, parameters)
                 b == told(defaultLanguage, id, parameters)
      <4> HIDE DEF a, b
      <4>1. a \in {a, b} /\ b \in {a, b}
        OBVIOUS
      <4>2. Append(<<a>>, b) = <<a, b>>
        BY <4>1, AppendPair, Zenon
      <4> QED
        BY <4>2 DEF a, b
    <3> QED
      BY <3>2, <3>4, <3>5
  <2>4. ASSUME NEW c \in Languages, NEW d \in Languages
        PROVE  getOfList(<<c, d>>, id, parameters) # <<ObjectGlyph>>
    <3> DEFINE list == <<c, d>>
               texts == [i \in 1..2 |-> told(list[i], id, parameters)]
    <3>1. list \in [1..2 -> Languages] /\ DOMAIN list = 1..2 /\ list # <<>>
      OBVIOUS
    <3>2. {i \in DOMAIN list : list[i] = NoCode} = {}
      BY <2>1, <3>1
    <3> HIDE DEF list
    <3>3. getOfList(list, id, parameters)
            = FirstOf(Append(texts, told(defaultLanguage, id, parameters)))
      BY <3>1, <3>2 DEF getOfList
    <3> HIDE DEF texts
    <3>4. FirstOf(Append(texts, told(defaultLanguage, id, parameters))) # <<ObjectGlyph>>
      BY <2>1, <2>2, <3>1, TellsSomething DEF id, texts
    <3> QED
      BY <3>3, <3>4 DEF list
  <2>5. getByCalls(defaultLanguage, id, parameters, 2) = <<default>>
    <3> DEFINE data == languageDataMap[defaultLanguage]
               sections == Sections(data.tagData[id])
               n == IF Len(sections) < 2 THEN Len(sections) ELSE 2
    <3>1. sections = <<text>>
      BY <2>2, NothingIsSections
    <3>2. n = 1 /\ sections[1] = text
      BY <3>1
    <3>3. callsBy(data, id, parameters, 2) = [i \in 1..n |-> process(sections[i], parameters)]
      BY <2>2 DEF callsBy
    <3> HIDE DEF n, sections
    <3>4. \A i \in 1..1 : process(sections[i], parameters) = default
      BY <2>2, <3>2
    <3>5. callsBy(data, id, parameters, 2) = [i \in 1..1 |-> default]
      BY <3>2, <3>3, <3>4
    <3>6. [i \in 1..1 |-> default] = <<default>>
      OBVIOUS
    <3>7. getByCalls(defaultLanguage, id, parameters, 2) = callsBy(data, id, parameters, 2)
      BY <2>1, <2>2 DEF getByCalls
    <3> QED
      BY <3>5, <3>6, <3>7
  <2> QED
    BY <2>3, <2>4, <2>5 DEF id
<1> QED
  BY <1>1, FirstIsDefaultInvariant, TextsAreOfLinesInvariant, TextsAreLanguages,
     LanguagesInvariant, PTL
-----------------------------------------------------------------------------
(* What the loop of preprocess() makes of a line from each place on        *)
Char(s, i) == IF i <= Len(s) THEN s[i] ELSE NUL

IsOctal(s, i) == i + 3 <= Len(s) /\ \A j \in 1..3 : Char(s, i + j) \in Digits

StrokeOf(s, i) ==
  CASE Char(s, i) = PERCENT ->
         IF Char(s, i + 1) = PERCENT THEN <<PERCENT>> ELSE <<parameterMarkerChar>>
    [] Char(s, i) = BACKSLASH ->
         IF IsOctal(s, i) THEN <<Octal(SubSeq(s, i + 1, i + 3))>>
         ELSE Substituted(Char(s, i + 1))
    [] OTHER -> <<Char(s, i)>>

StrokeEnds(s, i) ==
  CASE Char(s, i) = PERCENT -> IF Char(s, i + 1) = PERCENT THEN 2 ELSE 1
    [] Char(s, i) = BACKSLASH -> IF IsOctal(s, i) THEN 4 ELSE 2
    [] OTHER -> 1

Strokes(data) ==
  LET n == Len(data)
      at(i) == IF i <= n THEN data[i] ELSE NUL
      from[i \in 1..(n + 4)] ==
        CASE i > n -> <<>>
          [] at(i) = PERCENT ->
               IF at(i + 1) = PERCENT THEN <<PERCENT>> \o from[i + 2]
               ELSE <<parameterMarkerChar>> \o from[i + 1]
          [] at(i) = BACKSLASH ->
               IF i + 3 <= n /\ \A j \in 1..3 : at(i + j) \in Digits
               THEN <<Octal(SubSeq(data, i + 1, i + 3))>> \o from[i + 4]
               ELSE Substituted(at(i + 1)) \o from[i + 2]
          [] OTHER -> <<at(i)>> \o from[i + 1]
  IN from

LEMMA PreprocessIs == \A line : preprocess(line) = Strokes(Trimmed(line))[1]
BY DEF preprocess, Strokes

LEMMA StrokeIs ==
  ASSUME NEW s \in Seq(Nat), NEW i \in 1..Len(s)
  PROVE  StrokeOf(s, i) \in Seq(Nat) /\ StrokeEnds(s, i) \in 1..4
<1>1. Char(s, i) \in Nat /\ Char(s, i + 1) \in Nat
  BY DEF Char, NUL
<1>2. ASSUME IsOctal(s, i)
      PROVE  Octal(SubSeq(s, i + 1, i + 3)) \in Nat
  <2> DEFINE digits == SubSeq(s, i + 1, i + 3)
             d == [j \in 1..3 |-> digits[j] - 48]
             value == CASE d[1] > 7 -> 0
                        [] d[1] <= 7 /\ d[2] > 7 -> d[1]
                        [] d[1] <= 7 /\ d[2] <= 7 /\ d[3] > 7 -> 8 * d[1] + d[2]
                        [] OTHER -> 64 * d[1] + 8 * d[2] + d[3]
  <2>1. \A j \in 1..3 : digits[j] \in 48..57
    <3>1. i + 3 <= Len(s) /\ \A j \in 1..3 : s[i + j] \in 48..57
      <4>1. \A j \in 1..3 : i + j <= Len(s)
        BY <1>2 DEF IsOctal
      <4> QED
        BY <1>2, <4>1 DEF IsOctal, Char, Digits
    <3>2. \A j \in 1..3 : digits[j] = s[i + j]
      <4> TAKE j \in 1..3
      <4>1. i + 3 \in Nat /\ i + 1 \in Nat /\ i + 3 <= Len(s)
        BY <3>1
      <4>2. digits[j] = s[(i + 1) + j - 1]
        BY <4>1
      <4>3. (i + 1) + j - 1 = i + j
        OBVIOUS
      <4> QED
        BY ONLY <4>2, <4>3
    <3> QED
      BY <3>1, <3>2
  <2> HIDE DEF digits
  <2>2. d[1] \in Nat /\ d[2] \in Nat /\ d[3] \in Nat
    <3>1. digits[1] \in 48..57 /\ digits[2] \in 48..57 /\ digits[3] \in 48..57
      BY <2>1
    <3>2. d[1] = digits[1] - 48 /\ d[2] = digits[2] - 48 /\ d[3] = digits[3] - 48
      OBVIOUS
    <3>3. \A x \in 48..57 : x - 48 \in Nat
      OBVIOUS
    <3> HIDE DEF d
    <3> QED
      BY ONLY <3>1, <3>2, <3>3
  <2>3. Octal(digits) = IF value < 256 THEN value ELSE NUL
    BY DEF Octal
  <2> HIDE DEF d
  <2>4. value \in Nat
    <3>1. ASSUME NEW a \in Nat, NEW b \in Nat, NEW c \in Nat
          PROVE  (CASE a > 7 -> 0
                    [] a <= 7 /\ b > 7 -> a
                    [] a <= 7 /\ b <= 7 /\ c > 7 -> 8 * a + b
                    [] OTHER -> 64 * a + 8 * b + c) \in Nat
      <4>1. CASE a > 7
        BY <4>1
      <4>2. CASE a <= 7 /\ b > 7
        BY <4>2
      <4>3. CASE a <= 7 /\ b <= 7 /\ c > 7
        BY <4>3, SMTT(30)
      <4>4. CASE a <= 7 /\ b <= 7 /\ c <= 7
        BY <4>4, SMTT(30)
      <4> QED
        BY <4>1, <4>2, <4>3, <4>4, SMTT(30)
    <3> QED
      BY <2>2, <3>1
  <2> HIDE DEF value
  <2>5. Octal(digits) \in Nat
    BY <2>3, <2>4 DEF NUL
  <2> QED
    BY <2>5 DEF digits
<1>3. \A c : Substituted(c) \in Seq(Nat)
  <2> TAKE c
  <2>1. CASE \E t \in substitutionMap : t[1] = c
    <3>1. \A t \in substitutionMap : t[2] \in Nat
      BY DEF substitutionMap, newLineMarkerChar, NEL, BACKSLASH
    <3> DEFINE t == CHOOSE t \in substitutionMap : t[1] = c
    <3>2. t \in substitutionMap
      BY <2>1
    <3>3. Substituted(c) = <<t[2]>>
      BY <2>1 DEF Substituted
    <3> HIDE DEF t
    <3>4. t[2] \in Nat
      BY <3>1, <3>2
    <3> QED
      BY <3>3, <3>4
  <2>2. CASE ~\E t \in substitutionMap : t[1] = c
    BY <2>2 DEF Substituted
  <2> QED
    BY <2>1, <2>2
<1>4. StrokeOf(s, i) \in Seq(Nat)
  <2>1. CASE Char(s, i) = PERCENT
    <3>1. StrokeOf(s, i) \in {<<PERCENT>>, <<parameterMarkerChar>>}
      BY <2>1 DEF StrokeOf, PERCENT, BACKSLASH
    <3> QED
      <4>1. PERCENT \in Nat /\ parameterMarkerChar \in Nat
        BY DEF PERCENT, parameterMarkerChar, NUL
      <4>2. <<PERCENT>> \in Seq(Nat) /\ <<parameterMarkerChar>> \in Seq(Nat)
        BY <4>1
      <4> QED
        BY <3>1, <4>2
  <2>2. CASE Char(s, i) = BACKSLASH
    <3>1. Char(s, i) # PERCENT
      BY <2>2 DEF PERCENT, BACKSLASH
    <3>2. StrokeOf(s, i) = IF IsOctal(s, i) THEN <<Octal(SubSeq(s, i + 1, i + 3))>>
                           ELSE Substituted(Char(s, i + 1))
      BY <2>2, <3>1 DEF StrokeOf
    <3>3. IsOctal(s, i) => <<Octal(SubSeq(s, i + 1, i + 3))>> \in Seq(Nat)
      BY <1>2
    <3> QED
      BY <1>3, <3>2, <3>3
  <2>3. CASE Char(s, i) \notin {PERCENT, BACKSLASH}
    BY <1>1, <2>3 DEF StrokeOf
  <2> QED
    BY <2>1, <2>2, <2>3
<1>5. StrokeEnds(s, i) \in 1..4
  BY DEF StrokeEnds
<1> QED
  BY <1>4, <1>5

LEMMA StrokesAre ==
  ASSUME NEW s \in Seq(Nat)
  PROVE  /\ \A i \in 1..(Len(s) + 4) : Strokes(s)[i] \in Seq(Nat)
         /\ \A i \in (Len(s) + 1)..(Len(s) + 4) : Strokes(s)[i] = <<>>
         /\ \A i \in 1..Len(s) :
              Strokes(s)[i] = StrokeOf(s, i) \o Strokes(s)[i + StrokeEnds(s, i)]
<1> DEFINE n == Len(s)
           X == Seq(Nat)
           jump == [i \in 1..n |-> StrokeEnds(s, i)]
           step == [x \in (1..n) \X X |-> StrokeOf(s, x[1]) \o x[2]]
           Is(f) == f = [i \in 1..(n + 4) |->
             CASE i > n -> <<>>
               [] Char(s, i) = PERCENT ->
                    IF Char(s, i + 1) = PERCENT THEN <<PERCENT>> \o f[i + 2]
                    ELSE <<parameterMarkerChar>> \o f[i + 1]
               [] Char(s, i) = BACKSLASH ->
                    IF IsOctal(s, i)
                    THEN <<Octal(SubSeq(s, i + 1, i + 3))>> \o f[i + 4]
                    ELSE Substituted(Char(s, i + 1)) \o f[i + 2]
               [] OTHER -> <<Char(s, i)>> \o f[i + 1]]
<1>1. n \in Nat /\ <<>> \in X /\ 4 \in Nat \ {0}
  OBVIOUS
<1>2. Strokes(s) = CHOOSE f : Is(f)
  BY DEF Strokes, Char, IsOctal
<1>3. jump \in [1..n -> 1..4] /\ step \in [(1..n) \X X -> X]
  <2>1. \A i \in 1..n : StrokeEnds(s, i) \in 1..4 /\ StrokeOf(s, i) \in X
    BY StrokeIs
  <2>2. \A x \in (1..n) \X X : StrokeOf(s, x[1]) \o x[2] \in X
    BY <2>1
  <2> QED
    BY <2>1, <2>2
<1>4. ASSUME NEW f, NEW i \in 1..n
      PROVE  (CASE i > n -> <<>>
                [] Char(s, i) = PERCENT ->
                     IF Char(s, i + 1) = PERCENT THEN <<PERCENT>> \o f[i + 2]
                     ELSE <<parameterMarkerChar>> \o f[i + 1]
                [] Char(s, i) = BACKSLASH ->
                     IF IsOctal(s, i)
                     THEN <<Octal(SubSeq(s, i + 1, i + 3))>> \o f[i + 4]
                     ELSE Substituted(Char(s, i + 1)) \o f[i + 2]
                [] OTHER -> <<Char(s, i)>> \o f[i + 1])
             = StrokeOf(s, i) \o f[i + StrokeEnds(s, i)]
  <2>1. ~(i > n)
    BY <1>1
  <2>2. CASE Char(s, i) = PERCENT
    <3>1. CASE Char(s, i + 1) = PERCENT
      BY <2>1, <2>2, <3>1, SMTT(30) DEF StrokeOf, StrokeEnds, PERCENT, BACKSLASH
    <3>2. CASE Char(s, i + 1) # PERCENT
      BY <2>1, <2>2, <3>2, SMTT(30) DEF StrokeOf, StrokeEnds, PERCENT, BACKSLASH
    <3> QED
      BY <3>1, <3>2
  <2>3. CASE Char(s, i) = BACKSLASH
    <3>1. Char(s, i) # PERCENT
      BY <2>3 DEF PERCENT, BACKSLASH
    <3> QED
      BY <2>1, <2>3, <3>1 DEF StrokeOf, StrokeEnds
  <2>4. CASE Char(s, i) \notin {PERCENT, BACKSLASH}
    BY <2>1, <2>4 DEF StrokeOf, StrokeEnds
  <2> QED
    BY <2>2, <2>3, <2>4
<1>5. Is(Strokes(s))
  <2>1. PICK f \in [1..(n + 4) -> X] : Backward(f, n, 4, <<>>, step, jump)
    <3> HIDE DEF step, jump, X, n
    <3> QED
      BY <1>1, <1>3, BackwardRuns
  <2>2. \A i \in 1..n : f[i] = StrokeOf(s, i) \o f[i + StrokeEnds(s, i)]
    <3> TAKE i \in 1..n
    <3>1. StrokeEnds(s, i) \in 1..4 /\ i + StrokeEnds(s, i) \in 1..(n + 4) /\ ~(i > n)
      BY StrokeIs
    <3> DEFINE k == i + jump[i]
    <3>2. f[i] = step[<<i, f[k]>>]
      <4>1. \A j \in 1..(n + 4) : f[j] = IF j > n THEN <<>> ELSE step[<<j, f[j + jump[j]]>>]
        <5> HIDE DEF step, jump, X, n
        <5> QED
          BY <2>1 DEF Backward
      <4> HIDE DEF step, jump, X
      <4> QED
        BY <3>1, <4>1
    <3>3. k = i + StrokeEnds(s, i) /\ f[k] \in X
      BY <3>1
    <3> HIDE DEF k
    <3>4. step[<<i, f[k]>>] = StrokeOf(s, i) \o f[k]
      BY <3>3
    <3> QED
      BY <3>2, <3>3, <3>4
  <2>3. \A i \in 1..(n + 4) : i > n => f[i] = <<>>
    BY <2>1 DEF Backward
  <2>4. Is(f)
    <3> DEFINE A(i) == CASE i > n -> <<>>
                [] Char(s, i) = PERCENT ->
                     IF Char(s, i + 1) = PERCENT THEN <<PERCENT>> \o f[i + 2]
                     ELSE <<parameterMarkerChar>> \o f[i + 1]
                [] Char(s, i) = BACKSLASH ->
                     IF IsOctal(s, i)
                     THEN <<Octal(SubSeq(s, i + 1, i + 3))>> \o f[i + 4]
                     ELSE Substituted(Char(s, i + 1)) \o f[i + 2]
                [] OTHER -> <<Char(s, i)>> \o f[i + 1]
    <3>1. \A i \in 1..n : A(i) = f[i]
      BY <1>4, <2>2
    <3>2. \A i \in 1..(n + 4) : i > n => A(i) = f[i]
      <4> TAKE i \in 1..(n + 4)
      <4> SUFFICES ASSUME i > n PROVE A(i) = f[i]
        OBVIOUS
      <4>1. Char(s, i) # PERCENT /\ Char(s, i) # BACKSLASH
        <5>1. ~(i <= n)
          BY <1>1
        <5> QED
          BY <5>1 DEF Char, NUL, PERCENT, BACKSLASH
      <4>2. A(i) = <<>>
        BY <4>1
      <4> HIDE DEF A
      <4> QED
        BY <2>3, <4>2
    <3> HIDE DEF A
    <3>3. f = [i \in 1..(n + 4) |-> A(i)]
      BY <1>1, <3>1, <3>2
    <3> QED
      BY <3>3 DEF A
  <2> HIDE DEF Is
  <2> QED
    BY <1>2, <2>4
<1> DEFINE f == Strokes(s)
<1>6. \A i \in (n + 1)..(n + 4) : f[i] = <<>>
  <2> TAKE i \in (n + 1)..(n + 4)
  <2>1. i \in 1..(n + 4) /\ i > n
    BY <1>1
  <2> HIDE DEF f, n
  <2>2. Char(s, i) # PERCENT /\ Char(s, i) # BACKSLASH
    <3>1. ~(i <= Len(s))
      BY <1>1, <2>1 DEF n
    <3> QED
      BY <3>1 DEF Char, NUL, PERCENT, BACKSLASH
  <2> QED
    BY <1>5, <2>1, <2>2 DEF f
<1>7. \A i \in 1..n : f[i] = StrokeOf(s, i) \o f[i + StrokeEnds(s, i)]
  <2> TAKE i \in 1..n
  <2>1. i \in 1..(n + 4)
    BY <1>1
  <2> HIDE DEF f, n
  <2> QED
    BY <1>4, <1>5, <2>1 DEF f
<1>8. \A i \in 1..(n + 4) : f[i] \in X
  <2> DEFINE T == {i \in 1..(n + 4) : f[i] \in X}
  <2> HIDE DEF f
  <2>1. ASSUME NEW i \in 1..(n + 4), \A j \in (i + 1)..(n + 4) : j \in T
        PROVE  i \in T
    <3>1. CASE i > n
      <4>1. i \in (n + 1)..(n + 4)
        BY <1>1, <3>1
      <4>2. f[i] = <<>>
        BY <1>6, <4>1
      <4> HIDE DEF X, n
      <4> QED
        BY <1>1, <4>2
    <3>2. CASE i \in 1..n
      <4>1. StrokeOf(s, i) \in X /\ StrokeEnds(s, i) \in 1..4
        BY <3>2, StrokeIs
      <4> DEFINE k == i + StrokeEnds(s, i)
      <4>2. k \in (i + 1)..(n + 4)
        BY <1>1, <3>2, <4>1
      <4>3. f[i] = StrokeOf(s, i) \o f[k]
        BY <1>7, <3>2
      <4> HIDE DEF k
      <4>4. f[k] \in X
        BY <2>1, <4>2
      <4>5. StrokeOf(s, i) \o f[k] \in X
        BY <4>1, <4>4
      <4> HIDE DEF X
      <4> QED
        BY <4>3, <4>5
    <3> QED
      BY <1>1, <3>1, <3>2
  <2> HIDE DEF T
  <2>2. 1..(n + 4) \subseteq T
    <3>1. n + 4 \in Nat
      BY <1>1
    <3> QED
      BY <2>1, <3>1, FromTheEnd
  <2> QED
    BY <2>2 DEF T
<1> QED
  BY <1>6, <1>7, <1>8

(* A character of two parts is of the one or the other.                    *)
LEMMA CharOfConcat ==
  ASSUME NEW u \in Seq(Nat), NEW z \in Seq(Nat)
  PROVE  /\ \A i \in 1..Len(u) : Char(u \o z, i) = u[i] /\ Char(u, i) = u[i]
         /\ \A i \in Nat \ {0} : Char(u \o z, Len(u) + i) = Char(z, i)
<1> DEFINE t == u \o z
<1>1. /\ t \in Seq(Nat) /\ Len(t) = Len(u) + Len(z) /\ Len(u) \in Nat /\ Len(z) \in Nat
      /\ \A i \in 1..Len(u) : t[i] = u[i]
      /\ \A i \in 1..Len(z) : t[Len(u) + i] = z[i]
  OBVIOUS
<1> HIDE DEF t
<1>2. \A i \in 1..Len(u) : Char(t, i) = u[i] /\ Char(u, i) = u[i]
  <2> TAKE i \in 1..Len(u)
  <2>1. i <= Len(u) /\ i <= Len(t)
    BY <1>1
  <2> QED
    BY <1>1, <2>1 DEF Char
<1>3. \A i \in Nat \ {0} : Char(t, Len(u) + i) = Char(z, i)
  <2> TAKE i \in Nat \ {0}
  <2>1. CASE i <= Len(z)
    <3>1. Len(u) + i <= Len(t) /\ i \in 1..Len(z)
      BY <1>1, <2>1
    <3> QED
      BY <1>1, <2>1, <3>1 DEF Char
  <2>2. CASE ~(i <= Len(z))
    <3>1. ~(Len(u) + i <= Len(t))
      BY <1>1, <2>2
    <3> QED
      BY <2>2, <3>1 DEF Char
  <2> QED
    BY <2>1, <2>2
<1> QED
  BY <1>2, <1>3 DEF t

LEMMA StrokeBehind ==
  ASSUME NEW u \in Seq(Nat), NEW z \in Seq(Nat), NEW i \in 1..Len(z)
  PROVE  /\ StrokeOf(u \o z, Len(u) + i) = StrokeOf(z, i)
         /\ StrokeEnds(u \o z, Len(u) + i) = StrokeEnds(z, i)
<1> DEFINE t == u \o z
           n == Len(u)
<1>1. n \in Nat /\ Len(z) \in Nat /\ Len(t) = n + Len(z)
  OBVIOUS
<1>2. /\ Char(t, n + i) = Char(z, i) /\ Char(t, (n + i) + 1) = Char(z, i + 1)
      /\ \A j \in 1..3 : Char(t, (n + i) + j) = Char(z, i + j)
  <2>1. \A j \in 0..3 : (n + i) + j = n + (i + j) /\ i + j \in Nat \ {0}
    BY <1>1
  <2>2. \A j \in 0..3 : Char(t, (n + i) + j) = Char(z, i + j)
    BY <2>1, CharOfConcat
  <2>3. (n + i) + 0 = n + i /\ i + 0 = i
    BY <1>1
  <2> QED
    BY <2>2, <2>3
<1>3. IsOctal(t, n + i) <=> IsOctal(z, i)
  <2>1. (n + i) + 3 <= Len(t) <=> i + 3 <= Len(z)
    BY <1>1
  <2> HIDE DEF t, n
  <2> QED
    BY <1>2, <2>1 DEF IsOctal
<1>4. IsOctal(z, i) => SubSeq(t, (n + i) + 1, (n + i) + 3) = SubSeq(z, i + 1, i + 3)
  <2> SUFFICES ASSUME IsOctal(z, i)
               PROVE  SubSeq(t, (n + i) + 1, (n + i) + 3) = SubSeq(z, i + 1, i + 3)
    OBVIOUS
  <2>1. i + 3 <= Len(z) /\ i + 1 \in Nat \ {0} /\ (i + 1) + 2 = i + 3
    BY DEF IsOctal
  <2>2. SubSeq(t, n + (i + 1), n + ((i + 1) + 2)) = SubSeq(z, i + 1, (i + 1) + 2)
    BY <2>1, SubSeqOfConcat
  <2>3. n + (i + 1) = (n + i) + 1 /\ n + ((i + 1) + 2) = (n + i) + 3
    BY <1>1
  <2> HIDE DEF t, n
  <2> QED
    BY <2>1, <2>2, <2>3
<1> HIDE DEF t, n
<1> QED
  BY <1>2, <1>3, <1>4 DEF StrokeOf, StrokeEnds, t, n

LEMMA StrokeBefore ==
  ASSUME NEW u \in Seq(Nat), NEW z \in Seq(Nat), NEW i \in 1..Len(u),
         \/ u[i] \notin {PERCENT, BACKSLASH}
         \/ u[i] = PERCENT /\ i < Len(u)
         \/ u[i] = BACKSLASH /\ i < Len(u) /\ u[i + 1] \notin Digits
         \/ u[i] = BACKSLASH /\ i + 3 <= Len(u) /\ \A j \in 1..3 : u[i + j] \in Digits
  PROVE  StrokeOf(u \o z, i) = StrokeOf(u, i) /\ StrokeEnds(u \o z, i) = StrokeEnds(u, i)
<1> DEFINE t == u \o z
           n == Len(u)
<1>1. n \in Nat /\ Len(z) \in Nat /\ Len(t) = n + Len(z)
  OBVIOUS
<1>2. \A j \in 1..n : Char(t, j) = u[j] /\ Char(u, j) = u[j]
  BY CharOfConcat
<1>3. Char(t, i) = u[i] /\ Char(u, i) = u[i]
  BY <1>2
<1>4. CASE u[i] \notin {PERCENT, BACKSLASH}
  <2> HIDE DEF t
  <2>1. StrokeOf(t, i) = StrokeOf(u, i) /\ StrokeEnds(t, i) = StrokeEnds(u, i)
    BY <1>3, <1>4 DEF StrokeOf, StrokeEnds
  <2> QED
    BY <2>1 DEF t
<1>5. CASE i < n
  <2>1. Char(t, i + 1) = u[i + 1] /\ Char(u, i + 1) = u[i + 1]
    <3>1. i + 1 \in 1..n
      BY <1>1, <1>5
    <3> QED
      BY <1>2, <3>1
  <2>2. u[i] = BACKSLASH => (IsOctal(t, i) <=> IsOctal(u, i))
    <3> SUFFICES ASSUME u[i] = BACKSLASH
                 PROVE  IsOctal(t, i) <=> IsOctal(u, i)
      OBVIOUS
    <3>1. u[i] # PERCENT
      BY DEF PERCENT, BACKSLASH
    <3>2. CASE u[i + 1] \notin Digits
      <4>1. 1 \in 1..3
        OBVIOUS
      <4> HIDE DEF t
      <4> QED
        BY <2>1, <3>2, <4>1 DEF IsOctal
    <3>3. CASE i + 3 <= n /\ \A j \in 1..3 : u[i + j] \in Digits
      <4>1. \A j \in 1..3 : i + j \in 1..n
        BY <1>1, <3>3
      <4>2. \A j \in 1..3 : Char(t, i + j) = u[i + j] /\ Char(u, i + j) = u[i + j]
        BY <1>2, <4>1
      <4>3. i + 3 <= Len(t)
        BY <1>1, <3>3
      <4> HIDE DEF t
      <4> QED
        BY <3>3, <4>2, <4>3 DEF IsOctal
    <3> QED
      BY <3>1, <3>2, <3>3
  <2>3. IsOctal(u, i) => SubSeq(t, i + 1, i + 3) = SubSeq(u, i + 1, i + 3)
    <3> SUFFICES ASSUME IsOctal(u, i)
                 PROVE  SubSeq(t, i + 1, i + 3) = SubSeq(u, i + 1, i + 3)
      OBVIOUS
    <3>1. i + 3 <= Len(u) /\ i + 1 \in Nat \ {0} /\ (i + 1) + 2 = i + 3
      BY DEF IsOctal
    <3>2. SubSeq(t, i + 1, (i + 1) + 2) = SubSeq(u, i + 1, (i + 1) + 2)
      BY <3>1, SubSeqOfConcat
    <3> HIDE DEF t, n
    <3> QED
      BY <3>1, <3>2
  <2> HIDE DEF t, n
  <2>4. CASE u[i] = PERCENT
    <3>1. u[i] # BACKSLASH
      BY <2>4 DEF PERCENT, BACKSLASH
    <3> QED
      BY <1>3, <2>1, <2>4, <3>1 DEF StrokeOf, StrokeEnds, t
  <2>5. CASE u[i] = BACKSLASH
    <3>1. u[i] # PERCENT
      BY <2>5 DEF PERCENT, BACKSLASH
    <3> QED
      BY <1>3, <2>1, <2>2, <2>3, <2>5, <3>1 DEF StrokeOf, StrokeEnds, t
  <2> QED
    BY <1>4, <2>4, <2>5
<1>6. u[i] = BACKSLASH /\ i + 3 <= n => i < n
  BY <1>1
<1> QED
  BY <1>4, <1>5, <1>6

(* A line is read as its parts are, if the first ends a round.             *)
LEMMA StrokesOfConcat ==
  ASSUME NEW u \in Seq(Nat), NEW z \in Seq(Nat), EndsARound(u)
  PROVE  Strokes(u \o z)[1] = Strokes(u)[1] \o Strokes(z)[1]
<1> DEFINE t == u \o z
           n == Len(u)
           f == Strokes(t)
           g == Strokes(u)
           h == Strokes(z)
<1>1. n \in Nat /\ Len(z) \in Nat /\ Len(t) = n + Len(z) /\ t \in Seq(Nat)
  OBVIOUS
<1>2. /\ \A i \in 1..(n + 4) : g[i] \in Seq(Nat)
      /\ \A i \in (n + 1)..(n + 4) : g[i] = <<>>
      /\ \A i \in 1..n : g[i] = StrokeOf(u, i) \o g[i + StrokeEnds(u, i)]
  BY StrokesAre
<1>3. /\ \A i \in 1..(Len(z) + 4) : h[i] \in Seq(Nat)
      /\ \A i \in (Len(z) + 1)..(Len(z) + 4) : h[i] = <<>>
      /\ \A i \in 1..Len(z) : h[i] = StrokeOf(z, i) \o h[i + StrokeEnds(z, i)]
  BY StrokesAre
<1>4. /\ \A i \in (Len(t) + 1)..(Len(t) + 4) : f[i] = <<>>
      /\ \A i \in 1..Len(t) : f[i] = StrokeOf(t, i) \o f[i + StrokeEnds(t, i)]
  <2> HIDE DEF t
  <2> QED
    BY <1>1, StrokesAre
<1>5. f[n + 1] = h[1]
  <2> DEFINE l == Len(z)
             S == {i \in 1..(l + 4) : f[n + i] = h[i]}
  <2>1. ASSUME NEW i \in 1..(l + 4), \A j \in (i + 1)..(l + 4) : j \in S
        PROVE  i \in S
    <3>1. CASE i > l
      <4>1. n + i \in (Len(t) + 1)..(Len(t) + 4) /\ i \in (l + 1)..(l + 4)
        BY <1>1, <3>1
      <4>2. f[n + i] = <<>> /\ h[i] = <<>>
        <5> HIDE DEF f, h, t, n
        <5> QED
          BY <1>3, <1>4, <4>1
      <4> HIDE DEF f, h, n
      <4> QED
        BY <4>2
    <3>2. CASE i \in 1..l
      <4> DEFINE k == StrokeEnds(z, i)
      <4>1. k \in 1..4 /\ n + i \in 1..Len(t)
        BY <1>1, <3>2, StrokeIs
      <4>2. StrokeOf(t, n + i) = StrokeOf(z, i) /\ StrokeEnds(t, n + i) = k
        BY <3>2, StrokeBehind
      <4>3. i + k \in (i + 1)..(l + 4) /\ (n + i) + k = n + (i + k)
        <5> HIDE DEF k
        <5> QED
          BY <1>1, <3>2, <4>1
      <4> HIDE DEF f, h, t, n, k
      <4>4. f[n + (i + k)] = h[i + k]
        BY <2>1, <4>3
      <4>5. f[n + i] = StrokeOf(z, i) \o f[n + (i + k)]
        BY <1>4, <4>1, <4>2, <4>3
      <4>6. h[i] = StrokeOf(z, i) \o h[i + k]
        BY <1>3, <3>2 DEF k
      <4> QED
        BY <4>4, <4>5, <4>6
    <3> QED
      BY <1>1, <3>1, <3>2
  <2>2. 1..(l + 4) \subseteq S
    <3>1. l + 4 \in Nat
      BY <1>1
    <3> HIDE DEF S, l
    <3> QED
      BY <2>1, <3>1, FromTheEnd
  <2>3. 1 \in 1..(l + 4)
    BY <1>1
  <2> QED
    BY <2>2, <2>3
<1>6. PICK begins \in SUBSET (1..(n + 1)) :
        /\ {1, n + 1} \subseteq begins
        /\ \A i \in begins \ {n + 1} :
             \/ u[i] \notin {PERCENT, BACKSLASH} /\ i + 1 \in begins
             \/ /\ u[i] = PERCENT /\ i < n
                /\ (i + IF u[i + 1] = PERCENT THEN 2 ELSE 1) \in begins
             \/ u[i] = BACKSLASH /\ i < n /\ u[i + 1] \notin Digits /\ i + 2 \in begins
             \/ /\ u[i] = BACKSLASH /\ i + 3 <= n
                /\ \A j \in 1..3 : u[i + j] \in Digits
                /\ i + 4 \in begins
  BY DEF EndsARound
<1> DEFINE P == begins
           chunk == [i \in P \ {n + 1} |-> StrokeOf(u, i)]
           jump == [i \in P \ {n + 1} |-> StrokeEnds(u, i)]
<1>7. ASSUME NEW i \in P \ {n + 1}
      PROVE  /\ i \in 1..n
             /\ StrokeOf(t, i) = StrokeOf(u, i) /\ StrokeEnds(t, i) = StrokeEnds(u, i)
             /\ i + StrokeEnds(u, i) \in P
  <2>1. i \in 1..n
    BY <1>1
  <2>2. StrokeOf(t, i) = StrokeOf(u, i) /\ StrokeEnds(t, i) = StrokeEnds(u, i)
    BY <1>6, <2>1, StrokeBefore
  <2>3. Char(u, i) = u[i] /\ \A j \in 1..n : Char(u, j) = u[j]
    BY <2>1, CharOfConcat
  <2>4. i + StrokeEnds(u, i) \in P
    <3>1. CASE u[i] \notin {PERCENT, BACKSLASH}
      BY <1>6, <2>3, <3>1 DEF StrokeEnds
    <3>2. CASE u[i] = PERCENT
      <4>1. u[i] # BACKSLASH /\ i < n /\ (i + IF u[i + 1] = PERCENT THEN 2 ELSE 1) \in P
        <5>1. u[i] # BACKSLASH
          BY <3>2 DEF PERCENT, BACKSLASH
        <5> QED
          BY <1>6, <3>2, <5>1
      <4>2. Char(u, i + 1) = u[i + 1]
        <5>1. i + 1 \in 1..n
          BY <1>1, <2>1, <4>1
        <5> QED
          BY <2>3, <5>1
      <4>3. StrokeEnds(u, i) = IF u[i + 1] = PERCENT THEN 2 ELSE 1
        BY <2>3, <3>2, <4>1, <4>2 DEF StrokeEnds
      <4> QED
        BY <4>1, <4>3
    <3>3. CASE u[i] = BACKSLASH
      <4>1. u[i] # PERCENT
        BY <3>3 DEF PERCENT, BACKSLASH
      <4>2. CASE i < n /\ u[i + 1] \notin Digits /\ i + 2 \in P
        <5>1. Char(u, i + 1) = u[i + 1]
          <6>1. i + 1 \in 1..n
            BY <1>1, <2>1, <4>2
          <6> QED
            BY <2>3, <6>1
        <5>2. ~IsOctal(u, i)
          <6>1. 1 \in 1..3
            OBVIOUS
          <6> QED
            BY <4>2, <5>1, <6>1 DEF IsOctal
        <5> QED
          BY <2>3, <3>3, <4>1, <4>2, <5>2 DEF StrokeEnds
      <4>3. CASE i + 3 <= n /\ (\A j \in 1..3 : u[i + j] \in Digits) /\ i + 4 \in P
        <5>1. \A j \in 1..3 : i + j \in 1..n
          BY <1>1, <2>1, <4>3
        <5>2. IsOctal(u, i)
          BY <2>3, <4>3, <5>1 DEF IsOctal
        <5> QED
          BY <2>3, <3>3, <4>1, <4>3, <5>2 DEF StrokeEnds
      <4> QED
        BY <1>6, <3>3, <4>1, <4>2, <4>3
    <3> QED
      BY <3>1, <3>2, <3>3
  <2> QED
    BY <2>1, <2>2, <2>4
<1>8. \A i \in P : g[i] \in Seq(Nat) /\ f[i] = TwoParts(g[i], f[n + 1])
  <2>1. chunk \in [P \ {n + 1} -> Seq(Nat)] /\ jump \in [P \ {n + 1} -> Nat \ {0}]
    <3>1. \A i \in P \ {n + 1} : StrokeOf(u, i) \in Seq(Nat) /\ StrokeEnds(u, i) \in Nat \ {0}
      <4> TAKE i \in P \ {n + 1}
      <4>1. StrokeOf(u, i) \in Seq(Nat) /\ StrokeEnds(u, i) \in 1..4
        BY <1>7, StrokeIs
      <4> QED
        BY <4>1
    <3> QED
      BY <3>1
  <2>2. g[n + 1] = <<>> /\ f[n + 1] \in Seq(Nat)
    <3>1. n + 1 \in (n + 1)..(n + 4) /\ 1 \in 1..(Len(z) + 4)
      BY <1>1
    <3> HIDE DEF f, g, h, n
    <3> QED
      BY <1>2, <1>3, <1>5, <3>1
  <2>3. ASSUME NEW i \in P \ {n + 1}
        PROVE  /\ i + jump[i] \in P
               /\ f[i] = chunk[i] \o f[i + jump[i]]
               /\ g[i] = chunk[i] \o g[i + jump[i]]
    <3>1. i \in 1..Len(t) /\ i \in 1..n
      BY <1>1, <1>7
    <3>2. chunk[i] = StrokeOf(u, i) /\ jump[i] = StrokeEnds(u, i)
      OBVIOUS
    <3>3. /\ StrokeOf(t, i) = StrokeOf(u, i) /\ StrokeEnds(t, i) = StrokeEnds(u, i)
          /\ i + StrokeEnds(u, i) \in P
      BY <1>7
    <3> HIDE DEF f, g, chunk, jump, t, n
    <3> QED
      BY <1>2, <1>4, <3>1, <3>2, <3>3
  <2>4. P \in SUBSET (1..(n + 1))
    OBVIOUS
  <2>5. n \in Nat
    BY <1>1
  <2> HIDE DEF f, g, chunk, jump, n, P
  <2>6. ReadAlike(Nat, n, P, chunk, jump, f, g)
    BY <2>1, <2>2, <2>3, <2>4, <2>5 DEF ReadAlike
  <2> QED
    BY <2>6, ReadsThePart
<1>9. 1 \in P
  BY <1>6
<1> HIDE DEF f, g, h
<1> QED
  BY <1>5, <1>8, <1>9 DEF f, g, h, TwoParts

(* Lines that end a round make a line that does.                           *)
LEMMA RoundsOfConcat ==
  ASSUME NEW u \in Seq(Nat), NEW z \in Seq(Nat), EndsARound(u), EndsARound(z)
  PROVE  EndsARound(u \o z)
<1> DEFINE t == u \o z
           n == Len(u)
           l == Len(z)
           Round(w, begins, i) ==
             \/ w[i] \notin {PERCENT, BACKSLASH} /\ i + 1 \in begins
             \/ /\ w[i] = PERCENT /\ i < Len(w)
                /\ (i + IF w[i + 1] = PERCENT THEN 2 ELSE 1) \in begins
             \/ w[i] = BACKSLASH /\ i < Len(w) /\ w[i + 1] \notin Digits /\ i + 2 \in begins
             \/ /\ w[i] = BACKSLASH /\ i + 3 <= Len(w)
                /\ \A j \in 1..3 : w[i + j] \in Digits
                /\ i + 4 \in begins
<1>1. /\ n \in Nat /\ l \in Nat /\ Len(t) = n + l
      /\ \A i \in 1..n : t[i] = u[i]
      /\ \A i \in 1..l : t[n + i] = z[i]
  OBVIOUS
<1>2. PICK P \in SUBSET (1..(n + 1)) :
        {1, n + 1} \subseteq P /\ \A i \in P \ {n + 1} : Round(u, P, i)
  BY DEF EndsARound
<1>3. PICK Q \in SUBSET (1..(l + 1)) :
        {1, l + 1} \subseteq Q /\ \A i \in Q \ {l + 1} : Round(z, Q, i)
  BY DEF EndsARound
<1> DEFINE B == P \cup {n + i : i \in Q}
<1> HIDE DEF t, n, l
<1>4. B \in SUBSET (1..(Len(t) + 1)) /\ {1, Len(t) + 1} \subseteq B
  <2>1. \A i \in Q : n + i \in 1..(Len(t) + 1)
    BY <1>1
  <2>2. P \subseteq 1..(Len(t) + 1)
    BY <1>1
  <2>3. n + (l + 1) = Len(t) + 1
    BY <1>1
  <2> QED
    BY <1>2, <1>3, <2>1, <2>2, <2>3
<1>5. ASSUME NEW i \in P \ {n + 1}
      PROVE  Round(t, B, i)
  <2>1. i \in 1..n /\ Round(u, P, i) /\ t[i] = u[i] /\ P \subseteq B
    <3> HIDE DEF Round
    <3>1. i \in 1..n /\ Round(u, P, i)
      BY <1>1, <1>2
    <3> QED
      BY <1>1, <3>1
  <2>2. CASE u[i] \notin {PERCENT, BACKSLASH} /\ i + 1 \in P
    BY <2>1, <2>2
  <2>3. CASE /\ u[i] = PERCENT /\ i < n
             /\ (i + IF u[i + 1] = PERCENT THEN 2 ELSE 1) \in P
    <3>1. i + 1 \in 1..n /\ i < Len(t)
      BY <1>1, <2>1, <2>3, SMTT(30)
    <3>2. t[i + 1] = u[i + 1]
      BY <1>1, <3>1
    <3> QED
      BY <2>1, <2>3, <3>1, <3>2
  <2>4. CASE u[i] = BACKSLASH /\ i < n /\ u[i + 1] \notin Digits /\ i + 2 \in P
    <3>1. i + 1 \in 1..n /\ i < Len(t)
      BY <1>1, <2>1, <2>4, SMTT(30)
    <3>2. t[i + 1] = u[i + 1]
      BY <1>1, <3>1
    <3> QED
      BY <2>1, <2>4, <3>1, <3>2
  <2>5. CASE /\ u[i] = BACKSLASH /\ i + 3 <= n
             /\ \A j \in 1..3 : u[i + j] \in Digits
             /\ i + 4 \in P
    <3>1. (\A j \in 1..3 : i + j \in 1..n) /\ i + 3 <= Len(t)
      <4>1. i \in 1..n /\ i + 3 <= n
        BY <2>1, <2>5
      <4> QED
        BY ONLY <1>1, <4>1
    <3>2. \A j \in 1..3 : t[i + j] = u[i + j]
      BY <1>1, <3>1
    <3> QED
      BY <2>1, <2>5, <3>1, <3>2
  <2> QED
    BY <2>1, <2>2, <2>3, <2>4, <2>5 DEF n
<1>6. ASSUME NEW i \in Q \ {l + 1}
      PROVE  Round(t, B, n + i)
  <2>1. i \in 1..l /\ Round(z, Q, i) /\ t[n + i] = z[i]
    <3> HIDE DEF Round
    <3>1. i \in 1..l /\ Round(z, Q, i)
      BY <1>1, <1>3
    <3> QED
      BY <1>1, <3>1
  <2>2. \A j \in Nat : /\ i + j \in Q => (n + i) + j \in B
                       /\ i + j <= l => t[(n + i) + j] = z[i + j]
                       /\ i + j <= l <=> (n + i) + j <= Len(t)
                       /\ i < l <=> n + i < Len(t)
    <3> TAKE j \in Nat
    <3>1. (n + i) + j = n + (i + j) /\ i + j \in Nat \ {0}
      BY <1>1, <2>1
    <3>2. i + j <= l => i + j \in 1..l
      BY <1>1, <2>1
    <3>3. i + j <= l <=> (n + i) + j <= Len(t)
      BY <1>1, <2>1
    <3>4. i < l <=> n + i < Len(t)
      BY <1>1, <2>1
    <3> QED
      BY <1>1, <3>1, <3>2, <3>3, <3>4
  <2>3. CASE z[i] \notin {PERCENT, BACKSLASH} /\ i + 1 \in Q
    <3>1. (n + i) + 1 \in B
      BY <2>2, <2>3
    <3> HIDE DEF B
    <3> QED
      BY <2>1, <2>3, <3>1
  <2>4. CASE /\ z[i] = PERCENT /\ i < l
             /\ (i + IF z[i + 1] = PERCENT THEN 2 ELSE 1) \in Q
    <3>1. n + i < Len(t) /\ t[(n + i) + 1] = z[i + 1]
      <4>1. i + 1 <= l
        BY <1>1, <2>1, <2>4
      <4> QED
        BY <2>2, <2>4, <4>1
    <3>2. ((n + i) + IF z[i + 1] = PERCENT THEN 2 ELSE 1) \in B
      BY <2>2, <2>4
    <3> HIDE DEF B
    <3> QED
      BY <2>1, <2>4, <3>1, <3>2
  <2>5. CASE z[i] = BACKSLASH /\ i < l /\ z[i + 1] \notin Digits /\ i + 2 \in Q
    <3>1. n + i < Len(t) /\ t[(n + i) + 1] = z[i + 1]
      <4>1. i + 1 <= l
        BY <1>1, <2>1, <2>5
      <4> QED
        BY <2>2, <2>5, <4>1
    <3>2. (n + i) + 2 \in B
      BY <2>2, <2>5
    <3> HIDE DEF B
    <3> QED
      BY <2>1, <2>5, <3>1, <3>2
  <2>6. CASE /\ z[i] = BACKSLASH /\ i + 3 <= l
             /\ \A j \in 1..3 : z[i + j] \in Digits
             /\ i + 4 \in Q
    <3>1. \A j \in 1..3 : j \in Nat /\ i + j <= l
      <4>1. i \in 1..l /\ i + 3 <= l
        BY <2>1, <2>6
      <4> QED
        BY ONLY <1>1, <4>1
    <3>2. \A j \in 1..3 : t[(n + i) + j] = z[i + j] /\ (n + i) + j <= Len(t)
      <4> TAKE j \in 1..3
      <4>1. j \in Nat /\ i + j <= l
        BY <3>1
      <4> QED
        BY ONLY <2>2, <4>1
    <3>4. 3 \in 1..3
      OBVIOUS
    <3>3. (n + i) + 4 \in B
      BY <2>2, <2>6
    <3> HIDE DEF B
    <3> QED
      BY <2>1, <2>6, <3>2, <3>3, <3>4
  <2> QED
    BY <2>1, <2>3, <2>4, <2>5, <2>6 DEF l
<1>7. ASSUME NEW i \in B \ {Len(t) + 1}
      PROVE  Round(t, B, i)
  <2>1. CASE i \in P \ {n + 1}
    BY <1>5, <2>1
  <2>2. CASE i \notin P \ {n + 1}
    <3>1. PICK j \in Q : i = n + j
      BY <1>2, <1>3, <2>2
    <3>2. j # l + 1
      BY <1>1, <3>1
    <3> HIDE DEF Round, B
    <3> QED
      BY <1>6, <3>1, <3>2
  <2> QED
    BY <2>1, <2>2
<1>8. EndsARound(t)
  <2> HIDE DEF B
  <2> QED
    BY <1>4, <1>7 DEF EndsARound
<1> QED
  BY <1>8 DEF t
-----------------------------------------------------------------------------
(* What iconv() makes of octets from each place on, as decoded() says      *)
SequenceAt(b, i) ==
  SubSeq(b, i, IF i + Following(b[i]) <= Len(b) THEN i + Following(b[i]) ELSE Len(b))

LegalAt(b, i) ==
  /\ Following(b[i]) # -1
  /\ \A j \in 2..Len(SequenceAt(b, i)) : SequenceAt(b, i)[j] \in 128..191

ResultAt(b, i) ==
  IF ~LegalAt(b, i) THEN "EILSEQ"
  ELSE IF Len(SequenceAt(b, i)) < Following(b[i]) + 1 THEN "EINVAL"
  ELSE IF CodePoint(SequenceAt(b, i)) < Lowest(Following(b[i])) THEN "EILSEQ"
  ELSE "done"

Decoding(bytes) ==
  LET n == Len(bytes)
      from[i \in 1..(n + 4)] ==
        IF i > n THEN [result |-> "done", text |-> <<>>]
        ELSE LET k == Following(bytes[i])
                 sequence == SubSeq(bytes, i, IF i + k <= n THEN i + k ELSE n)
                 legal == k # -1 /\ \A j \in 2..Len(sequence) : sequence[j] \in 128..191
             IN CASE ~legal -> [result |-> "EILSEQ", text |-> <<>>]
                  [] legal /\ Len(sequence) < k + 1 -> [result |-> "EINVAL", text |-> <<>>]
                  [] legal /\ Len(sequence) = k + 1 /\ CodePoint(sequence) < Lowest(k) ->
                       [result |-> "EILSEQ", text |-> <<>>]
                  [] OTHER ->
                       [from[i + k + 1] EXCEPT !.text = <<CodePoint(sequence)>> \o @]
  IN from

Decodings == [result : {"done", "EILSEQ", "EINVAL"}, text : Seq(Nat)]

LEMMA DecodedIs == \A bytes : decoded(bytes) = Decoding(bytes)[1]
BY DEF decoded, Decoding

LEMMA FollowingIs ==
  ASSUME NEW c \in Nat
  PROVE  /\ Following(c) \in -1..3
         /\ Following(c) = 1 => c >= 194
         /\ Following(c) = 2 => c >= 224
         /\ Following(c) = 3 => c >= 240
BY SMT DEF Following

LEMMA CodePointIs ==
  ASSUME NEW s, Len(s) \in 1..4, \A j \in 1..Len(s) : s[j] \in Nat,
         \A j \in 2..Len(s) : s[j] >= 128,
         Len(s) = 2 => s[1] >= 192, Len(s) = 3 => s[1] >= 224, Len(s) = 4 => s[1] >= 240
  PROVE  CodePoint(s) \in Nat
<1>1. CASE Len(s) = 1
  <2>1. s[1] \in Nat /\ CodePoint(s) = s[1]
    BY SMT, <1>1 DEF CodePoint
  <2> QED
    BY <2>1
<1>2. CASE Len(s) = 2
  <2>1. s[1] - 192 \in Nat /\ s[2] - 128 \in Nat
    BY SMT, <1>2
  <2>2. CodePoint(s) = 64 * (s[1] - 192) + (s[2] - 128)
    BY SMT, <1>2 DEF CodePoint
  <2> QED
    BY ONLY SMT, <2>1, <2>2
<1>3. CASE Len(s) = 3
  <2>1. s[1] - 224 \in Nat /\ s[2] - 128 \in Nat /\ s[3] - 128 \in Nat
    BY SMT, <1>3
  <2>2. CodePoint(s) = 4096 * (s[1] - 224) + 64 * (s[2] - 128) + (s[3] - 128)
    BY SMT, <1>3 DEF CodePoint
  <2> QED
    BY ONLY SMT, <2>1, <2>2
<1>4. CASE Len(s) = 4
  <2>1. s[1] - 240 \in Nat /\ s[2] - 128 \in Nat /\ s[3] - 128 \in Nat /\ s[4] - 128 \in Nat
    BY SMT, <1>4
  <2>2. CodePoint(s) = 262144 * (s[1] - 240) + 4096 * (s[2] - 128) + 64 * (s[3] - 128)
                       + (s[4] - 128)
    BY SMT, <1>4 DEF CodePoint
  <2> QED
    BY ONLY SMT, <2>1, <2>2
<1> QED
  BY SMT, <1>1, <1>2, <1>3, <1>4

(* A sequence that is converted is whole.                                  *)
LEMMA SequenceIs ==
  ASSUME NEW b \in Seq(Nat), NEW i \in 1..Len(b)
  PROVE  /\ Following(b[i]) \in -1..3
         /\ SequenceAt(b, i) \in Seq(Nat) /\ Len(SequenceAt(b, i)) \in Nat
         /\ LegalAt(b, i) => Following(b[i]) \in 0..3
         /\ i + Following(b[i]) <= Len(b) =>
              /\ SequenceAt(b, i) = SubSeq(b, i, i + Following(b[i]))
              /\ Len(SequenceAt(b, i)) = Following(b[i]) + 1
         /\ ~(i + Following(b[i]) <= Len(b)) =>
              Len(SequenceAt(b, i)) = (Len(b) - i) + 1
         /\ \A j \in 1..Len(SequenceAt(b, i)) : SequenceAt(b, i)[j] = b[(i + j) - 1]
<1> DEFINE k == Following(b[i])
           n == Len(b)
           last == IF i + k <= n THEN i + k ELSE n
           s == SubSeq(b, i, last)
<1>1. k \in -1..3 /\ n \in Nat /\ b[i] \in Nat
  BY FollowingIs
<1> HIDE DEF k
<1>2. last \in (i - 1)..n
  BY <1>1
<1>3. SequenceAt(b, i) = s
  BY DEF SequenceAt, k
<1> HIDE DEF last
<1>4. s \in Seq(Nat) /\ Len(s) = (last - i) + 1
  BY <1>1, <1>2
<1>5. \A j \in 1..Len(s) : s[j] = b[(i + j) - 1]
  <2> TAKE j \in 1..Len(s)
  <2>1. j \in 1..((last - i) + 1)
    BY <1>4
  <2> HIDE DEF n
  <2> QED
    BY <1>1, <1>2, <2>1
<1>6. LegalAt(b, i) => k \in 0..3
  BY <1>1 DEF LegalAt, k
<1>7. (i + k <= n => last = i + k) /\ (~(i + k <= n) => last = n)
  BY DEF last
<1> HIDE DEF s, n
<1>8. i + k <= n => s = SubSeq(b, i, i + k) /\ Len(s) = k + 1
  BY <1>1, <1>4, <1>7 DEF s
<1>9. ~(i + k <= n) => Len(s) = (n - i) + 1
  BY <1>4, <1>7
<1> QED
  BY <1>1, <1>3, <1>4, <1>5, <1>6, <1>8, <1>9 DEF k, n

LEMMA SequenceMeans ==
  ASSUME NEW b \in Seq(Nat), NEW i \in 1..Len(b), ResultAt(b, i) = "done"
  PROVE  /\ Following(b[i]) \in 0..3 /\ i + Following(b[i]) <= Len(b)
         /\ CodePoint(SequenceAt(b, i)) \in Nat
<1> DEFINE k == Following(b[i])
           s == SequenceAt(b, i)
<1>1. LegalAt(b, i) /\ ~(Len(s) < k + 1)
  BY DEF ResultAt
<1>2. k \in 0..3 /\ s \in Seq(Nat) /\ Len(b) \in Nat
  BY <1>1, SequenceIs
<1>3. i + k <= Len(b)
  <2> SUFFICES ASSUME ~(i + k <= Len(b))
               PROVE  FALSE
    OBVIOUS
  <2>1. Len(s) = (Len(b) - i) + 1
    BY SequenceIs
  <2> HIDE DEF s, k
  <2> QED
    BY <1>1, <1>2, <2>1
<1>4. Len(s) = k + 1 /\ s[1] = b[i] /\ \A j \in 2..(k + 1) : s[j] \in 128..191
  <2>1. Len(s) = k + 1
    BY <1>3, SequenceIs
  <2>2. 1 \in 1..Len(s)
    BY <1>2, <2>1
  <2>3. s[1] = b[(i + 1) - 1]
    BY <2>2, SequenceIs
  <2>4. \A j \in 2..Len(s) : s[j] \in 128..191
    BY <1>1 DEF LegalAt
  <2> QED
    BY <2>1, <2>3, <2>4
<1>5. b[i] \in Nat
  OBVIOUS
<1>6. CodePoint(s) \in Nat
  <2>1. /\ k = 1 => b[i] >= 194
        /\ k = 2 => b[i] >= 224
        /\ k = 3 => b[i] >= 240
    BY <1>5, FollowingIs
  <2> HIDE DEF s, k
  <2>2. Len(s) \in 1..4 /\ \A j \in 1..Len(s) : s[j] \in Nat
    BY <1>2, <1>4
  <2>3. \A j \in 2..Len(s) : s[j] >= 128
    <3>1. \A x \in 128..191 : x >= 128
      BY ONLY SMT
    <3> TAKE j \in 2..Len(s)
    <3>2. s[j] \in 128..191
      BY <1>4
    <3> QED
      BY ONLY <3>1, <3>2, Zenon
  <2>4. /\ Len(s) = 2 => s[1] >= 192
        /\ Len(s) = 3 => s[1] >= 224
        /\ Len(s) = 4 => s[1] >= 240
    BY <1>2, <1>4, <1>5, <2>1
  <2> QED
    BY <2>2, <2>3, <2>4, CodePointIs
<1> QED
  BY <1>2, <1>3, <1>6

LEMMA DecodingIs ==
  ASSUME NEW b \in Seq(Nat)
  PROVE  /\ \A i \in 1..(Len(b) + 4) : Decoding(b)[i] \in Decodings
         /\ \A i \in (Len(b) + 1)..(Len(b) + 4) :
              Decoding(b)[i] = [result |-> "done", text |-> <<>>]
         /\ \A i \in 1..Len(b) :
              IF ResultAt(b, i) = "done"
              THEN Decoding(b)[i] =
                     [result |-> Decoding(b)[i + (Following(b[i]) + 1)].result,
                      text |-> <<CodePoint(SequenceAt(b, i))>>
                               \o Decoding(b)[i + (Following(b[i]) + 1)].text]
              ELSE Decoding(b)[i] = [result |-> ResultAt(b, i), text |-> <<>>]
<1> DEFINE n == Len(b)
           X == Decodings
           none == [result |-> "done", text |-> <<>>]
           ends(i) == IF ResultAt(b, i) = "done" THEN Following(b[i]) + 1 ELSE 1
           put(i, d) == IF ResultAt(b, i) = "done"
                        THEN [result |-> d.result,
                              text |-> <<CodePoint(SequenceAt(b, i))>> \o d.text]
                        ELSE [result |-> ResultAt(b, i), text |-> <<>>]
           jump == [i \in 1..n |-> ends(i)]
           step == [x \in (1..n) \X X |-> put(x[1], x[2])]
           body(f, i) ==
             LET k == Following(b[i])
                 sequence == SubSeq(b, i, IF i + k <= n THEN i + k ELSE n)
                 legal == k # -1 /\ \A j \in 2..Len(sequence) : sequence[j] \in 128..191
             IN CASE ~legal -> [result |-> "EILSEQ", text |-> <<>>]
                  [] legal /\ Len(sequence) < k + 1 -> [result |-> "EINVAL", text |-> <<>>]
                  [] legal /\ Len(sequence) = k + 1 /\ CodePoint(sequence) < Lowest(k) ->
                       [result |-> "EILSEQ", text |-> <<>>]
                  [] OTHER ->
                       [f[i + k + 1] EXCEPT !.text = <<CodePoint(sequence)>> \o @]
           Is(f) == f = [i \in 1..(n + 4) |-> IF i > n THEN none ELSE body(f, i)]
<1>1. n \in Nat /\ none \in X /\ 4 \in Nat \ {0}
  BY DEF Decodings
<1>2. Decoding(b) = CHOOSE f : Is(f)
  BY DEF Decoding
<1>3. ASSUME NEW i \in 1..n
      PROVE  /\ ends(i) \in 1..4 /\ ResultAt(b, i) \in {"done", "EILSEQ", "EINVAL"}
             /\ \A d \in X : put(i, d) \in X
  <2>1. ResultAt(b, i) \in {"done", "EILSEQ", "EINVAL"}
    BY DEF ResultAt
  <2>2. ends(i) \in 1..4
    BY SequenceMeans
  <2>3. ASSUME NEW d \in X
        PROVE  put(i, d) \in X
    <3>1. CASE ResultAt(b, i) = "done"
      <4> DEFINE c == CodePoint(SequenceAt(b, i))
      <4>1. c \in Nat
        BY <3>1, SequenceMeans
      <4> HIDE DEF c
      <4>2. d.result \in {"done", "EILSEQ", "EINVAL"} /\ <<c>> \o d.text \in Seq(Nat)
        BY <4>1 DEF Decodings
      <4>3. put(i, d) = [result |-> d.result, text |-> <<c>> \o d.text]
        BY <3>1 DEF c
      <4> HIDE DEF put
      <4> QED
        BY <4>2, <4>3 DEF Decodings
    <3>2. CASE ResultAt(b, i) # "done"
      BY <2>1, <3>2 DEF Decodings
    <3> QED
      BY <3>1, <3>2
  <2> QED
    BY <2>1, <2>2, <2>3
<1>4. jump \in [1..n -> 1..4] /\ step \in [(1..n) \X X -> X]
  <2> HIDE DEF ends, put, X, n
  <2> QED
    BY <1>3
<1>5. ASSUME NEW f, NEW i \in 1..n, \A j \in (i + 1)..(n + 4) : f[j] \in X
      PROVE  body(f, i) = put(i, f[i + ends(i)])
  <2> DEFINE k == Following(b[i])
             s == SubSeq(b, i, IF i + k <= n THEN i + k ELSE n)
             legal == k # -1 /\ \A j \in 2..Len(s) : s[j] \in 128..191
             c == CodePoint(s)
             m == Len(s)
  <2>1. s = SequenceAt(b, i) /\ (legal <=> LegalAt(b, i))
    BY DEF SequenceAt, LegalAt
  <2>2. k \in -1..3 /\ (legal => k \in 0..3) /\ m \in Nat
        /\ (i + k <= n => m = k + 1) /\ (~(i + k <= n) => m = (n - i) + 1)
    <3> HIDE DEF s, legal
    <3> QED
      BY <2>1, SequenceIs
  <2>3. ~(m < k + 1) => m = k + 1
    <3> HIDE DEF k, m
    <3> QED
      BY <1>1, <2>2
  <2>4. body(f, i) = CASE ~legal -> [result |-> "EILSEQ", text |-> <<>>]
                       [] legal /\ m < k + 1 -> [result |-> "EINVAL", text |-> <<>>]
                       [] legal /\ m = k + 1 /\ c < Lowest(k) ->
                            [result |-> "EILSEQ", text |-> <<>>]
                       [] OTHER -> [f[i + k + 1] EXCEPT !.text = <<c>> \o @]
    OBVIOUS
  <2>5. ResultAt(b, i) = IF ~legal THEN "EILSEQ" ELSE IF m < k + 1 THEN "EINVAL"
                         ELSE IF c < Lowest(k) THEN "EILSEQ" ELSE "done"
    BY <2>1 DEF ResultAt
  <2>6. put(i, f[i + ends(i)]) =
          IF ResultAt(b, i) = "done"
          THEN [result |-> f[i + (k + 1)].result, text |-> <<c>> \o f[i + (k + 1)].text]
          ELSE [result |-> ResultAt(b, i), text |-> <<>>]
    <3> HIDE DEF s
    <3> QED
      BY <2>1
  <2>7. i + k + 1 = i + (k + 1)
    <3> HIDE DEF k
    <3> QED
      BY <2>2
  <2> HIDE DEF body, put, legal, c, m, s
  <2>8. CASE ResultAt(b, i) # "done"
    <3> HIDE DEF k
    <3>1. CASE ~legal
      BY <2>4, <2>5, <2>6, <2>8, <3>1
    <3>2. CASE legal /\ m < k + 1
      <4>1. ~(m = k + 1)
        BY <2>2, <3>2
      <4> QED
        BY <2>4, <2>5, <2>6, <2>8, <3>2, <4>1
    <3>3. CASE legal /\ ~(m < k + 1) /\ c < Lowest(k)
      BY <2>3, <2>4, <2>5, <2>6, <2>8, <3>3
    <3> QED
      BY <2>5, <2>8, <3>1, <3>2, <3>3
  <2>9. CASE ResultAt(b, i) = "done"
    <3>1. k + 1 \in 1..4
      BY <2>9, SequenceMeans, SMTT(30)
    <3> DEFINE p == i + (k + 1)
    <3> HIDE DEF k
    <3>2. p \in (i + 1)..(n + 4)
      BY <1>1, <3>1
    <3> HIDE DEF p
    <3>3. f[p] \in X
      BY <1>5, <3>2
    <3>4. legal /\ ~(m < k + 1) /\ ~(c < Lowest(k))
      BY <2>5, <2>9
    <3>5. body(f, i) = [f[p] EXCEPT !.text = <<c>> \o @]
      BY <2>4, <2>7, <3>4 DEF p
    <3>6. [f[p] EXCEPT !.text = <<c>> \o @]
            = [result |-> f[p].result, text |-> <<c>> \o f[p].text]
      <4> DEFINE d == f[p]
                 v == <<c>> \o d.text
      <4>1. d \in [result : {"done", "EILSEQ", "EINVAL"}, text : Seq(Nat)]
        BY <3>3 DEF Decodings
      <4> HIDE DEF d, v
      <4>2. [d EXCEPT !.text = v] = [result |-> d.result, text |-> v]
        BY <4>1
      <4> QED
        BY <4>2 DEF d, v
    <3> QED
      BY <2>6, <2>9, <3>5, <3>6 DEF p
  <2> QED
    BY <2>8, <2>9
<1>6. PICK f \in [1..(n + 4) -> X] : Backward(f, n, 4, none, step, jump)
  <2> HIDE DEF step, jump, X, n, none
  <2> QED
    BY <1>1, <1>4, BackwardRuns
<1>7. \A i \in 1..(n + 4) : i > n => f[i] = none
  <2> HIDE DEF step, jump, X, n, none
  <2> QED
    BY <1>6 DEF Backward
<1>8. \A i \in 1..n : f[i] = put(i, f[i + ends(i)])
  <2> TAKE i \in 1..n
  <2>1. jump[i] = ends(i) /\ ends(i) \in 1..4
    BY <1>3
  <2> HIDE DEF ends, put
  <2>2. i + ends(i) \in 1..(n + 4) /\ i \in 1..(n + 4) /\ ~(i > n)
    BY <1>1, <2>1
  <2>3. f[i] = step[<<i, f[i + ends(i)]>>]
    <3> HIDE DEF step, jump, X, n, none
    <3>1. \A j \in 1..(n + 4) : f[j] = IF j > n THEN none ELSE step[<<j, f[j + jump[j]]>>]
      BY <1>6 DEF Backward
    <3> QED
      BY <2>1, <2>2, <3>1
  <2>4. f[i + ends(i)] \in X
    BY <2>2
  <2> HIDE DEF X, n
  <2> QED
    BY <2>3, <2>4
<1>9. Is(f)
  <2> HIDE DEF put, ends, body, none
  <2>1. \A i \in 1..n : body(f, i) = f[i]
    <3>1. \A i \in 1..n : \A j \in (i + 1)..(n + 4) : f[j] \in X
      BY <1>1, <1>6
    <3> HIDE DEF X
    <3> QED
      BY <1>5, <1>8, <3>1
  <2>2. \A i \in 1..(n + 4) : i \in 1..n \/ i > n
    BY <1>1
  <2> HIDE DEF n
  <2>3. \A i \in 1..(n + 4) : f[i] = IF i > n THEN none ELSE body(f, i)
    <3> TAKE i \in 1..(n + 4)
    <3>1. i \in 1..n => ~(i > n)
      BY <1>1
    <3> QED
      BY <1>7, <2>1, <2>2, <3>1
  <2> QED
    BY <2>3
<1> DEFINE g == Decoding(b)
<1>10. Is(g)
  <2> HIDE DEF Is
  <2> QED
    BY <1>2, <1>9
<1> HIDE DEF g
<1>11. \A i \in 1..(n + 4) : i > n => g[i] = none
  <2> HIDE DEF body, n
  <2> QED
    BY <1>10
<1>12. \A i \in 1..n : g[i] = body(g, i)
  <2>1. \A i \in 1..n : i \in 1..(n + 4) /\ ~(i > n)
    BY <1>1
  <2> HIDE DEF body, n, none
  <2> QED
    BY <1>10, <2>1
<1> DEFINE T == {i \in 1..(n + 4) : g[i] \in X}
<1>13. ASSUME NEW i \in 1..(n + 4), \A j \in (i + 1)..(n + 4) : j \in T
       PROVE  i \in T /\ (i \in 1..n => g[i] = put(i, g[i + ends(i)]))
  <2>1. CASE i > n
    <3>1. i \notin 1..n /\ g[i] \in X
      <4> HIDE DEF X, none, n
      <4> QED
        BY <1>1, <1>11, <2>1
    <3> HIDE DEF X, put, ends, n
    <3> QED
      BY <3>1
  <2>2. CASE i \in 1..n
    <3>1. \A j \in (i + 1)..(n + 4) : g[j] \in X
      BY <1>13
    <3> HIDE DEF body, put, X
    <3>2. body(g, i) = put(i, g[i + ends(i)])
      <4> HIDE DEF ends, n
      <4> QED
        BY <1>5, <2>2, <3>1
    <3>3. ends(i) \in 1..4
      BY <1>3, <2>2
    <3> HIDE DEF ends
    <3>4. i + ends(i) \in (i + 1)..(n + 4)
      BY <1>1, <2>2, <3>3
    <3>5. put(i, g[i + ends(i)]) \in X
      <4> HIDE DEF n
      <4> QED
        BY <1>3, <2>2, <3>1, <3>4
    <3> QED
      BY <1>12, <2>2, <3>2, <3>5
  <2>3. i > n \/ i \in 1..n
    BY <1>1
  <2> HIDE DEF T, put, ends, n
  <2> QED
    BY <2>1, <2>2, <2>3
<1>14. 1..(n + 4) \subseteq T
  <2>1. n + 4 \in Nat
    BY <1>1
  <2> HIDE DEF T, n, put, ends
  <2> QED
    BY <1>13, <2>1, FromTheEnd
<1>15. \A i \in 1..n : g[i] = put(i, g[i + ends(i)])
  <2> TAKE i \in 1..n
  <2>1. i \in 1..(n + 4) /\ \A j \in (i + 1)..(n + 4) : j \in T
    <3> HIDE DEF T
    <3> QED
      BY <1>1, <1>14, SMTT(30)
  <2> HIDE DEF T, put, ends, n
  <2> QED
    BY <1>13, <2>1
<1>16. \A i \in (n + 1)..(n + 4) : g[i] = none
  <2>1. \A i \in (n + 1)..(n + 4) : i \in 1..(n + 4) /\ i > n
    BY <1>1
  <2> HIDE DEF none, n
  <2> QED
    BY <1>11, <2>1
<1>17. \A i \in 1..(n + 4) : g[i] \in X
  BY <1>14
<1> HIDE DEF X
<1> QED
  BY <1>15, <1>16, <1>17 DEF g, X

LEMMA ResultBehind ==
  ASSUME NEW u \in Seq(Nat), NEW z \in Seq(Nat), NEW i \in 1..Len(z)
  PROVE  /\ (u \o z)[Len(u) + i] = z[i]
         /\ SequenceAt(u \o z, Len(u) + i) = SequenceAt(z, i)
         /\ ResultAt(u \o z, Len(u) + i) = ResultAt(z, i)
<1> DEFINE t == u \o z
           n == Len(u)
           k == Following(z[i])
           a == SequenceAt(t, n + i)
           b == SequenceAt(z, i)
<1>1. /\ t \in Seq(Nat) /\ n \in Nat /\ Len(z) \in Nat /\ Len(t) = n + Len(z)
      /\ n + i \in 1..Len(t)
      /\ \A j \in 1..Len(z) : t[n + j] = z[j]
  OBVIOUS
<1>2. t[n + i] = z[i]
  BY <1>1
<1> HIDE DEF t, n
<1>3. /\ k \in -1..3 /\ b \in Seq(Nat) /\ Len(b) \in Nat
      /\ i + k <= Len(z) => Len(b) = k + 1
      /\ ~(i + k <= Len(z)) => Len(b) = (Len(z) - i) + 1
      /\ \A j \in 1..Len(b) : b[j] = z[(i + j) - 1]
  <2> HIDE DEF k, b
  <2> QED
    BY SequenceIs DEF k, b
<1>4. /\ a \in Seq(Nat) /\ Len(a) \in Nat
      /\ (n + i) + k <= Len(t) => Len(a) = k + 1
      /\ ~((n + i) + k <= Len(t)) => Len(a) = (Len(t) - (n + i)) + 1
      /\ \A j \in 1..Len(a) : a[j] = t[((n + i) + j) - 1]
  BY <1>1, <1>2, SequenceIs
<1> HIDE DEF a, b, k
<1>5. Len(a) = Len(b) /\ Len(b) <= (Len(z) - i) + 1
  <2>1. CASE i + k <= Len(z)
    <3>1. (n + i) + k <= Len(t)
      BY <1>1, <1>3, <2>1
    <3>2. Len(a) = k + 1 /\ Len(b) = k + 1
      BY <1>3, <1>4, <2>1, <3>1
    <3> QED
      BY <1>1, <1>3, <2>1, <3>2
  <2>2. CASE ~(i + k <= Len(z))
    <3>1. ~((n + i) + k <= Len(t)) /\ (Len(t) - (n + i)) + 1 = (Len(z) - i) + 1
      BY <1>1, <1>3, <2>2
    <3>2. Len(a) = (Len(z) - i) + 1 /\ Len(b) = (Len(z) - i) + 1
      BY <1>3, <1>4, <2>2, <3>1
    <3> QED
      BY <1>1, <3>2
  <2> QED
    BY <2>1, <2>2
<1>6. \A j \in 1..Len(b) : a[j] = b[j]
  <2> TAKE j \in 1..Len(b)
  <2>1. (i + j) - 1 \in 1..Len(z) /\ ((n + i) + j) - 1 = n + ((i + j) - 1)
    BY <1>1, <1>3, <1>5
  <2>2. a[j] = t[n + ((i + j) - 1)] /\ b[j] = z[(i + j) - 1]
    BY <1>3, <1>4, <1>5, <2>1
  <2> QED
    BY <1>1, <2>1, <2>2
<1>7. a = b
  BY <1>3, <1>4, <1>5, <1>6, SeqEqual
<1>8. ResultAt(t, n + i) = ResultAt(z, i)
  BY <1>2, <1>7 DEF ResultAt, LegalAt, a, b
<1> QED
  BY <1>2, <1>7, <1>8 DEF t, n, a, b

(* What is whole or wrong stays so, whatever follows.                      *)
LEMMA ResultBefore ==
  ASSUME NEW u \in Seq(Nat), NEW z \in Seq(Nat), NEW i \in 1..Len(u)
  PROVE  /\ (u \o z)[i] = u[i]
         /\ ResultAt(u, i) = "done" =>
              /\ SequenceAt(u \o z, i) = SequenceAt(u, i)
              /\ ResultAt(u \o z, i) = "done"
         /\ ResultAt(u, i) = "EILSEQ" => ResultAt(u \o z, i) = "EILSEQ"
<1> DEFINE t == u \o z
           n == Len(u)
           k == Following(u[i])
           a == SequenceAt(t, i)
           b == SequenceAt(u, i)
<1>1. /\ t \in Seq(Nat) /\ n \in Nat /\ Len(z) \in Nat /\ Len(t) = n + Len(z)
      /\ i \in 1..Len(t)
      /\ \A j \in 1..n : t[j] = u[j]
  OBVIOUS
<1>2. t[i] = u[i]
  BY <1>1
<1> HIDE DEF t, n
<1>3. /\ k \in -1..3 /\ b \in Seq(Nat) /\ Len(b) \in Nat
      /\ i + k <= n => Len(b) = k + 1
      /\ ~(i + k <= n) => Len(b) = (n - i) + 1
      /\ \A j \in 1..Len(b) : b[j] = u[(i + j) - 1]
  <2> HIDE DEF k, b
  <2> QED
    BY SequenceIs DEF k, b, n
<1>4. /\ a \in Seq(Nat) /\ Len(a) \in Nat
      /\ i + k <= Len(t) => Len(a) = k + 1
      /\ ~(i + k <= Len(t)) => Len(a) = (Len(t) - i) + 1
      /\ \A j \in 1..Len(a) : a[j] = t[(i + j) - 1]
  BY <1>1, <1>2, SequenceIs
<1>5. ResultAt(u, i) = "done" => i + k <= n
  <2> HIDE DEF k
  <2> QED
    BY SequenceMeans DEF k, n
<1>6. LegalAt(u, i) <=> k # -1 /\ \A j \in 2..Len(b) : b[j] \in 128..191
  BY DEF LegalAt
<1>7. LegalAt(t, i) <=> k # -1 /\ \A j \in 2..Len(a) : a[j] \in 128..191
  BY <1>2 DEF LegalAt
<1>8. /\ ResultAt(u, i) = IF ~LegalAt(u, i) THEN "EILSEQ"
                          ELSE IF Len(b) < k + 1 THEN "EINVAL"
                          ELSE IF CodePoint(b) < Lowest(k) THEN "EILSEQ" ELSE "done"
      /\ ResultAt(t, i) = IF ~LegalAt(t, i) THEN "EILSEQ"
                          ELSE IF Len(a) < k + 1 THEN "EINVAL"
                          ELSE IF CodePoint(a) < Lowest(k) THEN "EILSEQ" ELSE "done"
  BY <1>2 DEF ResultAt
<1> HIDE DEF a, b, k
<1>9. Len(b) <= Len(a) /\ Len(b) <= (n - i) + 1
  <2>1. CASE i + k <= n
    <3>1. i + k <= Len(t)
      BY <1>1, <1>3, <2>1
    <3>2. Len(a) = k + 1 /\ Len(b) = k + 1
      BY <1>3, <1>4, <2>1, <3>1
    <3> QED
      BY <1>1, <1>3, <2>1, <3>2
  <2>2. CASE ~(i + k <= n)
    <3>1. Len(b) = (n - i) + 1
      BY <1>3, <2>2
    <3>2. CASE i + k <= Len(t)
      <4>1. Len(a) = k + 1
        BY <1>4, <3>2
      <4> QED
        BY <1>1, <1>3, <2>2, <3>1, <4>1
    <3>3. CASE ~(i + k <= Len(t))
      <4>1. Len(a) = (Len(t) - i) + 1
        BY <1>4, <3>3
      <4> QED
        BY <1>1, <3>1, <4>1
    <3> QED
      BY <3>2, <3>3
  <2> QED
    BY <2>1, <2>2
<1>10. \A j \in 1..Len(b) : a[j] = b[j]
  <2> TAKE j \in 1..Len(b)
  <2>1. (i + j) - 1 \in 1..n /\ j \in 1..Len(a)
    BY <1>1, <1>3, <1>4, <1>9
  <2>2. a[j] = t[(i + j) - 1] /\ b[j] = u[(i + j) - 1]
    BY <1>3, <1>4, <2>1
  <2> QED
    BY <1>1, <2>1, <2>2
<1>11. ASSUME i + k <= n
       PROVE  a = b /\ ResultAt(t, i) = ResultAt(u, i)
  <2>1. Len(a) = Len(b)
    BY <1>1, <1>3, <1>4, <1>11
  <2>2. a = b
    BY <1>3, <1>4, <1>10, <2>1, SeqEqual
  <2> QED
    BY <1>6, <1>7, <1>8, <2>2
<1>12. ASSUME ResultAt(u, i) = "EILSEQ"
       PROVE  ResultAt(t, i) = "EILSEQ"
  <2>1. CASE i + k <= n
    BY <1>11, <1>12, <2>1
  <2>2. CASE ~(i + k <= n)
    <3>1. Len(b) < k + 1
      BY <1>1, <1>3, <2>2
    <3>2. ~LegalAt(u, i)
      BY <1>8, <1>12, <3>1
    <3>3. ~LegalAt(t, i)
      <4>1. CASE k = -1
        BY <1>7, <4>1
      <4>2. CASE k # -1
        <5>1. PICK j \in 2..Len(b) : b[j] \notin 128..191
          BY <1>6, <3>2, <4>2
        <5>2. j \in 2..Len(a) /\ j \in 1..Len(b)
          BY <1>3, <1>4, <1>9
        <5> QED
          BY <1>7, <1>10, <5>1, <5>2
      <4> QED
        BY <4>1, <4>2
    <3> QED
      BY <1>8, <3>3
  <2> QED
    BY <2>1, <2>2
<1> QED
  BY <1>2, <1>5, <1>11, <1>12 DEF t, a, b

(* Octets of which the first are converted are converted to what both parts*)
(* are; what is wrong in the first stays wrong.                            *)
LEMMA DecodedOfConcat ==
  ASSUME NEW u \in Seq(Nat), NEW z \in Seq(Nat)
  PROVE  /\ decoded(u) \in Decodings /\ decoded(z) \in Decodings
         /\ decoded(u).result = "done" =>
              /\ decoded(u \o z).result = decoded(z).result
              /\ decoded(u \o z).text = decoded(u).text \o decoded(z).text
         /\ decoded(u).result = "EILSEQ" => decoded(u \o z).result = "EILSEQ"
<1> DEFINE t == u \o z
           n == Len(u)
           l == Len(z)
           f == Decoding(t)
           g == Decoding(u)
           h == Decoding(z)
           none == [result |-> "done", text |-> <<>>]
<1>1. n \in Nat /\ l \in Nat /\ Len(t) = n + l /\ t \in Seq(Nat)
  OBVIOUS
<1>2. /\ \A i \in 1..(n + 4) : g[i] \in Decodings
      /\ \A i \in (n + 1)..(n + 4) : g[i] = none
      /\ \A i \in 1..n :
           IF ResultAt(u, i) = "done"
           THEN g[i] = [result |-> g[i + (Following(u[i]) + 1)].result,
                        text |-> <<CodePoint(SequenceAt(u, i))>>
                                 \o g[i + (Following(u[i]) + 1)].text]
           ELSE g[i] = [result |-> ResultAt(u, i), text |-> <<>>]
  BY DecodingIs
<1>3. /\ \A i \in 1..(l + 4) : h[i] \in Decodings
      /\ \A i \in (l + 1)..(l + 4) : h[i] = none
      /\ \A i \in 1..l :
           IF ResultAt(z, i) = "done"
           THEN h[i] = [result |-> h[i + (Following(z[i]) + 1)].result,
                        text |-> <<CodePoint(SequenceAt(z, i))>>
                                 \o h[i + (Following(z[i]) + 1)].text]
           ELSE h[i] = [result |-> ResultAt(z, i), text |-> <<>>]
  BY DecodingIs
<1>4. /\ \A i \in (Len(t) + 1)..(Len(t) + 4) : f[i] = none
      /\ \A i \in 1..Len(t) :
           IF ResultAt(t, i) = "done"
           THEN f[i] = [result |-> f[i + (Following(t[i]) + 1)].result,
                        text |-> <<CodePoint(SequenceAt(t, i))>>
                                 \o f[i + (Following(t[i]) + 1)].text]
           ELSE f[i] = [result |-> ResultAt(t, i), text |-> <<>>]
  <2> HIDE DEF t
  <2> QED
    BY <1>1, DecodingIs
<1> HIDE DEF f, g, h, none
<1>5. f[n + 1] = h[1]
  <2> DEFINE S == {i \in 1..(l + 4) : f[n + i] = h[i]}
  <2>1. ASSUME NEW i \in 1..(l + 4), \A j \in (i + 1)..(l + 4) : j \in S
        PROVE  i \in S
    <3>1. CASE i > l
      <4>1. n + i \in (Len(t) + 1)..(Len(t) + 4) /\ i \in (l + 1)..(l + 4)
        BY <1>1, <3>1
      <4>2. f[n + i] = none /\ h[i] = none
        <5> HIDE DEF t, n, l
        <5> QED
          BY <1>3, <1>4, <4>1
      <4> HIDE DEF n
      <4> QED
        BY <4>2
    <3>2. CASE i \in 1..l
      <4>1. n + i \in 1..Len(t)
        BY <1>1, <3>2
      <4>2. /\ t[n + i] = z[i] /\ SequenceAt(t, n + i) = SequenceAt(z, i)
            /\ ResultAt(t, n + i) = ResultAt(z, i)
        BY <3>2, ResultBehind
      <4> DEFINE k == Following(z[i]) + 1
      <4>3. ResultAt(z, i) = "done" => k \in 1..4
        <5>1. ResultAt(z, i) = "done" => Following(z[i]) \in 0..3
          BY <3>2, SequenceMeans
        <5> QED
          BY ONLY <5>1
      <4> HIDE DEF t, n, l, k
      <4>4. CASE ResultAt(z, i) = "done"
        <5>1. i + k \in (i + 1)..(l + 4) /\ (n + i) + k = n + (i + k)
          <6>1. k \in 1..4
            BY <4>3, <4>4
          <6> QED
            BY ONLY <1>1, <3>2, <6>1
        <5>2. f[n + (i + k)] = h[i + k]
          BY <2>1, <5>1
        <5>3. f[n + i] = [result |-> f[n + (i + k)].result,
                          text |-> <<CodePoint(SequenceAt(z, i))>> \o f[n + (i + k)].text]
          BY <1>4, <4>1, <4>2, <4>4, <5>1 DEF k
        <5>4. h[i] = [result |-> h[i + k].result,
                      text |-> <<CodePoint(SequenceAt(z, i))>> \o h[i + k].text]
          BY <1>3, <3>2, <4>4 DEF k
        <5> QED
          BY <5>2, <5>3, <5>4
      <4>5. CASE ResultAt(z, i) # "done"
        <5>1. f[n + i] = [result |-> ResultAt(z, i), text |-> <<>>]
          BY <1>4, <4>1, <4>2, <4>5
        <5>2. h[i] = [result |-> ResultAt(z, i), text |-> <<>>]
          BY <1>3, <3>2, <4>5
        <5> QED
          BY <5>1, <5>2
      <4> QED
        BY <4>4, <4>5
    <3> QED
      BY <1>1, <3>1, <3>2
  <2>2. 1..(l + 4) \subseteq S
    <3>1. l + 4 \in Nat
      BY <1>1
    <3> HIDE DEF S, l
    <3> QED
      BY <2>1, <3>1, FromTheEnd
  <2>3. 1 \in 1..(l + 4)
    BY <1>1
  <2> QED
    BY <2>2, <2>3
<1>6. h[1] \in Decodings /\ g[1] \in Decodings
  <2>1. 1 \in 1..(l + 4) /\ 1 \in 1..(n + 4)
    BY <1>1
  <2> HIDE DEF n, l
  <2> QED
    BY <1>2, <1>3, <2>1
<1> DEFINE rest == f[n + 1]
<1>7. rest \in Decodings
  BY <1>5, <1>6
<1> HIDE DEF rest
<1> DEFINE Alike(i) ==
             /\ g[i].result = "done" =>
                  f[i].result = rest.result /\ f[i].text = g[i].text \o rest.text
             /\ g[i].result = "EILSEQ" => f[i].result = "EILSEQ"
           S == {i \in 1..(n + 1) : Alike(i)}
<1>8. ASSUME NEW i \in 1..(n + 1), \A j \in (i + 1)..(n + 1) : j \in S
      PROVE  i \in S
  <2>1. CASE i = n + 1
    <3>1. g[i] = none
      <4>1. i \in (n + 1)..(n + 4)
        BY <1>1, <2>1
      <4> HIDE DEF n
      <4> QED
        BY <1>2, <4>1
    <3>2. rest.text \in Seq(Nat)
      BY <1>7 DEF Decodings
    <3>3. <<>> \o rest.text = rest.text
      BY <3>2
    <3>4. f[i] = rest
      BY <2>1 DEF rest
    <3>5. g[i].result = "done" /\ g[i].text = <<>>
      BY <3>1 DEF none
    <3>6. f[i].result = rest.result /\ f[i].text = g[i].text \o rest.text
      <4>1. g[i].text \o rest.text = rest.text
        BY <3>3, <3>5
      <4>2. f[i].result = rest.result /\ f[i].text = rest.text
        BY <3>4
      <4> QED
        BY ONLY <4>1, <4>2
    <3>7. Alike(i)
      <4>1. "done" # "EILSEQ"
        OBVIOUS
      <4> QED
        BY <3>5, <3>6, <4>1
    <3> HIDE DEF Alike
    <3> QED
      BY <3>7
  <2>2. CASE i \in 1..n
    <3>1. i \in 1..Len(t)
      BY <1>1, <2>2
    <3>2. /\ t[i] = u[i]
          /\ ResultAt(u, i) = "done" =>
               SequenceAt(t, i) = SequenceAt(u, i) /\ ResultAt(t, i) = "done"
          /\ ResultAt(u, i) = "EILSEQ" => ResultAt(t, i) = "EILSEQ"
      BY <2>2, ResultBefore
    <3> DEFINE k == Following(u[i]) + 1
               c == CodePoint(SequenceAt(u, i))
    <3>3. ResultAt(u, i) = "done" => k \in 1..4 /\ i + k \in (i + 1)..(n + 1) /\ c \in Nat
      <4> SUFFICES ASSUME ResultAt(u, i) = "done"
                   PROVE  k \in 1..4 /\ i + k \in (i + 1)..(n + 1) /\ c \in Nat
        OBVIOUS
      <4> DEFINE m == Following(u[i])
      <4>1. m \in 0..3 /\ i + m <= n /\ c \in Nat
        BY <2>2, SequenceMeans
      <4> HIDE DEF c, m
      <4>2. m + 1 \in 1..4 /\ i + (m + 1) \in (i + 1)..(n + 1)
        BY <1>1, <2>2, <4>1
      <4> QED
        BY <4>1, <4>2 DEF m
    <3> HIDE DEF t, k, c
    <3>4. CASE ResultAt(u, i) = "done"
      <4> DEFINE p == i + k
      <4>1. p \in (i + 1)..(n + 1) /\ c \in Nat
        BY <3>3, <3>4
      <4>2. g[i] = [result |-> g[p].result, text |-> <<c>> \o g[p].text]
        <5> HIDE DEF n
        <5> QED
          BY <1>2, <2>2, <3>4 DEF k, c
      <4>3. f[i] = [result |-> f[p].result, text |-> <<c>> \o f[p].text]
        BY <1>4, <3>1, <3>2, <3>4 DEF k, c
      <4>4. g[p] \in Decodings
        <5>1. p \in 1..(n + 4)
          BY <1>1, <4>1
        <5> HIDE DEF n, p
        <5> QED
          BY <1>2, <5>1
      <4> HIDE DEF p
      <4>5. Alike(p)
        <5> HIDE DEF Alike, n
        <5> QED
          BY <1>8, <4>1
      <4>6. <<c>> \o (g[p].text \o rest.text) = (<<c>> \o g[p].text) \o rest.text
        <5> DEFINE w == g[p].text
                   v == rest.text
                   s == <<c>>
        <5>1. s \in Seq(Nat) /\ w \in Seq(Nat) /\ v \in Seq(Nat)
          BY <1>7, <4>1, <4>4 DEF Decodings
        <5> HIDE DEF s, w, v
        <5>2. TwoParts(s, TwoParts(w, v)) = TwoParts(TwoParts(s, w), v)
          BY <5>1, ThreeParts
        <5> QED
          BY <5>2 DEF s, w, v, TwoParts
      <4>7. g[i].result = g[p].result /\ g[i].text = <<c>> \o g[p].text
        BY <4>2, SMTT(30)
      <4>8. f[i].result = f[p].result /\ f[i].text = <<c>> \o f[p].text
        BY <4>3, SMTT(30)
      <4>9. Alike(i)
        BY <4>5, <4>6, <4>7, <4>8
      <4> HIDE DEF Alike
      <4> QED
        BY <4>9
    <3>5. CASE ResultAt(u, i) # "done"
      <4>1. g[i].result = ResultAt(u, i)
        <5>1. g[i] = [result |-> ResultAt(u, i), text |-> <<>>]
          <6> HIDE DEF n
          <6> QED
            BY <1>2, <2>2, <3>5
        <5> QED
          BY <5>1
      <4>2. ResultAt(u, i) = "EILSEQ" => f[i].result = "EILSEQ"
        <5> SUFFICES ASSUME ResultAt(u, i) = "EILSEQ"
                     PROVE  f[i].result = "EILSEQ"
          OBVIOUS
        <5>1. f[i] = [result |-> ResultAt(t, i), text |-> <<>>]
          BY <1>4, <3>1, <3>2
        <5> QED
          BY <3>2, <5>1
      <4>3. Alike(i)
        BY <3>5, <4>1, <4>2
      <4> HIDE DEF Alike
      <4> QED
        BY <4>3
    <3> QED
      BY <3>4, <3>5
  <2>3. i = n + 1 \/ i \in 1..n
    BY <1>1
  <2> HIDE DEF S, n
  <2> QED
    BY <2>1, <2>2, <2>3
<1>9. 1..(n + 1) \subseteq S
  <2>1. n + 1 \in Nat
    BY <1>1
  <2> HIDE DEF S, n
  <2> QED
    BY <1>8, <2>1, FromTheEnd
<1>10. Alike(1)
  <2>1. 1 \in 1..(n + 1)
    BY <1>1
  <2> HIDE DEF Alike, n
  <2> QED
    BY <1>9, <2>1
<1>11. rest = h[1]
  BY <1>5 DEF rest
<1>12. decoded(t) = f[1] /\ decoded(u) = g[1] /\ decoded(z) = h[1]
  BY DecodedIs DEF f, g, h
<1> HIDE DEF t
<1> QED
  BY <1>6, <1>10, <1>11, <1>12 DEF t
-----------------------------------------------------------------------------
(* What process() makes of a text from each place on                       *)
ParameterOf(c, digit, parameters) ==
  IF digit \in Digits /\ paramNumber(c) + (digit - 48) + 1 \in DOMAIN parameters
  THEN parameters[paramNumber(c) + (digit - 48) + 1] ELSE <<CharacterGlyph>>

ToldFor(text, i, parameters) ==
  IF Char(text, i) = parameterMarkerChar
  THEN IF i = Len(text) THEN <<>>
       ELSE IF Char(text, i + 1) \in DOMAIN Facts THEN FactOf(Char(text, i + 1))
       ELSE IF Char(text, i + 1) \in ParameterLetters
       THEN ParameterOf(Char(text, i + 1), Char(text, i + 2), parameters)
       ELSE <<CharacterGlyph>>
  ELSE IF Char(text, i) = newLineMarkerChar THEN <<CharacterGlyph>>
  ELSE <<Char(text, i)>>

ToldBehind(text, i) ==
  IF Char(text, i) = parameterMarkerChar /\ i # Len(text)
  THEN IF Char(text, i + 1) \in ParameterLetters THEN 3 ELSE 2
  ELSE 1

Telling(text, parameters) ==
  LET n == Len(text)
      at(i) == IF i <= n THEN text[i] ELSE NUL
      parameter(c, digit) ==
        IF digit \in Digits /\ paramNumber(c) + (digit - 48) + 1 \in DOMAIN parameters
        THEN parameters[paramNumber(c) + (digit - 48) + 1] ELSE <<CharacterGlyph>>
      from[i \in 1..(n + 3)] ==
        IF i > n THEN <<>>
        ELSE CASE at(i) = parameterMarkerChar ->
               CASE i = n -> <<>>
                 [] at(i + 1) \in DOMAIN Facts -> FactOf(at(i + 1)) \o from[i + 2]
                 [] at(i + 1) \in ParameterLetters ->
                      parameter(at(i + 1), at(i + 2)) \o from[i + 3]
                 [] OTHER -> <<CharacterGlyph>> \o from[i + 2]
          [] at(i) = newLineMarkerChar -> <<CharacterGlyph>> \o from[i + 1]
          [] OTHER -> <<at(i)>> \o from[i + 1]
  IN from

LEMMA ProcessIs ==
  \A text, parameters :
    process(text, parameters) =
      IF \E i \in 1..Len(text) : text[i] = parameterMarkerChar
      THEN Telling(text, parameters)[1] ELSE text
BY DEF process, Telling

LEMMA LettersDiffer ==
  \A c : ~(c \in DOMAIN Facts /\ c \in ParameterLetters \cup {NUL})
BY TextsAssumption DEF ParameterLetters, NUL

LEMMA ToldForIs ==
  ASSUME NEW text \in Seq(Nat), NEW parameters \in ParameterLists, NEW i \in 1..Len(text)
  PROVE  ToldFor(text, i, parameters) \in Seq(Nat) /\ ToldBehind(text, i) \in 1..3
<1>1. Char(text, i) \in Nat /\ Char(text, i + 1) \in Nat /\ Char(text, i + 2) \in Nat
  BY DEF Char, NUL
<1>2. <<CharacterGlyph>> \in Seq(Nat) /\ <<>> \in Seq(Nat) /\ <<Char(text, i)>> \in Seq(Nat)
  BY <1>1 DEF CharacterGlyph
<1>3. \A c \in DOMAIN Facts : FactOf(c) \in Seq(Nat)
  <2>1. <<ObjectGlyph>> \in Seq(Nat)
    BY DEF ObjectGlyph
  <2> QED
    BY <2>1, TextsAssumption DEF FactOf
<1>4. \A c, digit : ParameterOf(c, digit, parameters) \in Seq(Nat)
  <2>1. parameters \in Seq(Seq(Nat))
    BY TextsAssumption
  <2>2. \A j \in DOMAIN parameters : parameters[j] \in Seq(Nat)
    BY <2>1
  <2> QED
    BY <1>2, <2>2 DEF ParameterOf
<1>5. ToldFor(text, i, parameters) \in Seq(Nat)
  BY <1>2, <1>3, <1>4 DEF ToldFor
<1>6. ToldBehind(text, i) \in 1..3
  BY DEF ToldBehind
<1> QED
  BY <1>5, <1>6

LEMMA TellingIs ==
  ASSUME NEW text \in Seq(Nat), NEW parameters \in ParameterLists
  PROVE  /\ \A i \in 1..(Len(text) + 3) : Telling(text, parameters)[i] \in Seq(Nat)
         /\ \A i \in (Len(text) + 1)..(Len(text) + 3) : Telling(text, parameters)[i] = <<>>
         /\ \A i \in 1..Len(text) :
              Telling(text, parameters)[i] =
                ToldFor(text, i, parameters)
                \o Telling(text, parameters)[i + ToldBehind(text, i)]
<1> DEFINE n == Len(text)
           X == Seq(Nat)
           ends(i) == ToldBehind(text, i)
           chunk(i) == ToldFor(text, i, parameters)
           jump == [i \in 1..n |-> ends(i)]
           step == [x \in (1..n) \X X |-> chunk(x[1]) \o x[2]]
           body(f, i) ==
             IF i > n THEN <<>>
             ELSE CASE Char(text, i) = parameterMarkerChar ->
                    CASE i = n -> <<>>
                      [] Char(text, i + 1) \in DOMAIN Facts ->
                           FactOf(Char(text, i + 1)) \o f[i + 2]
                      [] Char(text, i + 1) \in ParameterLetters ->
                           ParameterOf(Char(text, i + 1), Char(text, i + 2), parameters)
                           \o f[i + 3]
                      [] OTHER -> <<CharacterGlyph>> \o f[i + 2]
               [] Char(text, i) = newLineMarkerChar -> <<CharacterGlyph>> \o f[i + 1]
               [] OTHER -> <<Char(text, i)>> \o f[i + 1]
           Is(f) == f = [i \in 1..(n + 3) |-> body(f, i)]
<1>1. n \in Nat /\ <<>> \in X /\ 3 \in Nat \ {0}
  OBVIOUS
<1>2. Telling(text, parameters) = CHOOSE f : Is(f)
  BY DEF Telling, Char, ParameterOf
<1>3. ASSUME NEW i \in 1..n
      PROVE  ends(i) \in 1..3 /\ chunk(i) \in X
  BY ToldForIs
<1>4. jump \in [1..n -> 1..3] /\ step \in [(1..n) \X X -> X]
  <2>1. \A i \in 1..n : ends(i) \in 1..3 /\ chunk(i) \in X
    BY <1>3
  <2> HIDE DEF ends, chunk, n
  <2>2. \A x \in (1..n) \X X : chunk(x[1]) \o x[2] \in X
    BY <2>1
  <2> QED
    BY <2>1, <2>2
<1>5. ASSUME NEW f, NEW i \in 1..n, f[n + 1] = <<>>
      PROVE  body(f, i) = chunk(i) \o f[i + ends(i)]
  <2>1. ~(i > n)
    BY <1>1
  <2>2. CASE Char(text, i) = parameterMarkerChar
    <3> DEFINE c == Char(text, i + 1)
               inner == CASE i = n -> <<>>
                          [] c \in DOMAIN Facts -> FactOf(c) \o f[i + 2]
                          [] c \in ParameterLetters ->
                               ParameterOf(c, Char(text, i + 2), parameters) \o f[i + 3]
                          [] OTHER -> <<CharacterGlyph>> \o f[i + 2]
    <3>1. Char(text, i) # newLineMarkerChar
      BY <2>2 DEF parameterMarkerChar, newLineMarkerChar, NUL, NEL
    <3>2. body(f, i) = inner
      BY <2>1, <2>2, <3>1
    <3> HIDE DEF body
    <3>3. c \in DOMAIN Facts => c \notin ParameterLetters /\ c # NUL
      <4> HIDE DEF c
      <4> QED
        BY LettersDiffer
    <3>4. CASE i = n
      <4>1. c = NUL
        <5>1. ~(i + 1 <= Len(text))
          BY <1>1, <3>4
        <5> QED
          BY <5>1 DEF Char
      <4>2. c \notin DOMAIN Facts /\ c \notin ParameterLetters
        BY <3>3, <4>1 DEF ParameterLetters, NUL
      <4>3. inner = <<>>
        BY <3>4, <4>2
      <4>4. chunk(i) = <<>> /\ ends(i) = 1
        BY <2>2, <3>4 DEF ToldFor, ToldBehind
      <4> HIDE DEF inner, chunk, ends, n
      <4> QED
        BY <3>2, <3>4, <4>3, <4>4, <1>5
    <3>5. CASE i # n /\ c \in DOMAIN Facts
      <4>1. inner = FactOf(c) \o f[i + 2]
        BY <3>3, <3>5
      <4>2. chunk(i) = FactOf(c) /\ ends(i) = 2
        BY <2>2, <3>3, <3>5 DEF ToldFor, ToldBehind
      <4> HIDE DEF inner, chunk, ends
      <4> QED
        BY <3>2, <4>1, <4>2
    <3>6. CASE i # n /\ c \in ParameterLetters
      <4>1. inner = ParameterOf(c, Char(text, i + 2), parameters) \o f[i + 3]
        BY <3>3, <3>6
      <4>2. chunk(i) = ParameterOf(c, Char(text, i + 2), parameters) /\ ends(i) = 3
        BY <2>2, <3>3, <3>6 DEF ToldFor, ToldBehind
      <4> HIDE DEF inner, chunk, ends
      <4> QED
        BY <3>2, <4>1, <4>2
    <3>7. CASE i # n /\ c \notin DOMAIN Facts /\ c \notin ParameterLetters
      <4>1. inner = <<CharacterGlyph>> \o f[i + 2]
        BY <3>7
      <4>2. chunk(i) = <<CharacterGlyph>> /\ ends(i) = 2
        BY <2>2, <3>7 DEF ToldFor, ToldBehind
      <4> HIDE DEF inner, chunk, ends
      <4> QED
        BY <3>2, <4>1, <4>2
    <3> QED
      BY <3>4, <3>5, <3>6, <3>7
  <2>3. CASE Char(text, i) = newLineMarkerChar
    <3>1. Char(text, i) # parameterMarkerChar
      BY <2>3 DEF parameterMarkerChar, newLineMarkerChar, NUL, NEL
    <3>2. body(f, i) = <<CharacterGlyph>> \o f[i + 1]
      BY <2>1, <2>3, <3>1
    <3>3. chunk(i) = <<CharacterGlyph>> /\ ends(i) = 1
      BY <2>3, <3>1 DEF ToldFor, ToldBehind
    <3> HIDE DEF body, chunk, ends
    <3> QED
      BY <3>2, <3>3
  <2>4. CASE Char(text, i) \notin {parameterMarkerChar, newLineMarkerChar}
    <3>1. body(f, i) = <<Char(text, i)>> \o f[i + 1]
      BY <2>1, <2>4
    <3>2. chunk(i) = <<Char(text, i)>> /\ ends(i) = 1
      BY <2>4 DEF ToldFor, ToldBehind
    <3> HIDE DEF body, chunk, ends
    <3> QED
      BY <3>1, <3>2
  <2> QED
    BY <2>2, <2>3, <2>4
<1>6. ASSUME NEW f, NEW i \in 1..(n + 3), i > n
      PROVE  body(f, i) = <<>>
  <2>1. ~(i <= Len(text))
    BY <1>6, <1>1
  <2>2. Char(text, i) = NUL /\ Char(text, i) # newLineMarkerChar /\ i # n
    BY <1>1, <1>6, <2>1 DEF Char, newLineMarkerChar, NUL, NEL
  <2> QED
    BY <1>6, <2>2
<1>7. Is(Telling(text, parameters))
  <2>1. PICK f \in [1..(n + 3) -> X] : Backward(f, n, 3, <<>>, step, jump)
    <3> HIDE DEF step, jump, X, n
    <3> QED
      BY <1>1, <1>4, BackwardRuns
  <2>2. \A i \in 1..(n + 3) : i > n => f[i] = <<>>
    BY <2>1 DEF Backward
  <2>3. \A i \in 1..n : f[i] = chunk(i) \o f[i + ends(i)]
    <3> TAKE i \in 1..n
    <3>1. ends(i) \in 1..3 /\ jump[i] = ends(i)
      BY <1>3
    <3> HIDE DEF ends, chunk
    <3>2. i + ends(i) \in 1..(n + 3) /\ i \in 1..(n + 3) /\ ~(i > n)
      BY <1>1, <3>1
    <3>3. f[i] = step[<<i, f[i + ends(i)]>>]
      <4> HIDE DEF step, jump, X, n
      <4>1. \A j \in 1..(n + 3) : f[j] = IF j > n THEN <<>> ELSE step[<<j, f[j + jump[j]]>>]
        BY <2>1 DEF Backward
      <4> QED
        BY <3>1, <3>2, <4>1
    <3>4. f[i + ends(i)] \in X
      BY <3>2
    <3> HIDE DEF X, n
    <3> QED
      BY <3>3, <3>4
  <2>4. f[n + 1] = <<>>
    <3>1. n + 1 \in 1..(n + 3) /\ n + 1 > n
      BY <1>1
    <3> HIDE DEF n
    <3> QED
      BY <2>2, <3>1
  <2>5. Is(f)
    <3> HIDE DEF body, chunk, ends
    <3>1. \A i \in 1..n : body(f, i) = f[i]
      BY <1>5, <2>3, <2>4
    <3>2. \A i \in 1..(n + 3) : i > n => body(f, i) = f[i]
      BY <1>6, <2>2
    <3>3. \A i \in 1..(n + 3) : i \in 1..n \/ i > n
      BY <1>1
    <3> HIDE DEF n
    <3>4. \A i \in 1..(n + 3) : f[i] = body(f, i)
      BY <3>1, <3>2, <3>3
    <3> QED
      BY <3>4
  <2> HIDE DEF Is
  <2> QED
    BY <1>2, <2>5
<1> DEFINE g == Telling(text, parameters)
<1> HIDE DEF g
<1>8. \A i \in 1..(n + 3) : g[i] = body(g, i)
  <2> HIDE DEF body, n
  <2> QED
    BY <1>7 DEF g
<1>9. \A i \in (n + 1)..(n + 3) : g[i] = <<>>
  <2> TAKE i \in (n + 1)..(n + 3)
  <2>1. i \in 1..(n + 3) /\ i > n
    BY <1>1
  <2> HIDE DEF body, n
  <2> QED
    BY <1>6, <1>8, <2>1
<1>10. \A i \in 1..n : g[i] = chunk(i) \o g[i + ends(i)]
  <2> TAKE i \in 1..n
  <2>1. i \in 1..(n + 3) /\ n + 1 \in (n + 1)..(n + 3)
    BY <1>1
  <2> HIDE DEF body, chunk, ends, n
  <2> QED
    BY <1>5, <1>8, <1>9, <2>1
<1>11. \A i \in 1..(n + 3) : g[i] \in X
  <2> DEFINE T == {i \in 1..(n + 3) : g[i] \in X}
  <2>1. ASSUME NEW i \in 1..(n + 3), \A j \in (i + 1)..(n + 3) : j \in T
        PROVE  i \in T
    <3>1. CASE i > n
      <4>1. i \in (n + 1)..(n + 3)
        BY <1>1, <3>1
      <4>2. g[i] = <<>>
        BY <1>9, <4>1
      <4> HIDE DEF X, n
      <4> QED
        BY <1>1, <4>2
    <3>2. CASE i \in 1..n
      <4>1. chunk(i) \in X /\ ends(i) \in 1..3
        BY <1>3, <3>2
      <4> DEFINE k == i + ends(i)
      <4>2. g[i] = chunk(i) \o g[k]
        BY <1>10, <3>2
      <4> HIDE DEF chunk, ends
      <4>3. k \in (i + 1)..(n + 3)
        BY <1>1, <3>2, <4>1
      <4> HIDE DEF k
      <4>4. g[k] \in X
        BY <2>1, <4>3
      <4>5. chunk(i) \o g[k] \in X
        BY <4>1, <4>4
      <4> HIDE DEF X
      <4> QED
        BY <4>2, <4>5
    <3>3. i > n \/ i \in 1..n
      BY <1>1
    <3> QED
      BY <3>1, <3>2, <3>3
  <2> HIDE DEF T
  <2>2. 1..(n + 3) \subseteq T
    <3>1. n + 3 \in Nat
      BY <1>1
    <3> QED
      BY <2>1, <3>1, FromTheEnd
  <2> QED
    BY <2>2 DEF T
<1> QED
  BY <1>9, <1>10, <1>11 DEF g

(* A text is told as its parts are, if the first ends no marker.           *)
LEMMA ToldOfParts ==
  ASSUME NEW u \in Seq(Nat), NEW z \in Seq(Nat), NEW parameters
  PROVE  /\ \A i \in 1..Len(z) :
              /\ ToldFor(u \o z, Len(u) + i, parameters) = ToldFor(z, i, parameters)
              /\ ToldBehind(u \o z, Len(u) + i) = ToldBehind(z, i)
         /\ EndsNoMarker(u) =>
              \A i \in 1..Len(u) :
                /\ ToldFor(u \o z, i, parameters) = ToldFor(u, i, parameters)
                /\ ToldBehind(u \o z, i) = ToldBehind(u, i)
                /\ i + ToldBehind(u, i) \in 1..(Len(u) + 1)
<1> DEFINE t == u \o z
           n == Len(u)
<1>1. n \in Nat /\ Len(z) \in Nat /\ Len(t) = n + Len(z)
  OBVIOUS
<1>2. /\ \A i \in 1..n : Char(t, i) = u[i] /\ Char(u, i) = u[i]
      /\ \A i \in Nat \ {0} : Char(t, n + i) = Char(z, i)
  BY CharOfConcat
<1> HIDE DEF t
<1>3. ASSUME NEW i \in 1..Len(z)
      PROVE  /\ ToldFor(t, n + i, parameters) = ToldFor(z, i, parameters)
             /\ ToldBehind(t, n + i) = ToldBehind(z, i)
  <2>1. (n + i) + 1 = n + (i + 1) /\ (n + i) + 2 = n + (i + 2) /\ (n + i = Len(t) <=> i = Len(z))
    <3>1. n \in Nat /\ i \in Nat /\ Len(z) \in Nat /\ Len(t) = n + Len(z)
      BY <1>1
    <3> HIDE DEF n
    <3> QED
      BY ONLY <3>1, SMTT(30)
  <2>2. i \in Nat \ {0} /\ i + 1 \in Nat \ {0} /\ i + 2 \in Nat \ {0}
    BY <1>1
  <2> HIDE DEF n
  <2>3. /\ Char(t, n + i) = Char(z, i)
        /\ Char(t, (n + i) + 1) = Char(z, i + 1)
        /\ Char(t, (n + i) + 2) = Char(z, i + 2)
    BY <1>2, <2>1, <2>2
  <2> QED
    BY <2>1, <2>3 DEF ToldFor, ToldBehind
<1>4. ASSUME EndsNoMarker(u), NEW i \in 1..n
      PROVE  /\ ToldFor(t, i, parameters) = ToldFor(u, i, parameters)
             /\ ToldBehind(t, i) = ToldBehind(u, i)
             /\ i + ToldBehind(u, i) \in 1..(n + 1)
  <2>1. Char(t, i) = u[i] /\ Char(u, i) = u[i]
    BY <1>2
  <2>2. CASE u[i] # parameterMarkerChar
    <3>1. ToldBehind(u, i) = 1
      BY <2>1, <2>2 DEF ToldBehind
    <3>2. i + 1 \in 1..(n + 1)
      BY <1>1
    <3> QED
      BY <2>1, <2>2, <3>1, <3>2 DEF ToldFor, ToldBehind
  <2>3. CASE u[i] = parameterMarkerChar
    <3>1. i < n /\ (u[i + 1] \in ParameterLetters => i + 1 < n)
      <4>1. i \in DOMAIN u
        OBVIOUS
      <4> QED
        BY <1>4, <2>3, <4>1 DEF EndsNoMarker
    <3>2. Char(t, i + 1) = u[i + 1] /\ Char(u, i + 1) = u[i + 1]
      <4>1. i + 1 \in 1..n
        BY <1>1, <3>1
      <4> QED
        BY <1>2, <4>1
    <3>3. u[i + 1] \in ParameterLetters => Char(t, i + 2) = Char(u, i + 2)
      <4> SUFFICES ASSUME u[i + 1] \in ParameterLetters
                   PROVE  Char(t, i + 2) = Char(u, i + 2)
        OBVIOUS
      <4>1. i + 2 \in 1..n
        BY <1>1, <3>1
      <4> QED
        BY <1>2, <4>1
    <3>4. i # n /\ i # Len(t)
      BY <1>1, <3>1
    <3>5. ToldBehind(u, i) = IF u[i + 1] \in ParameterLetters THEN 3 ELSE 2
      BY <2>1, <2>3, <3>2, <3>4 DEF ToldBehind
    <3>6. i + ToldBehind(u, i) \in 1..(n + 1)
      BY <1>1, <3>1, <3>5
    <3>7. ToldBehind(t, i) = ToldBehind(u, i)
      BY <2>1, <2>3, <3>2, <3>4, <3>5 DEF ToldBehind
    <3>8. ToldFor(t, i, parameters) = ToldFor(u, i, parameters)
      <4> HIDE DEF n
      <4> QED
        BY <2>1, <2>3, <3>2, <3>3, <3>4 DEF ToldFor, n
    <3> QED
      BY <3>6, <3>7, <3>8
  <2> QED
    BY <2>2, <2>3
<1> QED
  BY <1>3, <1>4 DEF t

LEMMA TellingOfConcat ==
  ASSUME NEW u \in Seq(Nat), NEW z \in Seq(Nat), EndsNoMarker(u),
         NEW parameters \in ParameterLists
  PROVE  Telling(u \o z, parameters)[1] = Telling(u, parameters)[1] \o Telling(z, parameters)[1]
<1> DEFINE t == u \o z
           n == Len(u)
           l == Len(z)
           f == Telling(t, parameters)
           g == Telling(u, parameters)
           h == Telling(z, parameters)
<1>1. n \in Nat /\ l \in Nat /\ Len(t) = n + l /\ t \in Seq(Nat)
  OBVIOUS
<1>2. /\ \A i \in 1..(n + 3) : g[i] \in Seq(Nat)
      /\ \A i \in (n + 1)..(n + 3) : g[i] = <<>>
      /\ \A i \in 1..n : g[i] = ToldFor(u, i, parameters) \o g[i + ToldBehind(u, i)]
  BY TellingIs
<1>3. /\ \A i \in 1..(l + 3) : h[i] \in Seq(Nat)
      /\ \A i \in (l + 1)..(l + 3) : h[i] = <<>>
      /\ \A i \in 1..l : h[i] = ToldFor(z, i, parameters) \o h[i + ToldBehind(z, i)]
  BY TellingIs
<1>4. /\ \A i \in (Len(t) + 1)..(Len(t) + 3) : f[i] = <<>>
      /\ \A i \in 1..Len(t) : f[i] = ToldFor(t, i, parameters) \o f[i + ToldBehind(t, i)]
  <2> HIDE DEF t
  <2> QED
    BY <1>1, TellingIs
<1>5. f[n + 1] = h[1]
  <2> DEFINE S == {i \in 1..(l + 3) : f[n + i] = h[i]}
  <2>1. ASSUME NEW i \in 1..(l + 3), \A j \in (i + 1)..(l + 3) : j \in S
        PROVE  i \in S
    <3>1. CASE i > l
      <4>1. n + i \in (Len(t) + 1)..(Len(t) + 3) /\ i \in (l + 1)..(l + 3)
        BY <1>1, <3>1
      <4>2. f[n + i] = <<>> /\ h[i] = <<>>
        <5> HIDE DEF f, h, t, n, l
        <5> QED
          BY <1>3, <1>4, <4>1
      <4> HIDE DEF f, h, n
      <4> QED
        BY <4>2
    <3>2. CASE i \in 1..l
      <4> DEFINE k == ToldBehind(z, i)
                 c == ToldFor(z, i, parameters)
      <4>1. k \in 1..3 /\ n + i \in 1..Len(t)
        BY <1>1, <3>2, ToldForIs
      <4>2. ToldFor(t, n + i, parameters) = c /\ ToldBehind(t, n + i) = k
        BY <3>2, ToldOfParts
      <4> HIDE DEF k, c
      <4>3. i + k \in (i + 1)..(l + 3) /\ (n + i) + k = n + (i + k)
        BY <1>1, <3>2, <4>1
      <4> HIDE DEF f, h, t, n, l
      <4>4. f[n + (i + k)] = h[i + k]
        BY <2>1, <4>3
      <4>5. f[n + i] = c \o f[n + (i + k)]
        BY <1>4, <4>1, <4>2, <4>3
      <4>6. h[i] = c \o h[i + k]
        BY <1>3, <3>2 DEF k, c
      <4> QED
        BY <4>4, <4>5, <4>6
    <3> QED
      BY <1>1, <3>1, <3>2
  <2>2. 1..(l + 3) \subseteq S
    <3>1. l + 3 \in Nat
      BY <1>1
    <3> HIDE DEF S, l
    <3> QED
      BY <2>1, <3>1, FromTheEnd
  <2>3. 1 \in 1..(l + 3)
    BY <1>1
  <2> HIDE DEF f, h, l
  <2> QED
    BY <2>2, <2>3
<1> DEFINE P == 1..(n + 1)
           chunk == [i \in P \ {n + 1} |-> ToldFor(u, i, parameters)]
           jump == [i \in P \ {n + 1} |-> ToldBehind(u, i)]
<1>6. ASSUME NEW i \in P \ {n + 1}
      PROVE  /\ i \in 1..n
             /\ ToldFor(t, i, parameters) = ToldFor(u, i, parameters)
             /\ ToldBehind(t, i) = ToldBehind(u, i)
             /\ i + ToldBehind(u, i) \in P
  <2>1. i \in 1..n
    BY <1>1
  <2>2. \A k \in 1..Len(u) :
          /\ ToldFor(u \o z, k, parameters) = ToldFor(u, k, parameters)
          /\ ToldBehind(u \o z, k) = ToldBehind(u, k)
          /\ k + ToldBehind(u, k) \in 1..(Len(u) + 1)
    <3> HIDE DEF n, t, P
    <3> QED
      BY ToldOfParts
  <2> QED
    BY ONLY <2>1, <2>2, Zenon
<1>7. \A i \in P : g[i] \in Seq(Nat) /\ f[i] = TwoParts(g[i], f[n + 1])
  <2>1. chunk \in [P \ {n + 1} -> Seq(Nat)] /\ jump \in [P \ {n + 1} -> Nat \ {0}]
    <3>1. \A i \in P \ {n + 1} :
            ToldFor(u, i, parameters) \in Seq(Nat) /\ ToldBehind(u, i) \in Nat \ {0}
      <4> TAKE i \in P \ {n + 1}
      <4>1. ToldFor(u, i, parameters) \in Seq(Nat) /\ ToldBehind(u, i) \in 1..3
        BY <1>6, ToldForIs
      <4> QED
        BY <4>1
    <3> QED
      BY <3>1
  <2>2. g[n + 1] = <<>> /\ f[n + 1] \in Seq(Nat)
    <3>1. n + 1 \in (n + 1)..(n + 3) /\ 1 \in 1..(l + 3)
      BY <1>1
    <3> HIDE DEF f, g, h, n, l
    <3> QED
      BY <1>2, <1>3, <1>5, <3>1
  <2>3. ASSUME NEW i \in P \ {n + 1}
        PROVE  /\ i + jump[i] \in P
               /\ f[i] = chunk[i] \o f[i + jump[i]]
               /\ g[i] = chunk[i] \o g[i + jump[i]]
    <3>1. i \in 1..Len(t) /\ i \in 1..n
      BY <1>1, <1>6
    <3>2. chunk[i] = ToldFor(u, i, parameters) /\ jump[i] = ToldBehind(u, i)
      OBVIOUS
    <3>3. /\ ToldFor(t, i, parameters) = ToldFor(u, i, parameters)
          /\ ToldBehind(t, i) = ToldBehind(u, i)
          /\ i + ToldBehind(u, i) \in P
      BY <1>6
    <3> HIDE DEF f, g, chunk, jump, t, n, P
    <3> QED
      BY <1>2, <1>4, <3>1, <3>2, <3>3
  <2>4. P \in SUBSET (1..(n + 1))
    OBVIOUS
  <2>5. n \in Nat
    BY <1>1
  <2> HIDE DEF f, g, chunk, jump, n, P
  <2>6. ReadAlike(Nat, n, P, chunk, jump, f, g)
    BY <2>1, <2>2, <2>3, <2>4, <2>5 DEF ReadAlike
  <2> QED
    BY <2>6, ReadsThePart
<1>8. 1 \in P
  BY <1>1
<1> HIDE DEF f, g, h
<1> QED
  BY <1>5, <1>7, <1>8 DEF f, g, h, TwoParts

LEMMA MarkersOfConcat ==
  ASSUME NEW u \in Seq(Nat), NEW z \in Seq(Nat), EndsNoMarker(u), EndsNoMarker(z)
  PROVE  EndsNoMarker(u \o z)
<1> DEFINE t == u \o z
           n == Len(u)
<1>1. /\ n \in Nat /\ Len(z) \in Nat /\ Len(t) = n + Len(z)
      /\ DOMAIN t = 1..(n + Len(z)) /\ DOMAIN u = 1..n /\ DOMAIN z = 1..Len(z)
      /\ \A i \in 1..n : t[i] = u[i]
      /\ \A i \in 1..Len(z) : t[n + i] = z[i]
  OBVIOUS
<1> HIDE DEF t
<1>2. ASSUME NEW i \in DOMAIN t, t[i] = parameterMarkerChar
      PROVE  i < Len(t) /\ (t[i + 1] \in ParameterLetters => i + 1 < Len(t))
  <2>1. CASE i \in 1..n
    <3>1. i < n /\ (u[i + 1] \in ParameterLetters => i + 1 < n)
      BY <1>1, <1>2, <2>1 DEF EndsNoMarker
    <3>2. i + 1 \in 1..n
      BY <1>1, <2>1, <3>1
    <3>3. t[i + 1] = u[i + 1]
      BY <1>1, <3>2
    <3> QED
      BY <1>1, <3>1, <3>3
  <2>2. CASE i \notin 1..n
    <3> DEFINE j == i - n
    <3>1. j \in 1..Len(z) /\ i = n + j /\ i + 1 = n + (j + 1)
      BY <1>1, <2>2
    <3> HIDE DEF j
    <3>2. z[j] = parameterMarkerChar
      BY <1>1, <1>2, <3>1
    <3>3. j < Len(z) /\ (z[j + 1] \in ParameterLetters => j + 1 < Len(z))
      BY <1>1, <3>1, <3>2 DEF EndsNoMarker
    <3>4. j + 1 \in 1..Len(z)
      BY <1>1, <3>1, <3>3
    <3>5. t[i + 1] = z[j + 1]
      BY <1>1, <3>1, <3>4
    <3> QED
      BY <1>1, <3>1, <3>3, <3>5
  <2> QED
    BY <2>1, <2>2
<1> QED
  BY <1>2 DEF EndsNoMarker, t

(* A text without a marker is told as it is, so that there is no need to   *)
(* look for one first.                                                     *)
LEMMA ProcessIsTelling ==
  ASSUME NEW text \in Seq(Nat), NEW parameters \in ParameterLists,
         \A i \in 1..Len(text) : text[i] # newLineMarkerChar
  PROVE  /\ process(text, parameters) = Telling(text, parameters)[1]
         /\ process(text, parameters) \in Seq(Nat)
<1> DEFINE n == Len(text)
           f == Telling(text, parameters)
<1>0. n \in Nat
  OBVIOUS
<1>1. /\ n \in Nat
      /\ \A i \in 1..(n + 3) : f[i] \in Seq(Nat)
      /\ \A i \in (n + 1)..(n + 3) : f[i] = <<>>
      /\ \A i \in 1..n : f[i] = ToldFor(text, i, parameters) \o f[i + ToldBehind(text, i)]
  BY <1>0, TellingIs
<1>2. 1 \in 1..(n + 3) /\ n + 1 \in (n + 1)..(n + 3) /\ n \in Int
  BY <1>1
<1>3. ASSUME \A i \in 1..n : text[i] # parameterMarkerChar
      PROVE  f[1] = text
  <2> DEFINE S == {i \in 1..(n + 1) : f[i] = SubSeq(text, i, n)}
  <2>1. ASSUME NEW i \in 1..(n + 1), \A j \in (i + 1)..(n + 1) : j \in S
        PROVE  i \in S
    <3>1. CASE i = n + 1
      <4>1. SubSeq(text, n + 1, n) = <<>>
        <5>1. n + 1 \in Int /\ n < n + 1
          BY <1>2
        <5> HIDE DEF n
        <5> QED
          BY <1>2, <5>1, SubSeqEmpty
      <4>2. f[n + 1] = <<>>
        <5> HIDE DEF f, n
        <5> QED
          BY <1>1, <1>2
      <4> HIDE DEF f, n
      <4> QED
        BY <3>1, <4>1, <4>2
    <3>2. CASE i # n + 1
      <4>1. i \in 1..n /\ n \in i..n /\ i <= Len(text)
        BY <1>1, <3>2
      <4>2. Char(text, i) = text[i]
        BY <4>1 DEF Char
      <4>3. ToldFor(text, i, parameters) = <<text[i]>> /\ ToldBehind(text, i) = 1
        BY <1>3, <4>1, <4>2 DEF ToldFor, ToldBehind
      <4>4. SubSeq(text, i, n) = <<text[i]>> \o SubSeq(text, i + 1, n)
        BY <4>1, SubSeqRecursiveFirst
      <4>5. f[i + 1] = SubSeq(text, i + 1, n)
        <5>1. i + 1 \in (i + 1)..(n + 1)
          BY <1>1, <4>1
        <5> HIDE DEF f, n
        <5> QED
          BY <2>1, <5>1
      <4> HIDE DEF f, n
      <4> QED
        BY <1>1, <4>1, <4>3, <4>4, <4>5
    <3> QED
      BY <3>1, <3>2
  <2>2. 1..(n + 1) \subseteq S
    <3>1. n + 1 \in Nat
      BY <1>1
    <3> HIDE DEF S, n
    <3> QED
      BY <2>1, <3>1, FromTheEnd
  <2>3. 1 \in 1..(n + 1) /\ SubSeq(text, 1, n) = text
    BY <1>1, SubSeqFull
  <2> HIDE DEF f, n
  <2> QED
    BY <2>2, <2>3
<1>4. process(text, parameters) =
        IF \E i \in 1..n : text[i] = parameterMarkerChar THEN f[1] ELSE text
  BY ProcessIs
<1> HIDE DEF f, n
<1> QED
  BY <1>1, <1>2, <1>3, <1>4 DEF f, n
-----------------------------------------------------------------------------
(* What is told of a line is what is told of it without the spaces at its  *)
(* ends.                                                                   *)
HasNoSpaces(w) == w = <<>> \/ {Head(w), Last(w)} \cap Spaces = {}

LEMMA TrimmedIs ==
  ASSUME NEW w \in Seq(Nat), HasNoSpaces(w)
  PROVE  Trimmed(w) = w /\ Trimmed(<<9>> \o w \o <<32>>) = w
<1> DEFINE n == Len(w)
           kept(s) == {i \in DOMAIN s : s[i] \notin Spaces}
           first(s) == CHOOSE i \in kept(s) : \A j \in kept(s) : i <= j
           last(s) == CHOOSE i \in kept(s) : \A j \in kept(s) : j <= i
           t == <<9>> \o w \o <<32>>
           u == <<9>> \o w
<1>1. /\ n \in Nat /\ u \in Seq(Nat) /\ t \in Seq(Nat) /\ t = u \o <<32>>
      /\ Len(u) = n + 1 /\ Len(t) = n + 2
      /\ DOMAIN w = 1..n /\ DOMAIN t = 1..(n + 2)
  OBVIOUS
<1>2. /\ t[1] = 9 /\ t[n + 2] = 32
      /\ \A i \in 1..n : t[i + 1] = w[i]
  <2>1. u[1] = 9 /\ \A i \in 1..n : u[i + 1] = w[i]
    OBVIOUS
  <2>2. /\ \A i \in 1..(n + 1) : t[i] = u[i]
        /\ t[(n + 1) + 1] = 32
    <3> HIDE DEF u
    <3>1. Len(u) = n + 1 /\ u \in Seq(Nat) /\ n + 1 \in Nat
      BY <1>1
    <3>2. \A i \in 1..(n + 1) : (u \o <<32>>)[i] = u[i]
      BY <3>1
    <3>3. (u \o <<32>>)[(n + 1) + 1] = 32
      BY <3>1
    <3> QED
      BY <3>2, <3>3 DEF u
  <2>3. 1 \in 1..(n + 1) /\ (n + 1) + 1 = n + 2 /\ \A i \in 1..n : i + 1 \in 1..(n + 1)
    BY <1>1
  <2> HIDE DEF t, u
  <2> QED
    BY <2>1, <2>2, <2>3
<1> HIDE DEF t, u
<1>3. ASSUME NEW s, kept(s) # {}
      PROVE  Trimmed(s) = SubSeq(s, first(s), last(s))
  BY <1>3 DEF Trimmed
<1>4. ASSUME NEW s, NEW a \in kept(s), \A j \in kept(s) : a <= j, kept(s) \subseteq Nat
      PROVE  first(s) = a
  <2>1. first(s) \in kept(s) /\ \A j \in kept(s) : first(s) <= j
    BY <1>4
  <2> HIDE DEF first, kept
  <2>2. first(s) <= a /\ a <= first(s) /\ a \in Nat /\ first(s) \in Nat
    BY <1>4, <2>1
  <2> QED
    BY <2>2
<1>5. ASSUME NEW s, NEW a \in kept(s), \A j \in kept(s) : j <= a, kept(s) \subseteq Nat
      PROVE  last(s) = a
  <2>1. last(s) \in kept(s) /\ \A j \in kept(s) : j <= last(s)
    BY <1>5
  <2> HIDE DEF last, kept
  <2>2. last(s) <= a /\ a <= last(s) /\ a \in Nat /\ last(s) \in Nat
    BY <1>5, <2>1
  <2> QED
    BY <2>2
<1>6. CASE w = <<>>
  <2>1. n = 0
    BY <1>6
  <2>2. kept(w) = {}
    BY <1>1, <2>1
  <2>3. kept(t) = {}
    <3>1. \A i \in DOMAIN t : t[i] \in {9, 32}
      <4>1. DOMAIN t = 1..2 /\ t[2] = 32
        BY <1>1, <1>2, <2>1
      <4> QED
        BY <1>2, <4>1
    <3> QED
      BY <3>1 DEF Spaces
  <2>4. Trimmed(w) = <<>> /\ Trimmed(t) = <<>>
    BY <2>2, <2>3 DEF Trimmed
  <2> QED
    BY <1>6, <2>4 DEF t, u
<1>7. CASE w # <<>>
  <2>1. n \in Nat \ {0}
    BY <1>7, EmptySeq
  <2>2. w[1] \notin Spaces /\ w[n] \notin Spaces
    <3>1. Head(w) = w[1] /\ Last(w) = w[n]
      BY <2>1 DEF Last
    <3> QED
      BY <1>7, <3>1 DEF HasNoSpaces
  <2>3. 1 \in kept(w) /\ n \in kept(w) /\ kept(w) \subseteq 1..n
    BY <1>1, <2>1, <2>2
  <2>4. 2 \in kept(t) /\ n + 1 \in kept(t) /\ kept(t) \subseteq 2..(n + 1)
    <3>1. t[2] = w[1] /\ t[n + 1] = w[n] /\ 2 \in DOMAIN t /\ n + 1 \in DOMAIN t
      BY <1>1, <1>2, <2>1
    <3>2. 1 \notin kept(t) /\ n + 2 \notin kept(t)
      BY <1>2 DEF Spaces
    <3>3. \A i \in DOMAIN t : i = 1 \/ i = n + 2 \/ i \in 2..(n + 1)
      BY <1>1
    <3>4. kept(t) \subseteq 2..(n + 1)
      BY <3>2, <3>3
    <3> QED
      BY <2>2, <3>1, <3>4
  <2>5. Trimmed(w) = SubSeq(w, 1, n)
    <3>1. kept(w) # {} /\ kept(w) \subseteq Nat
      BY <2>3
    <3>2. first(w) = 1
      <4>1. \A j \in kept(w) : 1 <= j
        BY <2>3
      <4> HIDE DEF kept, first
      <4> QED
        BY <1>4, <2>3, <3>1, <4>1
    <3>3. last(w) = n
      <4>1. \A j \in kept(w) : j <= n
        BY <2>3
      <4> HIDE DEF kept, last, n
      <4> QED
        BY <1>5, <2>3, <3>1, <4>1
    <3> HIDE DEF kept, first, last, n
    <3> QED
      BY <1>3, <3>1, <3>2, <3>3
  <2>6. Trimmed(t) = SubSeq(t, 2, n + 1)
    <3>1. kept(t) # {} /\ kept(t) \subseteq Nat
      BY <2>4
    <3>2. first(t) = 2
      <4>1. \A j \in kept(t) : 2 <= j
        BY <2>4
      <4> HIDE DEF kept, first
      <4> QED
        BY <1>4, <2>4, <3>1, <4>1
    <3>3. last(t) = n + 1
      <4>1. \A j \in kept(t) : j <= n + 1
        BY <1>1, <2>4
      <4> HIDE DEF kept, last, n
      <4> QED
        BY <1>5, <2>4, <3>1, <4>1
    <3> HIDE DEF kept, first, last, n
    <3> QED
      BY <1>3, <3>1, <3>2, <3>3
  <2>7. SubSeq(w, 1, n) = w
    BY SubSeqFull
  <2>8. SubSeq(t, 2, n + 1) = SubSeq(w, 1, n)
    <3>1. n - 1 \in Nat /\ 2 + (n - 1) = n + 1 /\ 1 + (1 + (n - 1)) = n + 1 /\ 1 + (n - 1) = n
      BY <2>1
    <3>2. SubSeq(u \o <<32>>, 2, 2 + (n - 1)) = SubSeq(u, 2, 2 + (n - 1))
      <4>1. 2 + (n - 1) <= Len(u) /\ 2 \in Nat \ {0} /\ <<32>> \in Seq(Nat)
        BY <1>1, <3>1
      <4> HIDE DEF n
      <4> QED
        BY <1>1, <3>1, <4>1, SubSeqOfConcat
    <3>3. SubSeq(<<9>> \o w, 1 + 1, 1 + (1 + (n - 1))) = SubSeq(w, 1, 1 + (n - 1))
      <4>1. 1 + (n - 1) <= Len(w) /\ 1 \in Nat \ {0} /\ <<9>> \in Seq(Nat) /\ Len(<<9>>) = 1
        BY <3>1
      <4> HIDE DEF n
      <4> QED
        BY <3>1, <4>1, SubSeqOfConcat
    <3>4. 1 + 1 = 2
      OBVIOUS
    <3> HIDE DEF n
    <3> QED
      BY <1>1, <3>1, <3>2, <3>3, <3>4 DEF u
  <2> QED
    BY <2>5, <2>6, <2>7, <2>8 DEF t, u
<1> QED
  BY <1>6, <1>7 DEF t, u

(* Characters are softened one by one.                                     *)
Softly(text) == [i \in DOMAIN text |-> softened(text[i])]

LEMMA SoftlyIs ==
  ASSUME NEW text \in Seq(Nat)
  PROVE  /\ Softly(text) \in Seq(Nat) /\ Len(Softly(text)) = Len(text)
         /\ \A i \in 1..Len(text) :
              Softly(text)[i] = softened(text[i]) /\ Softly(text)[i] # newLineMarkerChar
<1> DEFINE n == Len(text)
<1>1. n \in Nat /\ DOMAIN text = 1..n /\ \A i \in 1..n : text[i] \in Nat
  OBVIOUS
<1>2. \A i \in 1..n : softened(text[i]) \in Nat /\ softened(text[i]) # newLineMarkerChar
  BY <1>1, SoftenedIs
<1>3. Softly(text) = [i \in 1..n |-> softened(text[i])]
  BY <1>1 DEF Softly
<1> HIDE DEF n
<1>4. Softly(text) \in Seq(Nat) /\ Len(Softly(text)) = n
  BY <1>1, <1>2, <1>3
<1> QED
  BY <1>1, <1>2, <1>3, <1>4 DEF n

LEMMA SoftlyOfConcat ==
  ASSUME NEW u \in Seq(Nat), NEW z \in Seq(Nat)
  PROVE  Softly(u \o z) = Softly(u) \o Softly(z)
<1> DEFINE t == u \o z
           n == Len(u)
           a == Softly(t)
           c == Softly(u)
           d == Softly(z)
           b == c \o d
<1>1. /\ n \in Nat /\ Len(z) \in Nat /\ t \in Seq(Nat) /\ Len(t) = n + Len(z)
      /\ \A i \in 1..n : t[i] = u[i]
      /\ \A i \in 1..Len(z) : t[n + i] = z[i]
  OBVIOUS
<1> HIDE DEF t, n
<1>2. a \in Seq(Nat) /\ Len(a) = Len(t) /\ \A i \in 1..Len(t) : a[i] = softened(t[i])
  BY <1>1, SoftlyIs
<1>3. c \in Seq(Nat) /\ Len(c) = n /\ \A i \in 1..n : c[i] = softened(u[i])
  BY SoftlyIs DEF n
<1>4. d \in Seq(Nat) /\ Len(d) = Len(z) /\ \A i \in 1..Len(z) : d[i] = softened(z[i])
  BY SoftlyIs
<1> HIDE DEF a, c, d
<1>5. /\ b \in Seq(Nat) /\ Len(b) = n + Len(z)
      /\ \A i \in 1..n : b[i] = c[i]
      /\ \A i \in 1..Len(z) : b[n + i] = d[i]
  <2>1. /\ b \in Seq(Nat) /\ Len(b) = Len(c) + Len(d)
        /\ \A i \in 1..Len(c) : b[i] = c[i]
        /\ \A i \in 1..Len(d) : b[Len(c) + i] = d[i]
    <3>1. c \in Seq(Nat) /\ d \in Seq(Nat)
      BY <1>3, <1>4
    <3> QED
      BY ONLY <3>1
  <2> HIDE DEF b
  <2> QED
    BY <1>3, <1>4, <2>1
<1> HIDE DEF b
<1>6. \A i \in 1..Len(t) : a[i] = b[i]
  <2> TAKE i \in 1..Len(t)
  <2>1. CASE i \in 1..n
    BY <1>1, <1>2, <1>3, <1>5, <2>1
  <2>2. CASE i \notin 1..n
    <3> DEFINE j == i - n
    <3>1. j \in 1..Len(z) /\ i = n + j
      BY <1>1, <2>2
    <3> HIDE DEF j
    <3> QED
      BY <1>1, <1>2, <1>4, <1>5, <3>1
  <2> QED
    BY <2>1, <2>2
<1>7. a = b
  BY <1>1, <1>2, <1>5, <1>6, SeqEqual
<1> QED
  BY <1>7 DEF a, b, c, d, t

(* What a line without spaces at its ends is read as                       *)
Reading(w) == decoded(Strokes(w)[1])

LEMMA ReadingIs ==
  ASSUME NEW w \in Seq(Nat)
  PROVE  Strokes(w)[1] \in Seq(Nat) /\ Reading(w) \in Decodings
<1>1. Strokes(w)[1] \in Seq(Nat)
  <2>1. 1 \in 1..(Len(w) + 4)
    OBVIOUS
  <2> QED
    BY <2>1, StrokesAre
<1> QED
  BY <1>1, DecodedOfConcat DEF Reading

LEMMA LineIs ==
  ASSUME NEW w \in Seq(Nat), NEW line, Trimmed(line) = w
  PROVE  /\ ResultOf(line) = "done" <=> Reading(w).result = "done"
         /\ ResultOf(line) = "forever" <=> Reading(w).result = "EILSEQ"
         /\ Reading(w).result = "done" => TextOf(line) = Softly(Reading(w).text)
<1> DEFINE b == Strokes(w)[1]
           d == decoded(b)
<1>1. preprocess(line) = b
  BY PreprocessIs
<1>2. d.result \in {"done", "EILSEQ", "EINVAL"}
  BY ReadingIs DEF Reading, Decodings
<1> HIDE DEF b
<1>3. convDesc # NoDescriptor /\ iconv(convDesc, b) = d
  <2>1. convDesc # NoDescriptor
    BY TextsAssumption
  <2>2. convDesc = [to |-> KINE_INTERNAL_CHARSET, from |-> KINE_LANGFILE_CHARSET]
    BY <2>1 DEF convDesc, iconv_open
  <2>3. convDesc.to = KINE_INTERNAL_CHARSET
    BY <2>2
  <2> HIDE DEF d
  <2> QED
    BY <2>1, <2>3 DEF iconv, d
<1> HIDE DEF d
<1> DEFINE c == convertChars(convDesc, b)
<1>4. /\ d.result = "done" => c = d
      /\ d.result = "EILSEQ" => c.result = "forever"
      /\ d.result = "EINVAL" => c.result = "refused"
  BY <1>3 DEF convertChars
<1> HIDE DEF c
<1>5. ResultOf(line) = c.result
  BY <1>1 DEF ResultOf, c
<1>6. TextOf(line) = Softly(c.text)
  BY <1>1 DEF TextOf, Softly, c
<1> QED
  BY <1>2, <1>4, <1>5, <1>6 DEF Reading, b, d
-----------------------------------------------------------------------------
(* What is sent in UTF-8 can be read back.                                 *)
LEMMA DividedBy64 ==
  ASSUME NEW c \in Nat
  PROVE  c = 64 * (c \div 64) + (c % 64) /\ c % 64 \in 0..63 /\ c \div 64 \in Nat
BY SMTT(30)

LEMMA DividedByMore ==
  ASSUME NEW c \in Nat
  PROVE  c \div 4096 = (c \div 64) \div 64 /\ c \div 262144 = (c \div 4096) \div 64
<1>1. c \div 4096 = (c \div 64) \div 64
  BY SMTT(30)
<1>2. c \div 262144 = (c \div 4096) \div 64
  BY SMTT(30)
<1> QED
  BY <1>1, <1>2

LEMMA InSixtyFours ==
  ASSUME NEW c \in Nat
  PROVE  /\ c = 64 * (c \div 64) + (c % 64)
         /\ c = 4096 * (c \div 4096) + 64 * ((c \div 64) % 64) + (c % 64)
         /\ c = 262144 * (c \div 262144) + 4096 * ((c \div 4096) % 64)
                + 64 * ((c \div 64) % 64) + (c % 64)
<1> DEFINE q1 == c \div 64
           q2 == c \div 4096
           q3 == c \div 262144
           r0 == c % 64
           r1 == q1 % 64
           r2 == q2 % 64
<1>1. c = 64 * q1 + r0 /\ r0 \in 0..63 /\ q1 \in Nat
  BY DividedBy64
<1>2. q2 = q1 \div 64 /\ q3 = q2 \div 64
  BY DividedByMore
<1> HIDE DEF q1, q2, q3, r0
<1>3. q1 = 64 * q2 + r1 /\ r1 \in 0..63 /\ q2 \in Nat
  BY <1>1, <1>2, DividedBy64
<1>4. q2 = 64 * q3 + r2 /\ r2 \in 0..63 /\ q3 \in Nat
  BY <1>2, <1>3, DividedBy64
<1> HIDE DEF r1, r2
<1>5. c = 4096 * q2 + 64 * r1 + r0
  BY ONLY <1>1, <1>3, SMT
<1>6. c = 262144 * q3 + 4096 * r2 + 64 * r1 + r0
  BY ONLY <1>1, <1>3, <1>4, SMT
<1> QED
  BY <1>1, <1>5, <1>6 DEF q1, q2, q3, r0, r1, r2

(* b is the whole sequence of octets that c is encoded in.                 *)
Encodes(b, c) ==
  /\ b \in Seq(Nat) /\ Len(b) \in 1..4
  /\ Following(b[1]) = Len(b) - 1
  /\ \A j \in 2..Len(b) : b[j] \in 128..191
  /\ CodePoint(b) = c
  /\ Lowest(Len(b) - 1) <= c

CharacterLimit == 1114112

LEMMA OctetsAre ==
  ASSUME NEW c \in Nat, c < CharacterLimit
  PROVE  Encodes(Octets(c), c)
<1> DEFINE q1 == c \div 64
           q2 == c \div 4096
           q3 == c \div 262144
           r0 == c % 64
           r1 == q1 % 64
           r2 == q2 % 64
<1>1. /\ c = 64 * q1 + r0
      /\ c = 4096 * q2 + 64 * r1 + r0
      /\ c = 262144 * q3 + 4096 * r2 + 64 * r1 + r0
  BY InSixtyFours
<1>2. /\ r0 \in 0..63 /\ r1 \in 0..63 /\ r2 \in 0..63
      /\ q1 \in Nat /\ q2 \in Nat /\ q3 \in Nat
  <2>1. q1 \in Nat /\ r0 \in 0..63
    BY DividedBy64
  <2>2. q2 = q1 \div 64 /\ q3 = q2 \div 64
    BY DividedByMore
  <2> HIDE DEF q1, q2, q3, r0
  <2>3. q2 \in Nat /\ r1 \in 0..63
    BY <2>1, <2>2, DividedBy64
  <2>4. q3 \in Nat /\ r2 \in 0..63
    BY <2>2, <2>3, DividedBy64
  <2> QED
    BY <2>1, <2>3, <2>4
<1>3. Octets(c) = IF c < 128 THEN <<c>>
                  ELSE IF c < 2048 THEN <<192 + q1, 128 + r0>>
                  ELSE IF c < 65536 THEN <<224 + q2, 128 + r1, 128 + r0>>
                  ELSE <<240 + q3, 128 + r2, 128 + r1, 128 + r0>>
  BY DEF Octets
<1> HIDE DEF q1, q2, q3, r0, r1, r2
<1>4. CASE c < 128
  <2>1. Octets(c) = <<c>>
    BY <1>3, <1>4, SMT
  <2>2. Following(c) = 0 /\ Lowest(0) = 0 /\ CodePoint(<<c>>) = c
    BY <1>4, SMT DEF Following, Lowest, CodePoint
  <2>3. <<c>> \in Seq(Nat) /\ Len(<<c>>) = 1 /\ <<c>>[1] = c
    OBVIOUS
  <2> QED
    BY SMT, <2>1, <2>2, <2>3 DEF Encodes
<1>5. CASE ~(c < 128) /\ c < 2048
  <2> DEFINE s == <<192 + q1, 128 + r0>>
  <2>1. Octets(c) = s
    BY <1>3, <1>5, SMT
  <2>2. q1 \in 2..31
    BY ONLY <1>1, <1>2, <1>5, c \in Nat, SMT
  <2>3. s \in Seq(Nat) /\ Len(s) = 2 /\ s[1] = 192 + q1 /\ s[2] = 128 + r0
    BY <1>2, SMT
  <2> HIDE DEF s
  <2>4. Following(192 + q1) = 1 /\ Lowest(1) = 128
    <3>1. 192 + q1 \in 194..223
      BY ONLY <2>2, SMT
    <3> QED
      BY <3>1, SMT DEF Following, Lowest
  <2>5. s[2] \in 128..191
    BY <1>2, <2>3, SMT
  <2>6. CodePoint(s) = 64 * ((192 + q1) - 192) + ((128 + r0) - 128)
    BY <2>3, SMT DEF CodePoint
  <2>7. CodePoint(s) = c
    BY ONLY <1>1, <1>2, <2>6, SMT
  <2> QED
    BY SMT, <1>5, <2>1, <2>3, <2>4, <2>5, <2>7 DEF Encodes
<1>6. CASE ~(c < 128) /\ ~(c < 2048) /\ c < 65536
  <2> DEFINE s == <<224 + q2, 128 + r1, 128 + r0>>
  <2>1. Octets(c) = s
    BY <1>3, <1>6, SMT
  <2>2. q2 \in 0..15
    BY ONLY <1>1, <1>2, <1>6, c \in Nat, SMT
  <2>3. s \in Seq(Nat) /\ Len(s) = 3 /\ s[1] = 224 + q2 /\ s[2] = 128 + r1 /\ s[3] = 128 + r0
    BY <1>2, SMT
  <2> HIDE DEF s
  <2>4. Following(224 + q2) = 2 /\ Lowest(2) = 2048
    <3>1. 224 + q2 \in 224..239
      BY ONLY <2>2, SMT
    <3> QED
      BY <3>1, SMT DEF Following, Lowest
  <2>5. s[2] \in 128..191 /\ s[3] \in 128..191
    BY <1>2, <2>3, SMT
  <2>6. CodePoint(s) = 4096 * ((224 + q2) - 224) + 64 * ((128 + r1) - 128) + ((128 + r0) - 128)
    BY <2>3, SMT DEF CodePoint
  <2>7. CodePoint(s) = c
    BY ONLY <1>1, <1>2, <2>6, SMT
  <2> QED
    BY SMT, <1>6, <2>1, <2>3, <2>4, <2>5, <2>7 DEF Encodes
<1>7. CASE ~(c < 128) /\ ~(c < 2048) /\ ~(c < 65536)
  <2> DEFINE s == <<240 + q3, 128 + r2, 128 + r1, 128 + r0>>
  <2>1. Octets(c) = s
    BY <1>3, <1>7, SMT
  <2>2. q3 \in 0..4
    BY ONLY <1>1, <1>2, c \in Nat, c < CharacterLimit, SMT DEF CharacterLimit
  <2>3. /\ s \in Seq(Nat) /\ Len(s) = 4 /\ s[1] = 240 + q3
        /\ s[2] = 128 + r2 /\ s[3] = 128 + r1 /\ s[4] = 128 + r0
    BY <1>2, SMT
  <2> HIDE DEF s
  <2>4. Following(240 + q3) = 3 /\ Lowest(3) = 65536
    <3>1. 240 + q3 \in 240..244
      BY ONLY <2>2, SMT
    <3> QED
      BY <3>1, SMT DEF Following, Lowest
  <2>5. s[2] \in 128..191 /\ s[3] \in 128..191 /\ s[4] \in 128..191
    BY <1>2, <2>3, SMT
  <2>6. CodePoint(s) = 262144 * ((240 + q3) - 240) + 4096 * ((128 + r2) - 128)
                       + 64 * ((128 + r1) - 128) + ((128 + r0) - 128)
    BY <2>3, SMT DEF CodePoint
  <2>7. CodePoint(s) = c
    BY ONLY <1>1, <1>2, <2>6, SMT
  <2> QED
    BY SMT, <1>7, <2>1, <2>3, <2>4, <2>5, <2>7 DEF Encodes
<1> QED
  BY SMT, <1>4, <1>5, <1>6, <1>7

LEMMA DecodedOctets ==
  ASSUME NEW c \in Nat, c < CharacterLimit
  PROVE  Octets(c) \in Seq(Nat) /\ decoded(Octets(c)) = [result |-> "done", text |-> <<c>>]
<1> DEFINE b == Octets(c)
           n == Len(b)
           k == Following(b[1])
           f == Decoding(b)
<1>1. /\ b \in Seq(Nat) /\ n \in 1..4 /\ k = n - 1
      /\ \A j \in 2..n : b[j] \in 128..191
      /\ CodePoint(b) = c /\ Lowest(k) <= c
  BY OctetsAre DEF Encodes
<1> HIDE DEF b
<1>2. 1 \in 1..n /\ 1 + k <= n /\ 1 + k = n /\ k # -1 /\ ~(n < k + 1) /\ 1 + (k + 1) = n + 1
  BY <1>1
<1>3. SequenceAt(b, 1) = b
  <2>1. SequenceAt(b, 1) = SubSeq(b, 1, n)
    <3> HIDE DEF n, k
    <3> QED
      BY <1>2 DEF SequenceAt, n, k
  <2> QED
    BY <1>1, <2>1, SubSeqFull
<1> HIDE DEF k
<1>4. ResultAt(b, 1) = "done"
  <2>1. LegalAt(b, 1)
    <3> HIDE DEF n
    <3> QED
      BY <1>1, <1>2, <1>3 DEF LegalAt, k, n
  <2>2. ~(CodePoint(b) < Lowest(k))
    <3>1. Lowest(k) \in Nat
      BY SMT DEF Lowest
    <3> QED
      BY <1>1, <3>1
  <2> HIDE DEF n
  <2> QED
    BY <1>2, <1>3, <2>1, <2>2 DEF ResultAt, k, n
<1>5. /\ \A i \in (n + 1)..(n + 4) : f[i] = [result |-> "done", text |-> <<>>]
      /\ \A i \in 1..n :
           IF ResultAt(b, i) = "done"
           THEN f[i] = [result |-> f[i + (Following(b[i]) + 1)].result,
                        text |-> <<CodePoint(SequenceAt(b, i))>>
                                 \o f[i + (Following(b[i]) + 1)].text]
           ELSE f[i] = [result |-> ResultAt(b, i), text |-> <<>>]
  BY <1>1, DecodingIs
<1> HIDE DEF f
<1>6. f[n + 1] = [result |-> "done", text |-> <<>>]
  <2>1. n + 1 \in (n + 1)..(n + 4)
    BY <1>1
  <2> HIDE DEF n
  <2> QED
    BY <1>5, <2>1
<1>7. f[1] = [result |-> f[n + 1].result, text |-> <<c>> \o f[n + 1].text]
  <2> HIDE DEF n
  <2> QED
    BY <1>1, <1>2, <1>3, <1>4, <1>5 DEF k
<1>8. <<c>> \o <<>> = <<c>>
  OBVIOUS
<1> HIDE DEF n
<1>9. f[1] = [result |-> "done", text |-> <<c>>]
  BY <1>6, <1>7, <1>8
<1> QED
  BY <1>1, <1>9, DecodedIs DEF f, b

LEMMA DecodedEncoded ==
  ASSUME NEW text \in Seq(Nat), \A i \in 1..Len(text) : text[i] < CharacterLimit
  PROVE  decoded(encoded(text).text).result = "done" /\ decoded(encoded(text).text).text = text
<1> DEFINE n == Len(text)
           ss == [i \in DOMAIN text |-> Octets(text[i])]
<1>1. n \in Nat /\ DOMAIN text = 1..n /\ \A i \in 1..n : text[i] \in Nat
  OBVIOUS
<1>2. \A i \in 1..n : /\ Octets(text[i]) \in Seq(Nat)
                      /\ decoded(Octets(text[i])) = [result |-> "done", text |-> <<text[i]>>]
  BY <1>1, DecodedOctets
<1>3. ss \in Seq(Seq(Nat)) /\ Len(ss) = n /\ \A i \in 1..n : ss[i] = Octets(text[i])
  <2>1. ss = [i \in 1..n |-> Octets(text[i])]
    BY <1>1
  <2> HIDE DEF ss, n
  <2> QED
    BY <1>1, <1>2, <2>1
<1> HIDE DEF ss
<1>4. PICK g : Appending(g, Nat, ss, n)
  <2> HIDE DEF n
  <2> QED
    BY <1>3, FlattenByRounds
<1>5. /\ g \in [0..n -> Seq(Nat)] /\ g[0] = <<>> /\ g[n] = FlattenSeq(ss)
      /\ \A i \in 1..n : g[i] = g[i - 1] \o ss[i]
  BY <1>4 DEF Appending
<1> DEFINE Holds(i) == decoded(g[i]).result = "done" /\ decoded(g[i]).text = SubSeq(text, 1, i)
           S == {i \in 0..n : Holds(i)}
<1>6. 0 \in S
  <2>1. decoded(<<>>) = [result |-> "done", text |-> <<>>]
    <3>1. <<>> \in Seq(Nat) /\ 1 \in (Len(<<>>) + 1)..(Len(<<>>) + 4)
      OBVIOUS
    <3> QED
      BY <3>1, DecodedIs, DecodingIs
  <2>2. SubSeq(text, 1, 0) = <<>>
    OBVIOUS
  <2>3. Holds(0)
    BY <1>5, <2>1, <2>2
  <2> HIDE DEF Holds
  <2> QED
    BY <1>1, <2>3
<1>7. ASSUME NEW i \in 1..n, i - 1 \in S
      PROVE  i \in S
  <2>1. i - 1 \in 0..n /\ i \in 0..n /\ 1 \in 1..n /\ i \in 1..Len(text)
    BY <1>1
  <2> DEFINE u == g[i - 1]
             z == ss[i]
  <2>2. u \in Seq(Nat) /\ z \in Seq(Nat) /\ g[i] = u \o z
    BY <1>1, <1>2, <1>3, <1>5, <2>1
  <2>3. decoded(u).result = "done" /\ decoded(u).text = SubSeq(text, 1, i - 1)
    BY <1>7
  <2>4. decoded(z) = [result |-> "done", text |-> <<text[i]>>]
    BY <1>2, <1>3
  <2> HIDE DEF u, z
  <2>5. /\ decoded(g[i]).result = "done"
        /\ decoded(g[i]).text = SubSeq(text, 1, i - 1) \o <<text[i]>>
    <3>1. /\ decoded(u \o z).result = decoded(z).result
          /\ decoded(u \o z).text = decoded(u).text \o decoded(z).text
      BY ONLY <2>2, <2>3, DecodedOfConcat
    <3>2. decoded(z).result = "done" /\ decoded(z).text = <<text[i]>>
      BY <2>4
    <3> QED
      BY <2>2, <2>3, <3>1, <3>2
  <2>6. SubSeq(text, 1, i) = SubSeq(text, 1, i - 1) \o <<text[i]>>
    BY <2>1, SubSeqRecursiveSecond
  <2>7. Holds(i)
    BY <2>5, <2>6
  <2> HIDE DEF Holds
  <2> QED
    BY <2>1, <2>7
<1>8. n \in S
  <2> HIDE DEF S, n
  <2>1. 0..n \subseteq S
    BY <1>1, <1>6, <1>7, RoundByRound
  <2> QED
    BY <1>1, <2>1
<1>9. encoded(text).text = FlattenSeq(ss)
  BY DEF encoded, ss
<1>10. SubSeq(text, 1, n) = text
  BY SubSeqFull
<1>11. Holds(n)
  BY <1>8
<1> HIDE DEF n
<1> QED
  BY <1>5, <1>9, <1>10, <1>11

(* What a client is sent of a text in UTF-8, and what it is understood to  *)
(* say                                                                     *)
SentOf(text) == convertChars(changeOutputCharset("UTF-8").convDesc, text)
SaidOf(octets) == localiseStr(changeInputCharset("UTF-8").convDesc, octets)

LEMMA SentIs ==
  ASSUME NEW text \in Seq(Nat)
  PROVE  /\ SentOf(text).result = "done" <=> \A i \in 1..Len(text) : text[i] < CharacterLimit
         /\ SentOf(text).result = "done" => SaidOf(SentOf(text).text) = text
<1> DEFINE in == [to |-> KINE_INTERNAL_CHARSET, from |-> "UTF-8"]
           out == [to |-> "UTF-8", from |-> KINE_INTERNAL_CHARSET]
<1>1. /\ changeInputCharset("UTF-8").convDesc = in
      /\ changeOutputCharset("UTF-8").convDesc = out
  <2>1. {KINE_INTERNAL_CHARSET, "UTF-8"} \subseteq Charsets
    BY TextsAssumption DEF convDesc, iconv_open, KINE_LANGFILE_CHARSET
  <2> QED
    BY <2>1 DEF changeInputCharset, changeOutputCharset, changeConvDesc, iconv_open
<1>2. /\ in # NoDescriptor /\ out # NoDescriptor
      /\ in.to = KINE_INTERNAL_CHARSET /\ out.to # KINE_INTERNAL_CHARSET
  <2>1. in.to # "" /\ out.to # "" /\ NoDescriptor.to = "" /\ out.to # KINE_INTERNAL_CHARSET
    BY DEF KINE_INTERNAL_CHARSET, NoDescriptor
  <2> QED
    BY <2>1
<1> HIDE DEF in, out
<1> DEFINE e == encoded(text)
<1>3. /\ e.result = IF \A i \in 1..Len(text) : text[i] < CharacterLimit THEN "done" ELSE "EILSEQ"
  <2>1. DOMAIN text = 1..Len(text)
    OBVIOUS
  <2>2. e.result = IF \A i \in DOMAIN text : text[i] < CharacterLimit THEN "done" ELSE "EILSEQ"
    BY SMT DEF encoded, CharacterLimit
  <2> HIDE DEF e
  <2> QED
    BY <2>1, <2>2
<1>4. iconv(out, text) = e
  BY <1>2 DEF iconv
<1> HIDE DEF e
<1>5. /\ e.result = "done" => SentOf(text) = e
      /\ e.result = "EILSEQ" => SentOf(text).result = "forever"
  BY <1>1, <1>2, <1>4 DEF SentOf, convertChars
<1>6. SentOf(text).result = "done" <=> \A i \in 1..Len(text) : text[i] < CharacterLimit
  BY <1>3, <1>5
<1>7. ASSUME SentOf(text).result = "done"
      PROVE  SaidOf(SentOf(text).text) = text
  <2>1. e.result = "done" /\ SentOf(text) = e /\ \A i \in 1..Len(text) : text[i] < CharacterLimit
    BY <1>3, <1>5, <1>6, <1>7
  <2> DEFINE b == e.text
             d == decoded(b)
  <2>2. d.result = "done" /\ d.text = text
    BY <2>1, DecodedEncoded DEF e
  <2>3. iconv(in, b) = d
    BY <1>2 DEF iconv
  <2> HIDE DEF b, d
  <2>4. convertChars(in, b) = d
    BY <1>2, <2>2, <2>3 DEF convertChars
  <2> QED
    BY <1>1, <2>1, <2>2, <2>4 DEF SaidOf, localiseStr, b
<1> QED
  BY <1>6, <1>7
-----------------------------------------------------------------------------
(* What is written for an item and what it means; the items that are told  *)
WrittenOf == [item \in Items |-> item.written]

Told == {item \in Items : item.kind # "section"}

MeaningOf(parameters) ==
  [item \in Told |->
     CASE item.kind = "text" -> item.means
       [] item.kind = "fact" -> FactOf(item.means)
       [] item.kind = "parameter" ->
            IF item.means \in DOMAIN parameters THEN parameters[item.means]
            ELSE <<CharacterGlyph>>]

LEMMA WrittenIs ==
  /\ WrittenOf \in [Items -> Seq(Nat)]
  /\ Written(<<>>) = <<>>
  /\ \A items \in Seq(Items), item \in Items :
       /\ Written(items) \in Seq(Nat)
       /\ Written(Append(items, item)) = Written(items) \o item.written
<1>1. \A item \in Items : item.written \in Seq(Nat)
  <2>1. \A item \in Items : item.written \in Seq(0..255)
    BY TextsAssumption
  <2>2. 0..255 \subseteq Nat
    BY SMT
  <2> QED
    BY <2>1, <2>2, SequenceOfMore, ZenonT(30)
<1>2. WrittenOf \in [Items -> Seq(Nat)]
  BY <1>1 DEF WrittenOf
<1>3. ASSUME NEW items \in Seq(Items)
      PROVE  \E f : Chained(f, WrittenOf, items) /\ Written(items) = f[Len(items)]
  <2> DEFINE n == Len(items)
             Is(f) == f = [i \in 0..n |->
                             IF i = 0 THEN <<>> ELSE f[i - 1] \o items[i].written]
             f == CHOOSE f : Is(f)
  <2>1. n \in Nat /\ \A i \in 1..n : WrittenOf[items[i]] = items[i].written
    BY DEF WrittenOf
  <2>2. ASSUME NEW g
        PROVE  Is(g) <=> Chained(g, WrittenOf, items)
    <3>1. \A i \in 0..n : i # 0 => i \in 1..n
      BY <2>1
    <3>2. [i \in 0..n |-> IF i = 0 THEN <<>> ELSE g[i - 1] \o items[i].written]
          = [i \in 0..n |-> IF i = 0 THEN <<>> ELSE g[i - 1] \o WrittenOf[items[i]]]
      BY <2>1, <3>1
    <3> HIDE DEF n
    <3> QED
      BY <3>2 DEF Chained, n
  <2>3. \E g : Is(g)
    <3>1. \E g : Chained(g, WrittenOf, items)
      BY <1>2, ChainsRun
    <3> HIDE DEF Is
    <3> QED
      BY <2>2, <3>1
  <2>4. Written(items) = f[n]
    BY DEF Written
  <2>5. Is(f)
    <3> HIDE DEF Is
    <3> QED
      BY <2>3
  <2> HIDE DEF Is, f
  <2> QED
    BY <2>2, <2>4, <2>5
<1>4. Written(<<>>) = <<>>
  <2>1. <<>> \in Seq(Items) /\ Len(<<>>) = 0
    OBVIOUS
  <2>2. PICK f : Chained(f, WrittenOf, <<>>) /\ Written(<<>>) = f[0]
    BY <1>3, <2>1
  <2> QED
    BY <2>1, <2>2 DEF Chained
<1>5. ASSUME NEW items \in Seq(Items), NEW item \in Items
      PROVE  /\ Written(items) \in Seq(Nat)
             /\ Written(Append(items, item)) = Written(items) \o item.written
  <2> DEFINE more == Append(items, item)
  <2>1. more \in Seq(Items) /\ Len(more) = Len(items) + 1
    OBVIOUS
  <2>2. PICK f : Chained(f, WrittenOf, items) /\ Written(items) = f[Len(items)]
    BY <1>3
  <2> HIDE DEF more
  <2>3. PICK h : Chained(h, WrittenOf, more) /\ Written(more) = h[Len(items) + 1]
    BY <1>3, <2>1
  <2>4. f[Len(items)] \in Seq(Nat) /\ h[Len(items) + 1] = f[Len(items)] \o WrittenOf[item]
    <3>1. WrittenOf \in [Items -> Seq(Nat)] /\ Chained(f, WrittenOf, items)
      BY <1>2, <2>2
    <3>2. Chained(h, WrittenOf, Append(items, item))
      BY <2>3 DEF more
    <3>3. ChainsWith(Nat, Items, WrittenOf, items, item, f, h)
      BY <3>1, <3>2 DEF ChainsWith
    <3>4. f[Len(items)] \in Seq(Nat) /\ h[Len(items) + 1] = TwoParts(f[Len(items)], WrittenOf[item])
      BY <3>3, ChainsGoOn
    <3> QED
      BY <3>4 DEF TwoParts
  <2>5. WrittenOf[item] = item.written
    BY DEF WrittenOf
  <2> QED
    BY <2>2, <2>3, <2>4, <2>5 DEF more
<1> QED
  BY <1>2, <1>4, <1>5

LEMMA MeaningIs ==
  ASSUME NEW parameters \in ParameterLists
  PROVE  /\ MeaningOf(parameters) \in [Told -> Seq(Nat)]
         /\ Meaning(<<>>, parameters) = <<>>
         /\ \A items \in Seq(Told), item \in Told :
              /\ Meaning(items, parameters) \in Seq(Nat)
              /\ Meaning(Append(items, item), parameters) =
                   Meaning(items, parameters) \o MeaningOf(parameters)[item]
<1> DEFINE part == MeaningOf(parameters)
           means(item) ==
             CASE item.kind = "text" -> item.means
               [] item.kind = "fact" -> FactOf(item.means)
               [] item.kind = "parameter" ->
                    IF item.means \in DOMAIN parameters THEN parameters[item.means]
                    ELSE <<CharacterGlyph>>
<1>1. \A item \in Told : means(item) \in Seq(Nat)
  <2> TAKE item \in Told
  <2>1. \/ item.kind = "text" /\ item.means \in Seq(Nat)
        \/ item.kind = "fact" /\ item.means \in DOMAIN Facts
        \/ item.kind = "parameter"
    BY TextsAssumption DEF Told
  <2>2. CASE item.kind = "text" /\ item.means \in Seq(Nat)
    BY <2>2
  <2>3. CASE item.kind = "fact" /\ item.means \in DOMAIN Facts
    <3>1. means(item) = FactOf(item.means)
      BY <2>3
    <3>2. <<ObjectGlyph>> \in Seq(Nat)
      BY DEF ObjectGlyph
    <3>3. FactOf(item.means) \in Seq(Nat)
      BY <2>3, <3>2, TextsAssumption DEF FactOf
    <3> HIDE DEF means
    <3> QED
      BY <3>1, <3>3
  <2>4. CASE item.kind = "parameter"
    <3>1. means(item) = IF item.means \in DOMAIN parameters THEN parameters[item.means]
                        ELSE <<CharacterGlyph>>
      BY <2>4
    <3>2. parameters \in Seq(Seq(Nat))
      BY TextsAssumption
    <3>3. \A i \in DOMAIN parameters : parameters[i] \in Seq(Nat)
      BY <3>2
    <3>4. <<CharacterGlyph>> \in Seq(Nat)
      BY DEF CharacterGlyph
    <3> HIDE DEF means
    <3> QED
      BY <3>1, <3>3, <3>4
  <2> HIDE DEF means
  <2> QED
    BY <2>1, <2>2, <2>3, <2>4
<1>2. part = [item \in Told |-> means(item)]
  BY DEF MeaningOf
<1> HIDE DEF part, means
<1>3. part \in [Told -> Seq(Nat)] /\ \A item \in Told : part[item] = means(item)
  BY <1>1, <1>2
<1>4. ASSUME NEW items \in Seq(Told)
      PROVE  \E f : Chained(f, part, items) /\ Meaning(items, parameters) = f[Len(items)]
  <2> DEFINE n == Len(items)
             Is(f) == f = [i \in 0..n |->
                             IF i = 0 THEN <<>> ELSE f[i - 1] \o means(items[i])]
             f == CHOOSE f : Is(f)
  <2>1. n \in Nat /\ \A i \in 1..n : part[items[i]] = means(items[i])
    BY <1>3
  <2>2. ASSUME NEW g
        PROVE  Is(g) <=> Chained(g, part, items)
    <3>1. \A i \in 0..n : i # 0 => i \in 1..n
      BY <2>1
    <3>2. [i \in 0..n |-> IF i = 0 THEN <<>> ELSE g[i - 1] \o means(items[i])]
          = [i \in 0..n |-> IF i = 0 THEN <<>> ELSE g[i - 1] \o part[items[i]]]
      BY <2>1, <3>1
    <3> HIDE DEF n
    <3> QED
      BY <3>2 DEF Chained, n
  <2>3. \E g : Is(g)
    <3>1. \E g : Chained(g, part, items)
      BY <1>3, ChainsRun
    <3> HIDE DEF Is
    <3> QED
      BY <2>2, <3>1
  <2>4. Meaning(items, parameters) = f[n]
    BY DEF Meaning, means
  <2>5. Is(f)
    <3> HIDE DEF Is
    <3> QED
      BY <2>3
  <2> HIDE DEF Is, f
  <2> QED
    BY <2>2, <2>4, <2>5
<1>5. Meaning(<<>>, parameters) = <<>>
  <2>1. <<>> \in Seq(Told) /\ Len(<<>>) = 0
    OBVIOUS
  <2>2. PICK f : Chained(f, part, <<>>) /\ Meaning(<<>>, parameters) = f[0]
    BY <1>4, <2>1
  <2> QED
    BY <2>1, <2>2 DEF Chained
<1>6. ASSUME NEW items \in Seq(Told), NEW item \in Told
      PROVE  /\ Meaning(items, parameters) \in Seq(Nat)
             /\ Meaning(Append(items, item), parameters) =
                  Meaning(items, parameters) \o part[item]
  <2> DEFINE more == Append(items, item)
  <2>1. more \in Seq(Told) /\ Len(more) = Len(items) + 1
    OBVIOUS
  <2>2. PICK f : Chained(f, part, items) /\ Meaning(items, parameters) = f[Len(items)]
    BY <1>4
  <2> HIDE DEF more
  <2>3. PICK h : Chained(h, part, more) /\ Meaning(more, parameters) = h[Len(items) + 1]
    BY <1>4, <2>1
  <2>4. f[Len(items)] \in Seq(Nat) /\ h[Len(items) + 1] = f[Len(items)] \o part[item]
    <3>1. part \in [Told -> Seq(Nat)] /\ Chained(f, part, items)
      BY <1>3, <2>2
    <3>2. Chained(h, part, Append(items, item))
      BY <2>3 DEF more
    <3>3. ChainsWith(Nat, Told, part, items, item, f, h)
      BY <3>1, <3>2 DEF ChainsWith
    <3>4. f[Len(items)] \in Seq(Nat) /\ h[Len(items) + 1] = TwoParts(f[Len(items)], part[item])
      BY <3>3, ChainsGoOn
    <3> QED
      BY <3>4 DEF TwoParts
  <2> QED
    BY <2>2, <2>3, <2>4 DEF more
<1> QED
  BY <1>3, <1>5, <1>6 DEF part

(* What a line is read as, and told as: for items that are told, what they *)
(* mean, and else what iconv() does not get over                           *)
Sectioned(items) == \E i \in DOMAIN items : items[i].kind = "section"

TextRead(w) == Softly(Reading(w).text)

ToldAs(w, parameters, meaning) ==
  /\ Telling(TextRead(w), parameters)[1] = meaning
  /\ meaning \in Seq(Nat) /\ \A i \in 1..Len(meaning) : meaning[i] < CharacterLimit

ReadWhole(w) == w \in Seq(Nat) /\ EndsARound(w) /\ HasNoSpaces(w)

ReadAs(w) == Reading(w).result = "done" /\ EndsNoMarker(TextRead(w))

WellRead(items) ==
  LET w == Written(items)
  IN /\ ReadWhole(w)
     /\ Sectioned(items) => Reading(w).result = "EILSEQ"
     /\ ~Sectioned(items) =>
          /\ ReadAs(w)
          /\ \A parameters \in ParameterLists : ToldAs(w, parameters, Meaning(items, parameters))

(* A line that is well read is told as its items mean.                     *)
LEMMA WellReadIsTold ==
  ASSUME NEW items \in Seq(Items), WellRead(items)
  PROVE  IsTold(items)
<1> DEFINE w == Written(items)
           line == <<9>> \o w \o <<32>>
<1>1. /\ ReadWhole(w)
      /\ Sectioned(items) => Reading(w).result = "EILSEQ"
      /\ ~Sectioned(items) =>
           /\ ReadAs(w)
           /\ \A parameters \in ParameterLists : ToldAs(w, parameters, Meaning(items, parameters))
  BY DEF WellRead
<1> HIDE DEF w
<1>2. w \in Seq(Nat) /\ Trimmed(line) = w
  BY <1>1, TrimmedIs DEF ReadWhole
<1> HIDE DEF line
<1>3. /\ ResultOf(line) = "done" <=> Reading(w).result = "done"
      /\ ResultOf(line) = "forever" <=> Reading(w).result = "EILSEQ"
      /\ Reading(w).result = "done" => TextOf(line) = TextRead(w)
  BY <1>2, LineIs DEF TextRead
<1>4. CASE Sectioned(items)
  <2>1. ResultOf(line) = "forever"
    BY <1>1, <1>3, <1>4
  <2> QED
    BY <1>4, <2>1 DEF IsTold, Sectioned, line, w
<1>5. CASE ~Sectioned(items)
  <2>1. ResultOf(line) = "done" /\ TextOf(line) = TextRead(w)
    BY <1>1, <1>3, <1>5 DEF ReadAs
  <2> DEFINE text == TextRead(w)
  <2>2. text \in Seq(Nat) /\ \A i \in 1..Len(text) : text[i] # newLineMarkerChar
    <3>1. Reading(w).text \in Seq(Nat)
      BY <1>2, ReadingIs DEF Decodings
    <3>2. /\ TextRead(w) \in Seq(Nat) /\ Len(TextRead(w)) = Len(Reading(w).text)
          /\ \A i \in 1..Len(Reading(w).text) : TextRead(w)[i] # newLineMarkerChar
      BY <3>1, SoftlyIs DEF TextRead
    <3> QED
      BY <3>2
  <2> HIDE DEF text
  <2>3. ASSUME NEW parameters \in ParameterLists
        PROVE  LET said == process(text, parameters)
                   sent == convertChars(changeOutputCharset("UTF-8").convDesc, said)
               IN /\ said = Meaning(items, parameters)
                  /\ sent.result = "done"
                  /\ localiseStr(changeInputCharset("UTF-8").convDesc, sent.text) = said
    <3> DEFINE said == process(text, parameters)
    <3>1. said = Meaning(items, parameters) /\ said \in Seq(Nat)
          /\ \A i \in 1..Len(said) : said[i] < CharacterLimit
      <4>1. ToldAs(w, parameters, Meaning(items, parameters))
        BY <1>1, <1>5
      <4>2. said = Telling(text, parameters)[1]
        BY <2>2, ProcessIsTelling
      <4> HIDE DEF said
      <4> QED
        BY <4>1, <4>2 DEF ToldAs, text
    <3> HIDE DEF said
    <3>2. SentOf(said).result = "done" /\ SaidOf(SentOf(said).text) = said
      BY <3>1, SentIs
    <3> QED
      BY <3>1, <3>2 DEF SentOf, SaidOf, said
  <2> QED
    BY <1>5, <2>1, <2>3 DEF IsTold, Sectioned, line, w, text
<1> QED
  BY <1>4, <1>5

LEMMA NothingIsWellRead == WellRead(<<>>)
<1>1. <<>> \in Seq(Nat) /\ Len(<<>>) = 0 /\ DOMAIN <<>> = {}
  OBVIOUS
<1>2. Written(<<>>) = <<>>
  BY WrittenIs
<1>3. Strokes(<<>>)[1] = <<>>
  <2>1. 1 \in (Len(<<>>) + 1)..(Len(<<>>) + 4)
    BY <1>1
  <2> QED
    BY <1>1, <2>1, StrokesAre
<1>4. Reading(<<>>) = [result |-> "done", text |-> <<>>]
  <2>1. 1 \in (Len(<<>>) + 1)..(Len(<<>>) + 4)
    BY <1>1
  <2>2. Decoding(<<>>)[1] = [result |-> "done", text |-> <<>>]
    BY <1>1, <2>1, DecodingIs
  <2> QED
    BY <1>3, <2>2, DecodedIs DEF Reading
<1>5. TextRead(<<>>) = <<>>
  <2>1. Softly(<<>>) \in Seq(Nat) /\ Len(Softly(<<>>)) = 0
    BY <1>1, SoftlyIs
  <2>2. Softly(<<>>) = <<>>
    BY <2>1, EmptySeq
  <2> QED
    BY <1>4, <2>2 DEF TextRead
<1>6. ReadWhole(<<>>)
  <2>1. EndsARound(<<>>)
    <3> DEFINE begins == {1}
    <3>1. begins \in SUBSET (1..(Len(<<>>) + 1)) /\ {1, Len(<<>>) + 1} \subseteq begins
      BY <1>1
    <3>2. begins \ {Len(<<>>) + 1} = {}
      BY <1>1
    <3> HIDE DEF begins
    <3> QED
      BY <3>1, <3>2 DEF EndsARound
  <2> QED
    BY <1>1, <2>1 DEF ReadWhole, HasNoSpaces
<1>7. ReadAs(<<>>)
  BY <1>1, <1>4, <1>5 DEF ReadAs, EndsNoMarker
<1>8. ASSUME NEW parameters \in ParameterLists
      PROVE  ToldAs(<<>>, parameters, Meaning(<<>>, parameters))
  <2>1. Meaning(<<>>, parameters) = <<>>
    BY MeaningIs
  <2>2. Telling(<<>>, parameters)[1] = <<>>
    <3>1. 1 \in (Len(<<>>) + 1)..(Len(<<>>) + 3)
      BY <1>1
    <3> QED
      BY <1>1, <3>1, TellingIs
  <2>3. \A i \in 1..Len(<<>>) : <<>>[i] < CharacterLimit
    BY <1>1
  <2> QED
    BY <1>1, <1>5, <2>1, <2>2, <2>3 DEF ToldAs
<1>9. ~Sectioned(<<>>)
  BY <1>1 DEF Sectioned
<1> QED
  BY <1>2, <1>6, <1>7, <1>8, <1>9 DEF WellRead

(* What it says of an item that it stands alone                            *)
LEMMA AloneIs ==
  ASSUME ItemsStandAlone, NEW item \in Items
  PROVE  /\ ReadWhole(item.written) /\ item.written # <<>>
         /\ item.kind = "section" => Reading(item.written).result = "EILSEQ"
         /\ item.kind # "section" =>
              /\ ReadAs(item.written)
              /\ \A parameters \in ParameterLists :
                   ToldAs(item.written, parameters, MeaningOf(parameters)[item])
<1> DEFINE w == item.written
           line == <<9>> \o w \o <<32>>
           items == <<item>>
<1>1. /\ IsTold(<<item>>) /\ w # <<>> /\ {Head(w), Last(w)} \cap Spaces = {}
      /\ EndsARound(w)
      /\ item.kind # "section" => EndsNoMarker(TextOf(w))
  BY DEF ItemsStandAlone
<1>2. /\ <<>> \in Seq(Items) /\ Append(<<>>, item) = <<item>>
      /\ DOMAIN items = {1} /\ items[1] = item
  OBVIOUS
<1> HIDE DEF items
<1>3. w \in Seq(Nat) /\ Written(items) = w
  <2>1. WrittenOf[item] \in Seq(Nat) /\ WrittenOf[item] = w
    <3>1. WrittenOf \in [Items -> Seq(Nat)]
      BY WrittenIs
    <3> QED
      BY <3>1 DEF WrittenOf
  <2>2. Written(Append(<<>>, item)) = Written(<<>>) \o w
    BY <1>2, WrittenIs
  <2>3. Written(<<>>) = <<>>
    BY WrittenIs
  <2> HIDE DEF w
  <2>4. <<>> \o w = w
    BY <2>1
  <2> QED
    BY <1>2, <2>1, <2>2, <2>3, <2>4 DEF items
<1>4. HasNoSpaces(w) /\ ReadWhole(w)
  BY <1>1, <1>3 DEF HasNoSpaces, ReadWhole
<1> HIDE DEF w
<1>5. Trimmed(w) = w /\ Trimmed(line) = w
  BY <1>3, <1>4, TrimmedIs
<1> HIDE DEF line
<1>6. /\ ResultOf(line) = "done" <=> Reading(w).result = "done"
      /\ ResultOf(line) = "forever" <=> Reading(w).result = "EILSEQ"
      /\ Reading(w).result = "done" => TextOf(line) = TextRead(w)
      /\ Reading(w).result = "done" => TextOf(w) = TextRead(w)
  BY <1>3, <1>5, LineIs DEF TextRead
<1>7. (\E i \in DOMAIN items : items[i].kind = "section") <=> item.kind = "section"
  BY <1>2
<1>8. ASSUME item.kind = "section"
      PROVE  Reading(w).result = "EILSEQ"
  <2>1. ResultOf(line) = "forever"
    BY <1>1, <1>3, <1>7, <1>8 DEF IsTold, line, items
  <2> QED
    BY <1>6, <2>1
<1>9. ASSUME item.kind # "section"
      PROVE  /\ ReadAs(w)
             /\ \A parameters \in ParameterLists :
                  ToldAs(w, parameters, MeaningOf(parameters)[item])
  <2>1. /\ ResultOf(line) = "done"
        /\ \A parameters \in ParameterLists :
             LET text == process(TextOf(line), parameters)
                 sent == convertChars(changeOutputCharset("UTF-8").convDesc, text)
             IN /\ text = Meaning(items, parameters)
                /\ sent.result = "done"
                /\ localiseStr(changeInputCharset("UTF-8").convDesc, sent.text) = text
    BY <1>1, <1>3, <1>7, <1>9 DEF IsTold, line, items
  <2> DEFINE text == TextRead(w)
  <2>2. Reading(w).result = "done" /\ TextOf(line) = text /\ TextOf(w) = text
    BY <1>6, <2>1
  <2>3. ReadAs(w)
    BY <1>1, <1>9, <2>2 DEF ReadAs
  <2>4. text \in Seq(Nat) /\ \A i \in 1..Len(text) : text[i] # newLineMarkerChar
    <3>1. Reading(w).text \in Seq(Nat)
      BY <1>3, ReadingIs DEF Decodings
    <3>2. /\ TextRead(w) \in Seq(Nat) /\ Len(TextRead(w)) = Len(Reading(w).text)
          /\ \A i \in 1..Len(Reading(w).text) : TextRead(w)[i] # newLineMarkerChar
      BY <3>1, SoftlyIs DEF TextRead
    <3> QED
      BY <3>2
  <2> HIDE DEF text
  <2>5. ASSUME NEW parameters \in ParameterLists
        PROVE  ToldAs(w, parameters, MeaningOf(parameters)[item])
    <3> DEFINE said == process(text, parameters)
    <3>1. said = Meaning(items, parameters) /\ SentOf(said).result = "done"
      BY <2>1, <2>2 DEF SentOf
    <3>2. said = Telling(text, parameters)[1] /\ said \in Seq(Nat)
      BY <2>4, ProcessIsTelling
    <3> HIDE DEF said
    <3>3. \A i \in 1..Len(said) : said[i] < CharacterLimit
      BY <3>1, <3>2, SentIs
    <3>4. Meaning(items, parameters) = MeaningOf(parameters)[item]
      <4>1. item \in Told /\ <<>> \in Seq(Told)
        BY <1>9 DEF Told
      <4>2. /\ MeaningOf(parameters)[item] \in Seq(Nat)
            /\ Meaning(<<>>, parameters) = <<>>
            /\ Meaning(Append(<<>>, item), parameters) =
                 Meaning(<<>>, parameters) \o MeaningOf(parameters)[item]
        BY <4>1, MeaningIs
      <4>3. <<>> \o MeaningOf(parameters)[item] = MeaningOf(parameters)[item]
        BY <4>2
      <4> QED
        BY <1>2, <4>2, <4>3 DEF items
    <3> QED
      BY <3>1, <3>2, <3>3, <3>4 DEF ToldAs, text
  <2> QED
    BY <2>3, <2>5
<1> QED
  BY <1>1, <1>4, <1>8, <1>9 DEF w

(* Two lines one behind the other are read one after the other.            *)
LEMMA WholeOfConcat ==
  ASSUME NEW u, NEW v, ReadWhole(u), ReadWhole(v), v # <<>>
  PROVE  /\ ReadWhole(u \o v)
         /\ Reading(u).result = "EILSEQ" => Reading(u \o v).result = "EILSEQ"
         /\ Reading(u).result = "done" =>
              /\ Reading(u \o v).result = Reading(v).result
              /\ TextRead(u \o v) = TextRead(u) \o TextRead(v)
<1> DEFINE w == u \o v
           a == Strokes(u)[1]
           b == Strokes(v)[1]
<1>1. /\ u \in Seq(Nat) /\ EndsARound(u) /\ HasNoSpaces(u)
      /\ v \in Seq(Nat) /\ EndsARound(v) /\ HasNoSpaces(v)
  BY DEF ReadWhole
<1>2. w \in Seq(Nat) /\ EndsARound(w)
  <2>1. EndsARound(u \o v)
    BY <1>1, RoundsOfConcat
  <2> QED
    BY <1>1, <2>1
<1>3. HasNoSpaces(w)
  <2>1. Len(v) \in Nat \ {0} /\ Len(u) \in Nat
    BY <1>1, EmptySeq
  <2>2. {Head(v), Last(v)} \cap Spaces = {}
    BY <1>1 DEF HasNoSpaces
  <2>3. Last(w) = Last(v)
    <3>1. Len(w) = Len(u) + Len(v) /\ w[Len(u) + Len(v)] = v[Len(v)]
      BY <1>1, <2>1
    <3> QED
      BY <3>1 DEF Last
  <2>4. CASE u = <<>>
    <3>1. w = v
      BY <1>1, <2>4
    <3> QED
      BY <1>1, <3>1
  <2>5. CASE u # <<>>
    <3>1. Len(u) \in Nat \ {0}
      BY <1>1, <2>5, EmptySeq
    <3>2. Head(w) = Head(u)
      BY <1>1, <3>1
    <3>3. {Head(u), Last(u)} \cap Spaces = {}
      BY <1>1, <2>5 DEF HasNoSpaces
    <3> HIDE DEF w
    <3> QED
      BY <2>2, <2>3, <3>2, <3>3 DEF HasNoSpaces
  <2> QED
    BY <2>4, <2>5
<1>4. Strokes(w)[1] = a \o b
  BY <1>1, StrokesOfConcat
<1>5. a \in Seq(Nat) /\ b \in Seq(Nat)
  BY <1>1, ReadingIs
<1> HIDE DEF w, a, b
<1>6. /\ Reading(w) = decoded(a \o b) /\ Reading(u) = decoded(a) /\ Reading(v) = decoded(b)
  BY <1>4 DEF Reading, a, b
<1>7. ASSUME Reading(u).result = "EILSEQ"
      PROVE  Reading(w).result = "EILSEQ"
  <2>1. decoded(a \o b).result = "EILSEQ"
    BY ONLY <1>5, <1>6, <1>7, DecodedOfConcat, ZenonT(30)
  <2> QED
    BY <1>6, <2>1
<1>8. ASSUME Reading(u).result = "done"
      PROVE  /\ Reading(w).result = Reading(v).result
             /\ TextRead(w) = TextRead(u) \o TextRead(v)
  <2>1. /\ decoded(a \o b).result = decoded(b).result
        /\ decoded(a \o b).text = decoded(a).text \o decoded(b).text
    BY <1>5, <1>6, <1>8, DecodedOfConcat
  <2> DEFINE c == Reading(u).text
             d == Reading(v).text
  <2>2. c \in Seq(Nat) /\ d \in Seq(Nat)
    BY <1>1, ReadingIs DEF Decodings
  <2>3. Reading(w).text = c \o d
    BY <1>6, <2>1
  <2> HIDE DEF c, d
  <2>4. Softly(c \o d) = Softly(c) \o Softly(d)
    BY <2>2, SoftlyOfConcat
  <2> QED
    BY <1>6, <2>1, <2>3, <2>4 DEF TextRead, c, d
<1> QED
  BY <1>2, <1>3, <1>7, <1>8 DEF ReadWhole, w

LEMMA ToldOfConcat ==
  ASSUME NEW u, NEW v, ReadWhole(u), ReadWhole(v), v # <<>>, ReadAs(u), ReadAs(v)
  PROVE  /\ ReadAs(u \o v)
         /\ \A parameters \in ParameterLists : \A first, second :
              ToldAs(u, parameters, first) /\ ToldAs(v, parameters, second)
                => ToldAs(u \o v, parameters, first \o second)
<1> DEFINE w == u \o v
           a == TextRead(u)
           b == TextRead(v)
<1>1. Reading(w).result = "done" /\ TextRead(w) = a \o b
  BY WholeOfConcat DEF ReadAs
<1>2. a \in Seq(Nat) /\ b \in Seq(Nat) /\ EndsNoMarker(a) /\ EndsNoMarker(b)
  <2>1. Reading(u).text \in Seq(Nat) /\ Reading(v).text \in Seq(Nat)
    BY ReadingIs DEF Decodings, ReadWhole
  <2> QED
    BY <2>1, SoftlyIs DEF TextRead, ReadAs
<1> HIDE DEF w, a, b
<1>3. ReadAs(w)
  BY <1>1, <1>2, MarkersOfConcat DEF ReadAs
<1>4. ASSUME NEW parameters \in ParameterLists, NEW first, NEW second,
             ToldAs(u, parameters, first), ToldAs(v, parameters, second)
      PROVE  ToldAs(w, parameters, first \o second)
  <2>1. /\ Telling(a, parameters)[1] = first /\ Telling(b, parameters)[1] = second
        /\ first \in Seq(Nat) /\ \A i \in 1..Len(first) : first[i] < CharacterLimit
        /\ second \in Seq(Nat) /\ \A i \in 1..Len(second) : second[i] < CharacterLimit
    BY <1>4 DEF ToldAs, a, b
  <2>2. Telling(a \o b, parameters)[1] = Telling(a, parameters)[1] \o Telling(b, parameters)[1]
    BY <1>2, TellingOfConcat
  <2> DEFINE both == first \o second
             n == Len(first)
  <2>3. /\ n \in Nat /\ both \in Seq(Nat) /\ Len(both) = n + Len(second) /\ Len(second) \in Nat
        /\ \A i \in 1..n : both[i] = first[i]
        /\ \A i \in 1..Len(second) : both[n + i] = second[i]
    BY ONLY <2>1
  <2> HIDE DEF both
  <2>4. \A i \in 1..Len(both) : both[i] < CharacterLimit
    <3> TAKE i \in 1..Len(both)
    <3>1. CASE i \in 1..n
      BY <2>1, <2>3, <3>1
    <3>2. CASE i \notin 1..n
      <4> DEFINE j == i - n
      <4>1. j \in 1..Len(second) /\ i = n + j
        <5> HIDE DEF n
        <5> QED
          BY <2>3, <3>2
      <4> HIDE DEF j, n
      <4> QED
        BY <2>1, <2>3, <4>1
    <3> QED
      BY <3>1, <3>2
  <2>5. Telling(TextRead(w), parameters)[1] = both
    BY <1>1, <2>1, <2>2 DEF both
  <2> QED
    BY <2>3, <2>4, <2>5 DEF ToldAs, both
<1> QED
  BY <1>3, <1>4 DEF w

LEMMA OneMoreIsWellRead ==
  ASSUME ItemsStandAlone, NEW items \in Seq(Items), WellRead(items), NEW item \in Items
  PROVE  WellRead(Append(items, item))
<1> DEFINE u == Written(items)
           v == item.written
           w == u \o v
           more == Append(items, item)
           n == Len(items)
<1>1. /\ ReadWhole(u)
      /\ Sectioned(items) => Reading(u).result = "EILSEQ"
      /\ ~Sectioned(items) =>
           /\ ReadAs(u)
           /\ \A parameters \in ParameterLists : ToldAs(u, parameters, Meaning(items, parameters))
  BY DEF WellRead
<1>2. /\ ReadWhole(v) /\ v # <<>>
      /\ item.kind = "section" => Reading(v).result = "EILSEQ"
      /\ item.kind # "section" =>
           /\ ReadAs(v)
           /\ \A parameters \in ParameterLists :
                ToldAs(v, parameters, MeaningOf(parameters)[item])
  BY AloneIs
<1>3. Written(more) = w
  BY WrittenIs
<1>4. Sectioned(more) <=> Sectioned(items) \/ item.kind = "section"
  <2>1. /\ n \in Nat /\ DOMAIN items = 1..n /\ DOMAIN more = 1..(n + 1)
        /\ \A i \in 1..n : more[i] = items[i]
        /\ more[n + 1] = item
    OBVIOUS
  <2>2. \A i \in 1..(n + 1) : i \in 1..n \/ i = n + 1
    BY <2>1
  <2>3. n + 1 \in 1..(n + 1) /\ \A i \in 1..n : i \in 1..(n + 1)
    BY <2>1
  <2> HIDE DEF more, n
  <2> QED
    BY <2>1, <2>2, <2>3 DEF Sectioned
<1> HIDE DEF u, v
<1>5. /\ ReadWhole(w)
      /\ Reading(u).result = "EILSEQ" => Reading(w).result = "EILSEQ"
      /\ Reading(u).result = "done" => Reading(w).result = Reading(v).result
  BY <1>1, <1>2, WholeOfConcat
<1>6. ASSUME Sectioned(more)
      PROVE  Reading(w).result = "EILSEQ"
  <2> HIDE DEF w, more
  <2>1. CASE Sectioned(items)
    BY <1>1, <1>5, <2>1
  <2>2. CASE ~Sectioned(items)
    BY <1>1, <1>2, <1>4, <1>5, <1>6, <2>2 DEF ReadAs
  <2> QED
    BY <2>1, <2>2
<1>7. ASSUME ~Sectioned(more)
      PROVE  /\ ReadAs(w)
             /\ \A parameters \in ParameterLists : ToldAs(w, parameters, Meaning(more, parameters))
  <2>1. ~Sectioned(items) /\ item.kind # "section"
    BY <1>4, <1>7
  <2>2. ReadAs(u) /\ ReadAs(v)
    BY <1>1, <1>2, <2>1
  <2>3. ReadAs(w)
    BY <1>1, <1>2, <2>2, ToldOfConcat
  <2>4. items \in Seq(Told) /\ item \in Told
    <3>1. item \in Told
      BY <2>1 DEF Told
    <3>2. n \in Nat /\ items = [i \in 1..n |-> items[i]] /\ \A i \in 1..n : items[i] \in Items
      OBVIOUS
    <3>3. \A i \in 1..n : items[i] \in Told
      <4>1. DOMAIN items = 1..n
        OBVIOUS
      <4> HIDE DEF n
      <4> QED
        BY <2>1, <3>2, <4>1 DEF Sectioned, Told
    <3>4. items \in Seq(Told)
      <4> HIDE DEF n
      <4> QED
        BY ONLY <3>2, <3>3, SequenceOf
    <3> QED
      BY <3>1, <3>4
  <2>5. ASSUME NEW parameters \in ParameterLists
        PROVE  ToldAs(w, parameters, Meaning(more, parameters))
    <3> DEFINE first == Meaning(items, parameters)
               second == MeaningOf(parameters)[item]
    <3>1. Meaning(more, parameters) = first \o second
      BY <2>4, MeaningIs
    <3>2. ToldAs(u, parameters, first) /\ ToldAs(v, parameters, second)
      BY <1>1, <1>2, <2>1
    <3> HIDE DEF first, second, more
    <3>3. ToldAs(u \o v, parameters, first \o second)
      BY <1>1, <1>2, <2>2, <3>2, ToldOfConcat
    <3> QED
      BY <3>1, <3>3
  <2> QED
    BY <2>3, <2>5
<1> HIDE DEF w, more
<1> QED
  BY <1>3, <1>5, <1>6, <1>7 DEF WellRead, more

(* However many items a line has, it is told as what they mean, if each    *)
(* of them is when it stands alone.                                        *)
THEOREM LinesAreTold ==
  ASSUME ItemsStandAlone
  PROVE  \A items \in Seq(Items) : IsTold(items)
<1> TAKE items \in Seq(Items)
<1> DEFINE n == Len(items)
           front(i) == SubSeq(items, 1, i)
           S == {i \in 0..n : WellRead(front(i))}
<1>1. n \in Nat /\ front(0) = <<>> /\ front(n) = items
  BY SubSeqFull
<1>2. 0 \in S
  <2> HIDE DEF front, n
  <2>1. 0 \in 0..n /\ WellRead(front(0))
    BY <1>1, NothingIsWellRead
  <2> QED
    BY <2>1
<1>3. ASSUME NEW i \in 1..n, i - 1 \in S
      PROVE  i \in S
  <2>1. i \in 0..n /\ i - 1 \in 0..n /\ i \in 1..Len(items)
    BY <1>1
  <2>2. front(i) = Append(front(i - 1), items[i])
    BY <2>1, SubSeqByOne
  <2>3. front(i - 1) \in Seq(Items) /\ items[i] \in Items
    BY <2>1
  <2>4. WellRead(front(i - 1))
    BY <1>3
  <2> HIDE DEF front
  <2>5. WellRead(front(i))
    BY <2>2, <2>3, <2>4, OneMoreIsWellRead
  <2> QED
    BY <2>1, <2>5
<1>4. n \in S
  <2> HIDE DEF S, n
  <2>1. 0..n \subseteq S
    BY <1>1, <1>2, <1>3, RoundByRound
  <2> QED
    BY <1>1, <2>1
<1>5. WellRead(items)
  <2>1. WellRead(front(n))
    BY <1>4
  <2> HIDE DEF front
  <2> QED
    BY <1>1, <2>1
<1> QED
  BY <1>5, WellReadIsTold

(* Every line that a translator may write is told as what its items mean,  *)
(* can be sent, and is understood when it is said again, or hangs the load *)
(* of its file if a new section is in it, whatever the items are, as long  *)
(* as each of them is told as it should be when it is written alone: the   *)
(* loops of loadFile(), of iconv() and of process() begin each item as they*)
(* begin a line, and nothing that an item leaves behind reaches the next.  *)
THEOREM EveryLineIsTold ==
  ASSUME ItemsStandAlone
  PROVE  TextsSpec => []TextsAreTold
<1>1. TextsAreTold
  <2>1. ASSUME NEW k \in 0..3, NEW items \in [1..k -> Items]
        PROVE  IsTold(items)
    <3>1. items \in Seq(Items)
      <4>1. k \in Nat /\ items = [i \in 1..k |-> items[i]] /\ \A i \in 1..k : items[i] \in Items
        OBVIOUS
      <4> QED
        BY ONLY <4>1, SequenceOf
    <3> QED
      BY <3>1, LinesAreTold
  <2> QED
    BY <2>1 DEF TextsAreTold
<1> QED
  BY <1>1, PTL
=============================================================================
