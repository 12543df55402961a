----------------------------- MODULE Languages ------------------------------
(***************************************************************************)
(* The languages of the daemon (src/lib/language/interface.cpp, data.cpp): *)
(* files are loaded one after the other while the daemon is configured,    *)
(* and then the modules register their tag maps and texts are looked up.   *)
(* Tags are numbered in the order in which they are first seen in any      *)
(* file, and each language keeps its texts in a vector by that number.     *)
(*                                                                         *)
(* One action is one line of a file.  A line whose text does not convert   *)
(* ends the load: an incomplete sequence at its end refuses the file, and  *)
(* an illegal sequence keeps convertChars() in its loop for ever, because  *)
(* iconv() does not go past it (phase "stuck").                            *)
(*                                                                         *)
(* A language is pointed to by the code it is mapped under.  Left out are  *)
(* what is only shown (name, note, maintainer, revision), comments and     *)
(* unknown control lines.  What texts are, and how they are looked up and  *)
(* told, is in Texts.  Files are loaded only by the configuration, which is*)
(* read once: REHASH is not implemented.  So no file is loaded after       *)
(* registerMap(), which would make processMaps() follow the address of a   *)
(* parameter that is gone.                                                 *)
(***************************************************************************)
EXTENDS Integers, Sequences, FiniteSets

CONSTANTS
  Tags,         \* the names of tags, upper case
  Texts,        \* the texts files give to tags
  Empty,        \* the empty text
  NoText,       \* a null pointer in a vector of texts
  Codes,        \* language codes, lower case
  DefaultCode,  \* Languages::defaultLanguageCode, "i-default"
  NoCode,       \* a null pointer to a language
  NoLangCode,   \* the code of a file that names none: the empty string
  MaxFiles,     \* bound on the files loaded
  MaxTagLines   \* bound on the tags of a file

ASSUME LanguagesAssumption ==
  /\ IsFiniteSet(Tags)
  /\ Empty \in Texts /\ NoText \notin Texts
  /\ {DefaultCode, NoLangCode} \subseteq Codes /\ NoCode \notin Codes
  /\ MaxFiles \in Nat /\ MaxTagLines \in Nat

VARIABLES
  phase,            \* what the daemon is doing
  tagDictionary,    \* the number of each tag, unknownTagID if it has none
  highestTagID,
  languageDataMap,  \* the languages, by code
  defaultLanguage,
  languageData,     \* the language being read from a file
  files,            \* how many files have been opened
  tagMap            \* the numbers a module has been given for its tags

vars == <<phase, tagDictionary, highestTagID, languageDataMap, defaultLanguage,
          languageData, files, tagMap>>

Phases == {"configuring", "loading", "stuck", "failed", "running"}

unknownTagID == 0

NewLanguageData == [languageCode |-> NoLangCode, tagData |-> <<>>, tagCount |-> 0]

Init ==
  /\ phase = "configuring"
  /\ tagDictionary = [t \in Tags |-> unknownTagID]
  /\ highestTagID = 0
  /\ languageDataMap = [c \in {} |-> NewLanguageData]
  /\ defaultLanguage = NoCode
  /\ languageData = NewLanguageData
  /\ files = 0
  /\ tagMap = [t \in Tags |-> unknownTagID]
-----------------------------------------------------------------------------
getTagID(t) == tagDictionary[t]

Languages == DOMAIN languageDataMap

findByCode(c) ==
  IF c \in Languages THEN c
  ELSE IF c = DefaultCode THEN defaultLanguage ELSE NoCode

(* std::vector::resize() to a length that is not smaller                   *)
Resized(v, n) == [i \in 1..n |-> IF i <= Len(v) THEN v[i] ELSE NoText]

Larger(m, n) == IF m < n THEN n ELSE m
-----------------------------------------------------------------------------
(* loadFile() opens the file, or cannot.                                   *)
openFile ==
  /\ phase = "configuring" /\ files < MaxFiles
  /\ phase' \in {"loading", "failed"}
  /\ files' = files + 1
  /\ UNCHANGED <<tagDictionary, highestTagID, languageDataMap, defaultLanguage,
                 languageData, tagMap>>

(* A .LANGCODE line                                                        *)
readCode(c) ==
  /\ phase = "loading"
  /\ languageData' = [languageData EXCEPT !.languageCode = c]
  /\ UNCHANGED <<phase, tagDictionary, highestTagID, languageDataMap,
                 defaultLanguage, files, tagMap>>

(* Mutant: a new tag is given the highest number there is.                 *)
readTagReusesNumber(t, x) ==
  /\ phase = "loading"
  /\ languageData.tagCount < MaxTagLines
  /\ LET id == IF getTagID(t) # unknownTagID THEN getTagID(t) ELSE Larger(1, highestTagID)
     IN /\ tagDictionary' = [tagDictionary EXCEPT ![t] = id]
        /\ highestTagID' = Larger(highestTagID, id)
        /\ languageData' = [languageData EXCEPT
             !.tagData = [Resized(@, Larger(Len(@), id)) EXCEPT ![id] = x],
             !.tagCount = @ + 1]
  /\ UNCHANGED <<phase, languageDataMap, defaultLanguage, files, tagMap>>

(* A line that gives a tag its text.  A tag that no file has had before    *)
(* gets the next number at once, whatever becomes of the file.             *)
readTag(t, x) ==
  /\ phase = "loading"
  /\ languageData.tagCount < MaxTagLines
  /\ LET id == IF getTagID(t) # unknownTagID THEN getTagID(t) ELSE highestTagID + 1
     IN /\ tagDictionary' = [tagDictionary EXCEPT ![t] = id]
        /\ highestTagID' = Larger(highestTagID, id)
        /\ languageData' = [languageData EXCEPT
             !.tagData = [Resized(@, Larger(Len(@), id)) EXCEPT ![id] = x],
             !.tagCount = @ + 1]
  /\ UNCHANGED <<phase, languageDataMap, defaultLanguage, files, tagMap>>

(* The text ends in the middle of a sequence: the load fails, and with it  *)
(* the configuration.                                                      *)
refuseLine ==
  /\ phase = "loading"
  /\ phase' = "failed"
  /\ languageData' = NewLanguageData
  /\ UNCHANGED <<tagDictionary, highestTagID, languageDataMap, defaultLanguage,
                 files, tagMap>>

(* The text has an illegal sequence: convertChars() does not return.       *)
convertForever ==
  /\ phase = "loading"
  /\ phase' = "stuck"
  /\ UNCHANGED <<tagDictionary, highestTagID, languageDataMap, defaultLanguage,
                 languageData, files, tagMap>>
-----------------------------------------------------------------------------
HasText(v) == {i \in DOMAIN v : v[i] # NoText}

(* Mutants: the number of tags is not raised; the new texts replace all    *)
(* that was there.                                                         *)
mergeWithUncounted(old, new) ==
  LET v == Resized(old.tagData, Larger(Len(old.tagData), Len(new.tagData)))
  IN [old EXCEPT !.tagData = [i \in DOMAIN v |->
        IF i \in HasText(new.tagData) THEN new.tagData[i] ELSE v[i]]]

mergeWithReplaces(old, new) ==
  [old EXCEPT !.tagData = Resized(new.tagData, Larger(Len(old.tagData), Len(new.tagData))),
              !.tagCount = @ + Cardinality(HasText(new.tagData))]

(* LanguageData::mergeWith(): the texts of "new" go over those of "old",   *)
(* and each counts as one more tag.                                        *)
mergeWith(old, new) ==
  LET v == Resized(old.tagData, Larger(Len(old.tagData), Len(new.tagData)))
  IN [old EXCEPT
        !.tagData = [i \in DOMAIN v |->
           IF i \in HasText(new.tagData) THEN new.tagData[i] ELSE v[i]],
        !.tagCount = @ + Cardinality(HasText(new.tagData))]

(* Mutant: the language is made the default by the pointer that the file   *)
(* was read into, also when that has been merged and deleted.              *)
endOfFileMakesDefault ==
  /\ phase = "loading"
  /\ phase' = "configuring"
  /\ LET found == findByCode(languageData.languageCode)
         code == IF found = NoCode THEN languageData.languageCode ELSE found
     IN languageDataMap' = [c \in Languages \cup {code} |->
             IF c # code THEN languageDataMap[c]
             ELSE IF found = NoCode THEN languageData
             ELSE mergeWith(languageDataMap[c], languageData)]
  /\ defaultLanguage' = languageData.languageCode
  /\ languageData' = NewLanguageData
  /\ UNCHANGED <<tagDictionary, highestTagID, files, tagMap>>

(* The end of the file: the language is new, or merged with the one there  *)
(* is under its code; the first of all is the default language.  (A caller *)
(* may ask for its file to be the default; the only caller does not.)      *)
endOfFile ==
  /\ phase = "loading"
  /\ phase' = "configuring"
  /\ LET found == findByCode(languageData.languageCode)
         code == IF found = NoCode THEN languageData.languageCode ELSE found
     IN /\ languageDataMap' = [c \in Languages \cup {code} |->
             IF c # code THEN languageDataMap[c]
             ELSE IF found = NoCode THEN languageData
             ELSE mergeWith(languageDataMap[c], languageData)]
        /\ defaultLanguage' = IF defaultLanguage = NoCode THEN code ELSE defaultLanguage
  /\ languageData' = NewLanguageData
  /\ UNCHANGED <<tagDictionary, highestTagID, files, tagMap>>

(* Every tag of a module's map is looked up.                               *)
processTagMap == [t \in Tags |-> getTagID(t)]

(* The configuration is complete: the modules start, and registerMap()     *)
(* looks up the numbers of their tags.                                     *)
registerMap ==
  /\ phase = "configuring"
  /\ phase' = "running"
  /\ tagMap' = processTagMap
  /\ UNCHANGED <<tagDictionary, highestTagID, languageDataMap, defaultLanguage,
                 languageData, files>>

Next ==
  \/ openFile \/ refuseLine \/ convertForever \/ endOfFile \/ registerMap
  \/ \E c \in Codes : readCode(c)
  \/ \E t \in Tags, x \in Texts : readTag(t, x)

Spec == Init /\ [][Next]_vars
-----------------------------------------------------------------------------
(* The text a vector holds for a tag by its name                           *)
TextAt(v, t) ==
  IF getTagID(t) \in DOMAIN v THEN v[getTagID(t)] ELSE NoText
-----------------------------------------------------------------------------
LanguageDataOK(d) ==
  /\ d.languageCode \in Codes
  /\ d.tagData \in Seq(Texts \cup {NoText})
  /\ d.tagCount \in Nat

(* Every variable has its type.                                            *)
LanguagesTypeOK ==
  /\ phase \in Phases
  /\ tagDictionary \in [Tags -> Nat] /\ tagMap \in [Tags -> Nat]
  /\ highestTagID \in Nat
  /\ Languages \subseteq Codes
  /\ \A c \in Languages : LanguageDataOK(languageDataMap[c])
  /\ LanguageDataOK(languageData)
  /\ defaultLanguage \in Languages \cup {NoCode}
  /\ files \in 0..MaxFiles

(* Numbers are given to tags once, without gaps, and no vector reaches     *)
(* beyond them: getHighestTagID() is how many tags there are.              *)
DictionaryIsDense ==
  /\ {getTagID(t) : t \in Tags} \ {unknownTagID} = 1..highestTagID
  /\ \A s, t \in Tags : getTagID(s) = getTagID(t) /\ s # t => getTagID(s) = unknownTagID
  /\ \A c \in Languages : Len(languageDataMap[c].tagData) <= highestTagID

(* The numbers and vectors amount to a catalogue of texts by language and  *)
(* tag: a file changes all of its texts in one language or none, however   *)
(* its tags are numbered and whatever other files did to the dictionary.   *)
Catalogued == INSTANCE Catalogue WITH
  texts   <- [c \in Codes |-> [t \in Tags |->
               IF c \in Languages THEN TextAt(languageDataMap[c].tagData, t) ELSE NoText]],
  known   <- Languages,
  default <- defaultLanguage,
  code    <- IF phase \in {"loading", "stuck"} THEN languageData.languageCode ELSE NoCode,
  lines   <- [t \in Tags |-> TextAt(languageData.tagData, t)]

ImplementsCatalogue == Catalogued!CatalogueSpec
=============================================================================
