------------------------------- MODULE Texts --------------------------------
(***************************************************************************)
(* What the texts of Languages are: how a line of a language file becomes  *)
(* one (the preprocessor in loadFile(), src/lib/language/interface.cpp,    *)
(* with the conversion of Charset), and how a text is looked up and told   *)
(* with the parameters of the moment (process() and get()).                *)
(*                                                                         *)
(* A character is its number: bytes before the conversion, which the doc   *)
(* LangTags says are UTF-8, and code points after it.  NUL marks where     *)
(* process() is to put something.  Here each line that gives a tag a text  *)
(* is one of Lines, and what readTag, refuseLine and convertForever leave  *)
(* open in Languages follows from its bytes.                               *)
(***************************************************************************)
EXTENDS Languages, Charset

CONSTANTS
  Lines,          \* what files have to the right of the = of a tag
  Facts,          \* what %a, %A, %d, %L, %n and %N stand for, by letter
  ParameterLists, \* the parameters that texts are told with
  Items           \* examples of what LangTags lets a translator write

NUL == 0   PERCENT == 37   BACKSLASH == 92   NEL == 133
ObjectGlyph == 65532   CharacterGlyph == 65533

KINE_LANGFILE_CHARSET == "UTF-8"

parameterMarkerChar == NUL
newLineMarkerChar == NEL

Digits == 48..57
Spaces == {9, 32}
-----------------------------------------------------------------------------
(* String::trim()                                                          *)
Trimmed(s) ==
  LET kept == {i \in DOMAIN s : s[i] \notin Spaces}
      first == CHOOSE i \in kept : \A j \in kept : i <= j
      last == CHOOSE i \in kept : \A j \in kept : j <= i
  IN IF kept = {} THEN <<>> ELSE SubSeq(s, first, last)

(* Letters behind a backslash, and what they become                        *)
substitutionMap == {
  <<110, newLineMarkerChar>>, <<115, 32>>, <<116, 9>>, <<BACKSLASH, BACKSLASH>>,
  <<98, 2>>, <<99, 3>>, <<67, 4>>, <<102, 6>>, <<103, 7>>, <<105, 29>>,
  <<111, 15>>, <<114, 22>>, <<117, 31>>}

Substituted(c) ==
  IF \E s \in substitutionMap : s[1] = c
  THEN <<(CHOOSE s \in substitutionMap : s[1] = c)[2]>>
  ELSE <<>>

(* strtol() of three digits to the base 8 stops at an 8 or a 9; what is no *)
(* byte becomes NUL.                                                       *)
Octal(digits) ==
  LET d == [i \in 1..3 |-> digits[i] - 48]
      value == CASE d[1] > 7 -> 0
                 [] d[1] <= 7 /\ d[2] > 7 -> d[1]
                 [] d[1] <= 7 /\ d[2] <= 7 /\ d[3] > 7 -> 8 * d[1] + d[2]
                 [] OTHER -> 64 * d[1] + 8 * d[2] + d[3]
  IN IF value < 256 THEN value ELSE NUL

(* The substitution loop of loadFile()                                     *)
preprocess(line) ==
  LET data == Trimmed(line)
      n == Len(data)
      at(i) == IF i <= n THEN data[i] ELSE NUL
      from[i \in 1..(n + 4)] ==
        CASE i > n -> <<>>
          [] at(i) = PERCENT ->
               IF at(i + 1) = PERCENT THEN <<PERCENT>> \o from[i + 2]
               ELSE <<parameterMarkerChar>> \o from[i + 1]
          [] at(i) = BACKSLASH ->
               IF i + 3 <= n /\ \A j \in 1..3 : at(i + j) \in Digits
               THEN <<Octal(SubSeq(data, i + 1, i + 3))>> \o from[i + 4]
               ELSE Substituted(at(i + 1)) \o from[i + 2]
          [] OTHER -> <<at(i)>> \o from[i + 1]
  IN from[1]
-----------------------------------------------------------------------------
(* The descriptor loadFile() opens                                         *)
convDesc == iconv_open(KINE_INTERNAL_CHARSET, KINE_LANGFILE_CHARSET)

(* The characters that must not appear become pictures of themselves or the*)
(* replacement character.  NUL stays: it may be a parameter marker.        *)
softened(c) ==
  CASE c \in {1, 8} \cup 10..13 \cup 17..20 -> c + 9216
    [] c = 127 -> 9249
    [] c \in {133, 141} \cup 65532..65535 -> CharacterGlyph
    [] OTHER -> c

(* What becomes of a line, and the text that it gives                      *)
ResultOf(line) == convertChars(convDesc, preprocess(line)).result

TextOf(line) ==
  LET text == convertChars(convDesc, preprocess(line)).text
  IN [i \in DOMAIN text |-> softened(text[i])]

ASSUME TextsAssumption ==
  /\ Empty = <<>> /\ \A text \in Texts : text \in Seq(Nat)
  /\ DOMAIN Facts \subseteq {65, 76, 78, 97, 100, 110}
  /\ \A c \in DOMAIN Facts : Facts[c] \in Seq(Nat)
  /\ ParameterLists \subseteq Seq(Seq(Nat))
  /\ \A item \in Items :
       /\ item.written \in Seq(0..255)
       /\ \/ item.kind = "text" /\ item.means \in Seq(Nat)
          \/ item.kind = "fact" /\ item.means \in DOMAIN Facts
          \/ item.kind = "parameter" /\ item.means \in Nat \ {0}
          \/ item.kind = "section"
  /\ convDesc # NoDescriptor
  /\ \A line \in Lines : ResultOf(line) = "done" => TextOf(line) \in Texts

(* loadFile() reads a line that gives a tag its text.                      *)
readLine(t, line) ==
  CASE ResultOf(line) = "done" -> readTag(t, TextOf(line))
    [] ResultOf(line) = "refused" -> refuseLine
    [] OTHER -> convertForever

TextsNext ==
  \/ openFile \/ endOfFile \/ registerMap
  \/ \E c \in Codes : readCode(c)
  \/ \E t \in Tags, line \in Lines : readLine(t, line)

TextsSpec == Init /\ [][TextsNext]_vars
-----------------------------------------------------------------------------
(* What a letter behind the marker stands for: a fact of the server, where *)
(* a network without a name is shown as a missing object                   *)
FactOf(c) == IF c = 78 /\ Facts[c] = <<>> THEN <<ObjectGlyph>> ELSE Facts[c]

(* The number below the first parameter that p, P, q or Q counts from      *)
paramNumber(c) == CASE c = 112 -> 0 [] c = 80 -> 10 [] c = 113 -> 20 [] c = 81 -> 30

ParameterLetters == {112, 80, 113, 81}

(* Mutant: the number of a parameter may have two digits.                  *)
processGreedy(text, parameters) ==
  LET n == Len(text)
      at(i) == IF i <= n THEN text[i] ELSE NUL
      parameter(c, digit) ==
        IF digit \in Digits /\ paramNumber(c) + (digit - 48) + 1 \in DOMAIN parameters
        THEN parameters[paramNumber(c) + (digit - 48) + 1] ELSE <<CharacterGlyph>>
      from[i \in 1..(n + 4)] ==
        IF i > n THEN <<>>
        ELSE CASE at(i) = parameterMarkerChar ->
                   CASE i = n -> <<>>
                     [] at(i + 1) \in DOMAIN Facts -> FactOf(at(i + 1)) \o from[i + 2]
                     [] at(i + 1) \in ParameterLetters ->
                          parameter(at(i + 1), at(i + 2))
                          \o from[i + (IF at(i + 3) \in Digits THEN 4 ELSE 3)]
                     [] OTHER -> <<CharacterGlyph>> \o from[i + 2]
             [] at(i) = newLineMarkerChar -> <<CharacterGlyph>> \o from[i + 1]
             [] OTHER -> <<at(i)>> \o from[i + 1]
  IN IF \E i \in 1..n : text[i] = parameterMarkerChar THEN from[1] ELSE text

(* LanguageData::process(): a text told with parameters.  Without a marker *)
(* it is told as it is; a marker at its end is dropped; what there is no   *)
(* parameter for, and what no letter stands for, is replaced.              *)
process(text, parameters) ==
  LET n == Len(text)
      at(i) == IF i <= n THEN text[i] ELSE NUL
      parameter(c, digit) ==
        IF digit \in Digits /\ paramNumber(c) + (digit - 48) + 1 \in DOMAIN parameters
        THEN parameters[paramNumber(c) + (digit - 48) + 1] ELSE <<CharacterGlyph>>
      from[i \in 1..(n + 3)] ==
        IF i > n THEN <<>>
        ELSE CASE at(i) = parameterMarkerChar ->
                   CASE i = n -> <<>>
                     [] at(i + 1) \in DOMAIN Facts -> FactOf(at(i + 1)) \o from[i + 2]
                     [] at(i + 1) \in ParameterLetters ->
                          parameter(at(i + 1), at(i + 2)) \o from[i + 3]
                     [] OTHER -> <<CharacterGlyph>> \o from[i + 2]
             [] at(i) = newLineMarkerChar -> <<CharacterGlyph>> \o from[i + 1]
             [] OTHER -> <<at(i)>> \o from[i + 1]
  IN IF \E i \in 1..n : text[i] = parameterMarkerChar THEN from[1] ELSE text
-----------------------------------------------------------------------------
(* Mutant: the last tag of a vector is out of its range.                   *)
toldByBelowLast(data, id, parameters) ==
  IF id # unknownTagID /\ id < Len(data.tagData) /\ data.tagData[id] # NoText
  THEN process(data.tagData[id], parameters) ELSE Empty

(* LanguageData::get(): a text told, empty if there is none                *)
toldBy(data, id, parameters) ==
  IF id # unknownTagID /\ id <= Len(data.tagData) /\ data.tagData[id] # NoText
  THEN process(data.tagData[id], parameters) ELSE Empty

told(c, id, parameters) ==
  IF c = NoCode THEN Empty ELSE toldBy(languageDataMap[c], id, parameters)

(* The first of some texts that is not empty                               *)
FirstOf(texts) ==
  IF \E i \in DOMAIN texts : texts[i] # Empty
  THEN texts[CHOOSE i \in DOMAIN texts :
               texts[i] # Empty /\ \A j \in 1..(i - 1) : texts[j] = Empty]
  ELSE <<ObjectGlyph>>

(* Languages::get() of a language: its text or the default language's      *)
get(c, id, parameters) ==
  IF c = NoCode THEN <<ObjectGlyph>>
  ELSE FirstOf(<<told(c, id, parameters), told(defaultLanguage, id, parameters)>>)

(* get() by a code, with parameters put into a list one after the other    *)
getByCode(code, id, parameters) == get(findByCode(code), id, parameters)

(* Languages::get() of a list of languages.  The null pointer of the code  *)
(* "none" ends it, and nothing is told.                                    *)
getOfList(list, id, parameters) ==
  LET null == {i \in DOMAIN list : list[i] = NoCode}
      before == IF null = {} THEN list
                ELSE SubSeq(list, 1, (CHOOSE i \in null : \A j \in null : i <= j) - 1)
      texts == [i \in DOMAIN before |-> told(before[i], id, parameters)]
  IN FirstOf(IF null = {} /\ list # <<>>
             THEN Append(texts, told(defaultLanguage, id, parameters)) ELSE texts)

(* The sections of a text                                                  *)
Sections(text) ==
  LET ends == {i \in DOMAIN text : text[i] = newLineMarkerChar}
      startOf(i) == IF \E j \in ends : j < i
                    THEN 1 + (CHOOSE j \in ends : j < i /\ \A k \in ends : k < i => k <= j)
                    ELSE 1
  IN [n \in 1..(Cardinality(ends) + 1) |->
        LET i == CHOOSE e \in ends \cup {Len(text) + 1} :
                   Cardinality({j \in ends : j < e}) = n - 1
        IN SubSeq(text, startOf(i), i - 1)]

(* The calls of Languages::get() with a callFunction that takes as many.   *)
(* A null pointer in the vector is followed: NoText stands for that.       *)
callsBy(data, id, parameters, takes) ==
  LET sections == Sections(data.tagData[id])
  IN IF data.tagData[id] = NoText THEN NoText
     ELSE [i \in 1..(IF Len(sections) < takes THEN Len(sections) ELSE takes) |->
             process(sections[i], parameters)]

CanCall(data, id) == id # unknownTagID /\ id <= Len(data.tagData)

getByCalls(c, id, parameters, takes) ==
  CASE c # NoCode /\ CanCall(languageDataMap[c], id) ->
         callsBy(languageDataMap[c], id, parameters, takes)
    [] c # NoCode /\ ~CanCall(languageDataMap[c], id)
         /\ CanCall(languageDataMap[defaultLanguage], id) ->
         callsBy(languageDataMap[defaultLanguage], id, parameters, takes)
    [] OTHER -> <<<<ObjectGlyph>>>>

(* Stats::handleLanguages(): rintf() of the share of tags a language has   *)
percentComplete(c) ==
  LET tags == languageDataMap[c].tagCount
      halves == (200 * tags) \div highestTagID
      exact == halves * highestTagID = 200 * tags
  IN IF halves % 2 = 0 THEN halves \div 2
     ELSE IF exact /\ (halves \div 2) % 2 = 0 THEN halves \div 2 ELSE halves \div 2 + 1
-----------------------------------------------------------------------------
(* What the items of a line mean, one after the other                      *)
Meaning(items, parameters) ==
  LET upTo[i \in 0..Len(items)] ==
        IF i = 0 THEN <<>>
        ELSE upTo[i - 1] \o (
          CASE items[i].kind = "text" -> items[i].means
            [] items[i].kind = "fact" -> FactOf(items[i].means)
            [] items[i].kind = "parameter" ->
                 IF items[i].means \in DOMAIN parameters THEN parameters[items[i].means]
                 ELSE <<CharacterGlyph>>)
  IN upTo[Len(items)]

Written(items) ==
  LET upTo[i \in 0..Len(items)] ==
        IF i = 0 THEN <<>> ELSE upTo[i - 1] \o items[i].written
  IN upTo[Len(items)]

(* What a line of items is told as, and what becomes of that on its way to *)
(* a client and back                                                       *)
IsTold(items) ==
  LET line == <<9>> \o Written(items) \o <<32>>
  IN IF \E i \in DOMAIN items : items[i].kind = "section"
     THEN ResultOf(line) = "forever"
     ELSE /\ ResultOf(line) = "done"
          /\ \A parameters \in ParameterLists :
               LET text == process(TextOf(line), parameters)
                   sent == convertChars(changeOutputCharset("UTF-8").convDesc, text)
               IN /\ text = Meaning(items, parameters)
                  /\ sent.result = "done"
                  /\ localiseStr(changeInputCharset("UTF-8").convDesc, sent.text) = text

(* A translator's line is told as what its items mean, one by one: none of *)
(* them changes how its neighbours are read, a percent sign or a backslash *)
(* that was written by number or doubled is never read again, nothing is   *)
(* cut or added, and what a client must not get becomes a picture.  A line *)
(* with the new section \n of the document is the exception: no text comes *)
(* of it, because the load of its file never ends.  Whatever is told can be*)
(* sent in UTF-8, as the assertion in delocaliseStr() says, and a client   *)
(* that says it again is understood, however many buffers it takes.        *)
TextsAreTold ==
  phase = "configuring" /\ files = 0 =>
    \A n \in 0..3 : \A items \in [1..n -> Items] : IsTold(items)

(* What is written ends where the loop of preprocess() begins a round,     *)
(* whatever is behind it: the loop goes from the first to the last of some *)
(* places, and in none of its rounds looks further.                        *)
EndsARound(w) ==
  \E begins \in SUBSET (1..(Len(w) + 1)) :
    /\ {1, Len(w) + 1} \subseteq begins
    /\ \A i \in begins \ {Len(w) + 1} :
         \/ w[i] \notin {PERCENT, BACKSLASH} /\ i + 1 \in begins
         \/ /\ w[i] = PERCENT /\ i < Len(w)
            /\ (i + IF w[i + 1] = PERCENT THEN 2 ELSE 1) \in begins
         \/ w[i] = BACKSLASH /\ i < Len(w) /\ w[i + 1] \notin Digits /\ i + 2 \in begins
         \/ /\ w[i] = BACKSLASH /\ i + 3 <= Len(w)
            /\ \A j \in 1..3 : w[i + j] \in Digits
            /\ i + 4 \in begins

(* A text ends behind the letter or the digit that a marker in it needs.   *)
EndsNoMarker(text) ==
  \A i \in DOMAIN text :
    text[i] = parameterMarkerChar =>
      /\ i < Len(text)
      /\ text[i + 1] \in ParameterLetters => i + 1 < Len(text)

(* Each item is told as what it means when it is alone, has no spaces at   *)
(* its ends, and is complete.                                              *)
ItemsStandAlone ==
  \A item \in Items :
    /\ IsTold(<<item>>)
    /\ item.written # <<>>
    /\ {Head(item.written), Last(item.written)} \cap Spaces = {}
    /\ EndsARound(item.written)
    /\ item.kind # "section" => EndsNoMarker(TextOf(item.written))

(* No line is told as nothing but the sign for a missing text, as one that *)
(* is only the name of a network without a name would be.                  *)
NoLineIsTheSign ==
  \A line \in {line \in Lines : ResultOf(line) = "done"}, parameters \in ParameterLists :
    process(TextOf(line), parameters) # <<ObjectGlyph>>

(* Whatever the default language can tell, every language can, and every   *)
(* list of languages that no null pointer ends: a module that uses the     *)
(* numbers of its map gets a text for each tag that the default language   *)
(* has one for.  Called for by sections, a text comes as a single one.     *)
DefaultSpeaksForAll ==
  phase = "running" =>
    \A t \in Tags, parameters \in ParameterLists :
      LET default == IF TextAt(languageDataMap[defaultLanguage].tagData, t) = NoText
                     THEN Empty
                     ELSE process(TextAt(languageDataMap[defaultLanguage].tagData, t), parameters)
      IN Languages # {} /\ default # Empty =>
           /\ \A code \in Codes :
                findByCode(code) # NoCode =>
                  getByCode(code, tagMap[t], parameters) # <<ObjectGlyph>>
           /\ \A c, d \in Languages :
                getOfList(<<c, d>>, tagMap[t], parameters) # <<ObjectGlyph>>
           /\ getByCalls(defaultLanguage, tagMap[t], parameters, 2) = <<default>>

(* LANGUAGE marks a language as incomplete when it has fewer tags than     *)
(* there are, and STATS shows its share: one that is marked so, or shown   *)
(* with less than all, does lack a tag.                                    *)
IncompleteLacksATag ==
  \A c \in Languages :
    \/ languageDataMap[c].tagCount < highestTagID
    \/ highestTagID # 0 /\ percentComplete(c) < 100
    => \E t \in Tags :
         getTagID(t) # unknownTagID /\ TextAt(languageDataMap[c].tagData, t) = NoText
=============================================================================
