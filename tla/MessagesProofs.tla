--------------------------- MODULE MessagesProofs ---------------------------
(***************************************************************************)
(* Theorems about lines and messages, for any characters, chunks and       *)
(* writes: see Messages and Clbp.                                          *)
(***************************************************************************)
EXTENDS Messages, Loops

Chars == Text \cup EOL_CR_LF
Readings == [lines : Seq(Seq(Chars)), text : Seq(Text)]

LEMMA WithLineTyped ==
  ASSUME NEW lines \in Seq(Seq(Chars)), NEW line \in Seq(Chars)
  PROVE  withLine(lines, line) \in Seq(Seq(Chars))
  BY DEF withLine

LEMMA ReadingTyped ==
  ASSUME NEW r \in Readings, NEW c \in Chars
  PROVE  Reading(r, c) \in Readings
<1>1. r.lines \in Seq(Seq(Chars)) /\ r.text \in Seq(Text) /\ r.text \in Seq(Chars)
  BY DEF Readings, Chars
<1>2. CASE c \in EOL_CR_LF
  <2>1. withLine(r.lines, r.text) \in Seq(Seq(Chars))
    BY <1>1, WithLineTyped
  <2> QED
    BY <1>2, <2>1 DEF Reading, Readings
<1>3. CASE c \notin EOL_CR_LF
  <2>1. Reading(r, c) = [lines |-> r.lines, text |-> Append(r.text, c)]
    BY <1>3 DEF Reading, Readings
  <2>2. Append(r.text, c) \in Seq(Text)
    BY <1>1, <1>3 DEF Chars
  <2> QED
    BY <1>1, <2>1, <2>2 DEF Readings
<1> QED
  BY <1>2, <1>3

ReadStep == [p \in Readings \X Chars |-> Reading(p[1], p[2])]

(* Meaning() is what the loop over characters ends with.                   *)
LEMMA MeaningLoops ==
  ASSUME NEW s \in Seq(Chars)
  PROVE  \E f \in [0..Len(s) -> Readings] :
           Looping(f, Nothing, ReadStep, s) /\ Meaning(s) = f[Len(s)]
<1> DEFINE n == Len(s)
           After(f) == f = [i \in 0..n |-> IF i = 0 THEN Nothing ELSE Reading(f[i - 1], s[i])]
           read == CHOOSE f : After(f)
<1>0. n \in Nat /\ (\A i \in 1..n : s[i] \in Chars) /\ Nothing \in Readings
  BY DEF Nothing, Readings
<1>1. \E f : After(f)
  <2>1. ReadStep \in [Readings \X Chars -> Readings]
    BY ReadingTyped DEF ReadStep
  <2>2. PICK f \in [0..n -> Readings] : Looping(f, Nothing, ReadStep, s)
    BY <1>0, <2>1, LoopsRun
  <2>3. f = [i \in 0..n |-> IF i = 0 THEN Nothing ELSE ReadStep[<<f[i - 1], s[i]>>]]
    BY <2>2 DEF Looping
  <2>4. ASSUME NEW i \in 0..n, i # 0
        PROVE  ReadStep[<<f[i - 1], s[i]>>] = Reading(f[i - 1], s[i])
    BY <1>0, <2>4 DEF ReadStep
  <2>5. After(f)
    BY <2>3, <2>4
  <2> QED
    BY <2>5
<1>2. After(read)
  BY <1>1
<1>3. Meaning(s) = read[n]
  BY DEF Meaning
<1> HIDE DEF read
<1>4. read[0] = Nothing /\ \A i \in 1..n : read[i] = Reading(read[i - 1], s[i])
  BY <1>0, <1>2
<1>5. \A i \in 0..n : read[i] \in Readings
  <2> DEFINE Typed == {i \in 0..n : read[i] \in Readings}
  <2>1. 0 \in Typed
    BY <1>0, <1>4
  <2>2. ASSUME NEW i \in 1..n, i - 1 \in Typed
        PROVE  i \in Typed
    BY <1>0, <1>4, <2>2, ReadingTyped
  <2> HIDE DEF Typed
  <2>3. 0..n \subseteq Typed
    BY <1>0, <2>1, <2>2, RoundByRound
  <2> QED
    BY <2>3 DEF Typed
<1>6. read \in [0..n -> Readings]
  BY <1>2, <1>5
<1>7. Looping(read, Nothing, ReadStep, s)
  <2>1. ASSUME NEW i \in 0..n, i # 0
        PROVE  ReadStep[<<read[i - 1], s[i]>>] = Reading(read[i - 1], s[i])
    BY <1>0, <1>5, <2>1 DEF ReadStep
  <2> QED
    BY <1>2, <2>1 DEF Looping
<1> QED
  BY <1>3, <1>6, <1>7

LEMMA MeaningIs ==
  /\ Meaning(<<>>) = Nothing
  /\ \A s \in Seq(Chars) : Meaning(s) \in Readings
<1>1. ASSUME NEW s \in Seq(Chars)
      PROVE  Meaning(s) \in Readings
  <2>1. Len(s) \in 0..Len(s)
    OBVIOUS
  <2> QED
    BY <2>1, MeaningLoops
<1>2. Meaning(<<>>) = Nothing
  <2>1. <<>> \in Seq(Chars) /\ Len(<<>>) = 0
    OBVIOUS
  <2>2. PICK f \in [0..0 -> Readings] :
          Looping(f, Nothing, ReadStep, <<>>) /\ Meaning(<<>>) = f[0]
    BY <2>1, MeaningLoops
  <2> QED
    BY <2>1, <2>2 DEF Looping
<1> QED
  BY <1>1, <1>2

LEMMA MeaningOfMore ==
  ASSUME NEW s \in Seq(Chars), NEW c \in Chars
  PROVE  Meaning(Append(s, c)) = Reading(Meaning(s), c)
<1>1. PICK f \in [0..Len(s) -> Readings] :
        Looping(f, Nothing, ReadStep, s) /\ Meaning(s) = f[Len(s)]
  BY MeaningLoops
<1>2. Append(s, c) \in Seq(Chars) /\ Len(Append(s, c)) = Len(s) + 1
  OBVIOUS
<1>3. PICK h \in [0..(Len(s) + 1) -> Readings] :
        /\ Looping(h, Nothing, ReadStep, Append(s, c))
        /\ Meaning(Append(s, c)) = h[Len(s) + 1]
  BY <1>2, MeaningLoops
<1>4. h[Len(s) + 1] = ReadStep[<<f[Len(s)], c>>]
  <2>1. Looping(f, Nothing, ReadStep, s) /\ Looping(h, Nothing, ReadStep, Append(s, c))
    BY <1>1, <1>3
  <2> QED
    BY <2>1, LoopsGoOn
<1>5. Meaning(s) \in Readings
  BY MeaningIs
<1> QED
  BY <1>1, <1>3, <1>4, <1>5 DEF ReadStep
-----------------------------------------------------------------------------
(* Text goes on with the line, and its end ends it.                        *)
LEMMA MeaningOfText ==
  ASSUME NEW s \in Seq(Chars), NEW t \in Seq(Text)
  PROVE  /\ Meaning(s \o t).lines = Meaning(s).lines
         /\ Meaning(s \o t).text = Meaning(s).text \o t
<1> DEFINE n == Len(t)
           upto(i) == s \o SubSeq(t, 1, i)
           r == Meaning(s)
           Right == {i \in 0..n : /\ Meaning(upto(i)).lines = r.lines
                                  /\ Meaning(upto(i)).text = r.text \o SubSeq(t, 1, i)}
<1>0. /\ n \in Nat /\ t \in Seq(Chars) /\ r \in Readings /\ r.text \in Seq(Text)
      /\ \A i \in 1..n : t[i] \in Text /\ t[i] \in Chars /\ t[i] \notin EOL_CR_LF
  BY MeaningIs, ClbpAssumption DEF Chars, EOL_CR_LF, Readings
<1> HIDE DEF r
<1>1. 0 \in Right
  <2>1. SubSeq(t, 1, 0) = <<>>
    OBVIOUS
  <2>2. upto(0) = s /\ r.text \o <<>> = r.text /\ 0 \in 0..n
    BY <1>0, <2>1, ConcatEmptySeq
  <2> HIDE DEF upto, n
  <2> QED
    BY <2>1, <2>2 DEF r
<1>2. ASSUME NEW i \in 1..n, i - 1 \in Right
      PROVE  i \in Right
  <2>1. upto(i) = Append(upto(i - 1), t[i])
    BY <1>0, ConcatByOne
  <2>2. r.text \o SubSeq(t, 1, i) = Append(r.text \o SubSeq(t, 1, i - 1), t[i])
    BY <1>0, ConcatByOne
  <2>3. upto(i - 1) \in Seq(Chars)
    <3>1. SubSeq(t, 1, i - 1) \in Seq(Chars)
      BY <1>0
    <3> QED
      BY <3>1
  <2>4. i \in 0..n
    BY <1>0
  <2>5. /\ Meaning(upto(i - 1)).lines = r.lines
        /\ Meaning(upto(i - 1)).text = r.text \o SubSeq(t, 1, i - 1)
    BY <1>2
  <2> HIDE DEF upto
  <2>6. /\ Meaning(upto(i)) = Reading(Meaning(upto(i - 1)), t[i])
        /\ Meaning(upto(i - 1)) \in Readings
    BY <1>0, <2>1, <2>3, MeaningOfMore, MeaningIs
  <2> DEFINE m == Meaning(upto(i - 1))
  <2> HIDE DEF m
  <2>7. Reading(m, t[i]).lines = m.lines /\ Reading(m, t[i]).text = Append(m.text, t[i])
    BY <1>0, <2>6 DEF Reading, Readings, m
  <2> QED
    BY <2>2, <2>4, <2>5, <2>6, <2>7 DEF m
<1>3. n \in Right
  <2> HIDE DEF Right, n
  <2>1. 0..n \subseteq Right
    BY <1>0, <1>1, <1>2, RoundByRound
  <2> QED
    BY <1>0, <2>1
<1>4. SubSeq(t, 1, n) = t
  BY SubSeqFull
<1> QED
  BY <1>3, <1>4 DEF r

LEMMA MeaningOfEnd ==
  ASSUME NEW s \in Seq(Chars), NEW c \in EOL_CR_LF
  PROVE  /\ Meaning(Append(s, c)).lines = withLine(Meaning(s).lines, Meaning(s).text)
         /\ Meaning(Append(s, c)).text = <<>>
<1>1. Meaning(Append(s, c)) = Reading(Meaning(s), c)
  BY MeaningOfMore DEF Chars
<1> QED
  BY <1>1 DEF Reading

LEMMA MeaningOfSecondEnd ==
  ASSUME NEW s \in Seq(Chars), NEW c \in EOL_CR_LF, Meaning(s).text = <<>>
  PROVE  Meaning(Append(s, c)).lines = Meaning(s).lines /\ Meaning(Append(s, c)).text = <<>>
  BY MeaningOfEnd DEF withLine
-----------------------------------------------------------------------------
(* Lines, and a step of the loop over them                                 *)
AnyLine == Seq(Chars)
LineLists == Seq(AnyLine)
FilterStep == [p \in LineLists \X AnyLine |-> withLine(p[1], p[2])]

LEMMA ListedLines ==
  ASSUME NEW lines \in LineLists, NEW line \in AnyLine
  PROVE  withLine(lines, line) \in LineLists
  BY WithLineTyped DEF LineLists, AnyLine

(* NotEmpty() is what the loop over lines ends with.                       *)
LEMMA NotEmptyLoops ==
  ASSUME NEW ls \in LineLists
  PROVE  \E f \in [0..Len(ls) -> LineLists] :
           Looping(f, <<>>, FilterStep, ls) /\ NotEmpty(ls) = f[Len(ls)]
<1> DEFINE n == Len(ls)
           After(f) == f = [i \in 0..n |-> IF i = 0 THEN <<>> ELSE withLine(f[i - 1], ls[i])]
           found == CHOOSE f : After(f)
<1>0. n \in Nat /\ (\A i \in 1..n : ls[i] \in AnyLine) /\ <<>> \in LineLists
  BY DEF LineLists
<1>1. \E f : After(f)
  <2>1. FilterStep \in [LineLists \X AnyLine -> LineLists]
    BY ListedLines DEF FilterStep
  <2>2. PICK f \in [0..n -> LineLists] : Looping(f, <<>>, FilterStep, ls)
    <3>1. ls \in Seq(AnyLine)
      BY DEF LineLists
    <3> QED
      BY <1>0, <2>1, <3>1, LoopsRun
  <2>3. f = [i \in 0..n |-> IF i = 0 THEN <<>> ELSE FilterStep[<<f[i - 1], ls[i]>>]]
    BY <2>2 DEF Looping
  <2>4. ASSUME NEW i \in 0..n, i # 0
        PROVE  FilterStep[<<f[i - 1], ls[i]>>] = withLine(f[i - 1], ls[i])
    BY <1>0, <2>4 DEF FilterStep
  <2>5. After(f)
    BY <2>3, <2>4
  <2> QED
    BY <2>5
<1>2. After(found)
  BY <1>1
<1>3. NotEmpty(ls) = found[n]
  BY DEF NotEmpty
<1> HIDE DEF found
<1>4. found[0] = <<>> /\ \A i \in 1..n : found[i] = withLine(found[i - 1], ls[i])
  BY <1>0, <1>2
<1>5. \A i \in 0..n : found[i] \in LineLists
  <2> DEFINE Typed == {i \in 0..n : found[i] \in LineLists}
  <2>1. 0 \in Typed
    BY <1>0, <1>4
  <2>2. ASSUME NEW i \in 1..n, i - 1 \in Typed
        PROVE  i \in Typed
    BY <1>0, <1>4, <2>2, ListedLines
  <2> HIDE DEF Typed
  <2>3. 0..n \subseteq Typed
    BY <1>0, <2>1, <2>2, RoundByRound
  <2> QED
    BY <2>3 DEF Typed
<1>6. found \in [0..n -> LineLists]
  BY <1>2, <1>5
<1>7. Looping(found, <<>>, FilterStep, ls)
  <2>1. ASSUME NEW i \in 0..n, i # 0
        PROVE  FilterStep[<<found[i - 1], ls[i]>>] = withLine(found[i - 1], ls[i])
    BY <1>0, <1>5, <2>1 DEF FilterStep
  <2> QED
    BY <1>2, <2>1 DEF Looping
<1> QED
  BY <1>3, <1>6, <1>7

LEMMA NotEmptyIs ==
  /\ NotEmpty(<<>>) = <<>>
  /\ \A ls \in LineLists : NotEmpty(ls) \in LineLists
<1>1. ASSUME NEW ls \in LineLists
      PROVE  NotEmpty(ls) \in LineLists
  <2>1. Len(ls) \in 0..Len(ls)
    OBVIOUS
  <2> QED
    BY <2>1, NotEmptyLoops
<1>2. NotEmpty(<<>>) = <<>>
  <2>1. <<>> \in LineLists /\ Len(<<>>) = 0
    BY DEF LineLists
  <2>2. PICK f \in [0..0 -> LineLists] :
          Looping(f, <<>>, FilterStep, <<>>) /\ NotEmpty(<<>>) = f[0]
    BY <2>1, NotEmptyLoops
  <2> QED
    BY <2>1, <2>2 DEF Looping
<1> QED
  BY <1>1, <1>2

LEMMA NotEmptyOfMore ==
  ASSUME NEW ls \in LineLists, NEW l \in AnyLine
  PROVE  NotEmpty(Append(ls, l)) = withLine(NotEmpty(ls), l)
<1>1. PICK f \in [0..Len(ls) -> LineLists] :
        Looping(f, <<>>, FilterStep, ls) /\ NotEmpty(ls) = f[Len(ls)]
  BY NotEmptyLoops
<1>2. Append(ls, l) \in LineLists /\ Len(Append(ls, l)) = Len(ls) + 1
  BY DEF LineLists
<1>3. PICK h \in [0..(Len(ls) + 1) -> LineLists] :
        /\ Looping(h, <<>>, FilterStep, Append(ls, l))
        /\ NotEmpty(Append(ls, l)) = h[Len(ls) + 1]
  BY <1>2, NotEmptyLoops
<1>4. h[Len(ls) + 1] = FilterStep[<<f[Len(ls)], l>>]
  <2>1. Looping(f, <<>>, FilterStep, ls) /\ Looping(h, <<>>, FilterStep, Append(ls, l))
    BY <1>1, <1>3
  <2> QED
    BY <2>1, LoopsGoOn DEF LineLists
<1>5. NotEmpty(ls) \in LineLists
  BY NotEmptyIs
<1> QED
  BY <1>1, <1>3, <1>4, <1>5 DEF FilterStep
-----------------------------------------------------------------------------
(* b ends in a; the lines found end in the lines meant.                    *)
Ends(a, b) == \E u \in AnyLine : b = u \o a

Matching(meant, found) ==
  /\ Len(found) = Len(meant)
  /\ \A k \in 1..Len(meant) : Ends(meant[k], found[k])

LEMMA MatchingMore ==
  ASSUME NEW meant \in LineLists, NEW found \in LineLists, Matching(meant, found),
         NEW a \in AnyLine, NEW b \in AnyLine, Ends(a, b), a = <<>> <=> b = <<>>
  PROVE  Matching(withLine(meant, a), withLine(found, b))
<1>1. CASE a = <<>>
  BY <1>1 DEF withLine
<1>2. CASE a # <<>>
  <2> DEFINE m == Append(meant, a)
             f == Append(found, b)
             n == Len(meant)
  <2>1. withLine(meant, a) = m /\ withLine(found, b) = f
    BY <1>2 DEF withLine
  <2>2. /\ n \in Nat /\ Len(found) = n
        /\ Len(m) = n + 1 /\ m[n + 1] = a /\ (\A k \in 1..n : m[k] = meant[k])
        /\ Len(f) = n + 1 /\ f[n + 1] = b /\ (\A k \in 1..n : f[k] = found[k])
    BY DEF Matching, LineLists
  <2>3. \A k \in 1..n : Ends(meant[k], found[k])
    BY DEF Matching
  <2>4. \A k \in 1..(n + 1) : k \in 1..n \/ k = n + 1
    BY <2>2
  <2> HIDE DEF m, f, n
  <2> QED
    BY <2>1, <2>2, <2>3, <2>4 DEF Matching
<1> QED
  BY <1>1, <1>2

(* The variables of the loop: between calls, and in the middle of a chunk, *)
(* whose rest from pos on is still to be read.                             *)
ChunkOK ==
  /\ inputQueue \in AnyLine /\ data \in AnyLine /\ stream \in AnyLine
  /\ parsed \in LineLists /\ leftover \in BOOLEAN
  /\ pos \in Nat /\ pos >= 1
  /\ IF data = <<>> THEN pos = 1 ELSE pos <= Len(data)

Rest == SubSeq(data, pos, Len(data))

(* What has been parsed and buffered follows from the meaning r of what was*)
(* read: whatever the buffer holds more than it should is in front.        *)
Follows(r) ==
  /\ Matching(r.lines, Parsed)
  /\ Ends(r.text, inputQueue)
  /\ r.text = <<>> <=> inputQueue = <<>>
  /\ pos > 1 => inputQueue = <<>>
  /\ ~leftover => Parsed = r.lines /\ inputQueue = r.text

Heard == \E c \in AnyLine : stream = c \o Rest /\ Follows(Meaning(c))

LEMMA RestIs ==
  ASSUME ChunkOK
  PROVE  /\ Rest \in AnyLine /\ Len(data) \in Nat
         /\ data = <<>> => Rest = <<>>
         /\ data # <<>> => Rest # <<>> /\ Ends(Rest, data) /\ (pos = 1 => Rest = data)
<1>0. Len(data) \in Nat /\ data \in Seq(Chars) /\ pos \in Nat /\ pos >= 1
  BY DEF ChunkOK, AnyLine
<1>1. Rest \in AnyLine
  BY <1>0 DEF Rest, AnyLine
<1>2. ASSUME data = <<>>
      PROVE  Rest = <<>>
  BY <1>2, SubSeqEmpty DEF ChunkOK, Rest
<1>3. ASSUME data # <<>>
      PROVE  Rest # <<>> /\ Ends(Rest, data) /\ (pos = 1 => Rest = data)
  <2>1. pos \in 1..Len(data) /\ pos <= Len(data)
    BY <1>0, <1>3 DEF ChunkOK
  <2>2. Len(Rest) = Len(data) - pos + 1
    BY <1>0, <2>1 DEF Rest
  <2>3. Rest # <<>>
    BY <1>0, <2>1, <2>2
  <2>4. SubSeq(data, 1, pos - 1) \o SubSeq(data, (pos - 1) + 1, Len(data))
          = SubSeq(data, 1, Len(data))
    <3> DEFINE k == pos - 1
               n == Len(data)
    <3>1. 1 \in 1..(n + 1) /\ k \in (1 - 1)..n /\ n \in k..n
      BY <1>0, <2>1
    <3> HIDE DEF k, n
    <3> QED
      BY <1>0, <3>1, ConcatAdjacentSubSeq DEF k, n
  <2>5. SubSeq(data, 1, Len(data)) = data /\ (pos - 1) + 1 = pos
    BY <1>0, SubSeqFull
  <2>6. SubSeq(data, 1, pos - 1) \in AnyLine
    BY <1>0, <2>1 DEF AnyLine
  <2> QED
    BY <2>3, <2>4, <2>5, <2>6 DEF Ends, Rest
<1> QED
  BY <1>0, <1>1, <1>2, <1>3

LEMMA ParsedIs == ChunkOK => Parsed \in LineLists
  BY NotEmptyIs DEF ChunkOK, Parsed

LEMMA MeaningTyped ==
  ASSUME NEW c \in AnyLine
  PROVE  /\ Meaning(c).lines \in LineLists
         /\ Meaning(c).text \in Seq(Text) /\ Meaning(c).text \in AnyLine
<1>1. Meaning(c) \in Readings
  BY MeaningIs DEF AnyLine
<1> QED
  BY <1>1 DEF Readings, LineLists, AnyLine, Chars

LEMMA TextIsALine ==
  ASSUME NEW t \in Seq(Text)
  PROVE  t \in AnyLine
  BY SeqMonotonic DEF AnyLine, Chars

LEMMA PartOfData ==
  ASSUME ChunkOK, NEW i \in Nat, i >= 1
  PROVE  SubSeq(data, i, Len(data)) \in AnyLine
<1>1. Len(data) \in Nat /\ \A j \in 1..Len(data) : data[j] \in Chars
  BY DEF ChunkOK, AnyLine
<1>2. \A j \in i..Len(data) : data[j] \in Chars
  BY <1>1
<1> QED
  BY <1>1, <1>2, SubSeqProperties DEF AnyLine

LEMMA Associative == \A a, b, c \in AnyLine : (a \o b) \o c = a \o (b \o c)
  BY ConcatAssociative DEF AnyLine

LEMMA HandleInputFollows ==
  ASSUME ChunkOK, Heard, NEW chunk \in AnyLine, handleInput(chunk)
  PROVE  ChunkOK' /\ Heard'
<1>1. /\ data = <<>> /\ chunk # <<>> /\ data' = chunk /\ pos' = 1
      /\ stream' = stream \o chunk /\ UNCHANGED <<inputQueue, parsed, leftover>>
  BY DEF handleInput
<1>2. ChunkOK'
  <2>1. stream \o chunk \in AnyLine /\ Len(chunk) \in Nat /\ Len(chunk) # 0
    BY <1>1 DEF ChunkOK, AnyLine
  <2> QED
    BY <1>1, <2>1 DEF ChunkOK
<1>3. PICK c \in AnyLine : stream = c \o Rest /\ Follows(Meaning(c))
  BY DEF Heard
<1>4. stream = c
  BY <1>1, <1>3, RestIs, ConcatEmptySeq DEF AnyLine
<1>5. Rest' = chunk
  BY <1>1, SubSeqFull DEF Rest, AnyLine
<1>6. Follows(Meaning(c))'
  BY <1>1, <1>3 DEF Follows, Parsed
<1>7. stream' = c \o Rest'
  BY <1>1, <1>4, <1>5
<1> QED
  BY <1>2, <1>6, <1>7 DEF Heard

LEMMA IncompleteFollows ==
  ASSUME ChunkOK, Heard, incompleteLine
  PROVE  ChunkOK' /\ Heard'
<1>1. /\ data # <<>> /\ endsFromPos = {} /\ inputQueue' = inputQueue \o data
      /\ data' = <<>> /\ pos' = 1 /\ leftover' = (leftover \/ pos > 1)
      /\ UNCHANGED <<parsed, stream>>
  BY DEF incompleteLine
<1>2. ChunkOK'
  BY <1>1 DEF ChunkOK, AnyLine
<1>3. PICK c \in AnyLine : stream = c \o Rest /\ Follows(Meaning(c))
  BY DEF Heard
<1> DEFINE r == Meaning(c)
<1>4. Rest \in Seq(Text)
  <2>1. data \in Seq(Chars) /\ Len(data) \in Nat /\ pos \in Nat /\ pos >= 1
    BY DEF ChunkOK, AnyLine
  <2>2. \A i \in pos..Len(data) : data[i] \in Text
    BY <1>1, <2>1 DEF endsFromPos, Chars
  <2> QED
    BY <2>1, <2>2, SubSeqProperties DEF Rest
<1>5. Rest' = <<>>
  BY <1>1, SubSeqEmpty DEF Rest
<1>6. PICK d \in AnyLine : /\ d = stream /\ Meaning(d).lines = r.lines
                          /\ Meaning(d).text = r.text \o Rest
  <2>1. /\ Meaning(stream).lines = r.lines
        /\ Meaning(stream).text = r.text \o Rest
    BY <1>3, <1>4, MeaningOfText DEF AnyLine
  <2> QED
    BY <2>1 DEF ChunkOK
<1>7. /\ r.text \in AnyLine /\ Rest \in AnyLine /\ Rest # <<>> /\ Ends(Rest, data)
      /\ pos = 1 => Rest = data
      /\ inputQueue \in AnyLine /\ data \in AnyLine /\ stream \in AnyLine
  BY <1>1, MeaningTyped, RestIs DEF ChunkOK
<1>8. /\ Matching(r.lines, Parsed) /\ Ends(r.text, inputQueue)
      /\ r.text = <<>> <=> inputQueue = <<>>
      /\ pos > 1 => inputQueue = <<>>
      /\ ~leftover => Parsed = r.lines /\ inputQueue = r.text
  BY <1>3 DEF Follows
<1> HIDE DEF r
<1>9. r.text \o Rest # <<>> /\ inputQueue \o data # <<>>
  BY <1>1, <1>7, ConcatEqualIffEmpty DEF AnyLine
<1>12. Parsed' = Parsed
  BY <1>1 DEF Parsed
<1>10. CASE pos = 1
  <2>1. PICK u \in AnyLine : inputQueue = u \o r.text
    BY <1>8 DEF Ends
  <2>2. inputQueue \o data = u \o (r.text \o Rest)
    <3>1. (u \o r.text) \o Rest = u \o (r.text \o Rest)
      BY <1>7, Associative
    <3> QED
      BY <1>7, <1>10, <2>1, <3>1
  <2>3. Ends(r.text \o Rest, inputQueue')
    BY <1>1, <2>2 DEF Ends
  <2>4. Follows(Meaning(d))'
    <3>1. /\ Meaning(d).lines = r.lines /\ Meaning(d).text = r.text \o Rest
          /\ ~(pos' > 1) /\ leftover' = leftover
      BY <1>1, <1>6, <1>10 DEF ChunkOK
    <3>2. ~leftover' => Parsed = r.lines /\ inputQueue' = r.text \o Rest
      BY <1>1, <1>7, <1>8, <1>10, <3>1
    <3> QED
      BY <1>1, <1>8, <1>9, <1>12, <2>3, <3>1, <3>2 DEF Follows
  <2>5. stream' = d \o Rest'
    BY <1>1, <1>5, <1>6, ConcatEmptySeq DEF AnyLine
  <2> QED
    BY <1>2, <1>6, <2>4, <2>5 DEF Heard
<1>11. CASE pos # 1
  <2>1. pos > 1
    BY <1>11 DEF ChunkOK
  <2>2. inputQueue = <<>> /\ r.text = <<>> /\ inputQueue' = data /\ r.text \o Rest = Rest
    BY <1>1, <1>7, <1>8, <2>1, ConcatEmptySeq DEF AnyLine
  <2>3. Ends(r.text \o Rest, inputQueue')
    BY <1>7, <2>2
  <2>4. Follows(Meaning(d))'
    <3>1. /\ Meaning(d).lines = r.lines /\ Meaning(d).text = r.text \o Rest
          /\ ~(pos' > 1)
      BY <1>1, <1>6, <2>1
    <3>2. leftover'
      BY <1>1, <2>1, Zenon
    <3> QED
      BY <3>2, <1>1, <1>8, <1>9, <1>12, <2>3, <3>1 DEF Follows
  <2>5. stream' = d \o Rest'
    BY <1>1, <1>5, <1>6, ConcatEmptySeq DEF AnyLine
  <2> QED
    BY <1>2, <1>6, <2>4, <2>5 DEF Heard
<1> QED
  BY <1>10, <1>11

(* The loop goes on at next, which is one or two characters behind the end.*)
LEMMA ContinueIs ==
  ASSUME ChunkOK, NEW next \in Nat, next >= 1, continueFrom(next)
  PROVE  /\ data' \in AnyLine /\ pos' \in Nat /\ pos' >= 1
         /\ IF data' = <<>> THEN pos' = 1 ELSE pos' <= Len(data')
         /\ Rest' = SubSeq(data, next, Len(data))
<1>0. data \in Seq(Chars) /\ Len(data) \in Nat
  BY DEF ChunkOK, AnyLine
<1>1. CASE next > Len(data)
  <2>1. data' = <<>> /\ pos' = 1
    BY <1>1 DEF continueFrom
  <2>2. SubSeq(data, next, Len(data)) = <<>> /\ Rest' = <<>>
    BY <1>0, <1>1, <2>1, SubSeqEmpty DEF Rest
  <2> QED
    BY <2>1, <2>2 DEF AnyLine
<1>2. CASE ~(next > Len(data))
  <2>1. data' = data /\ pos' = next
    BY <1>2 DEF continueFrom
  <2> QED
    BY <1>0, <1>2, <2>1 DEF Rest, AnyLine
<1> QED
  BY <1>1, <1>2

LEMMA FirstEnd ==
  ASSUME ChunkOK, endsFromPos # {}, NEW e, e = Min(endsFromPos)
  PROVE  /\ e \in Nat /\ pos <= e /\ e <= Len(data) /\ data[e] \in EOL_CR_LF
         /\ SubSeq(data, pos, e - 1) \in Seq(Text)
         /\ Rest = Append(SubSeq(data, pos, e - 1), data[e]) \o SubSeq(data, e + 1, Len(data))
<1>0. data \in Seq(Chars) /\ Len(data) \in Nat /\ pos \in Nat /\ pos >= 1
  BY DEF ChunkOK, AnyLine
<1>1. endsFromPos \subseteq Nat
  BY <1>0 DEF endsFromPos
<1>2. e \in endsFromPos /\ \A i \in endsFromPos : e <= i
  BY <1>1, MinOfNumbers
<1>3. e \in pos..Len(data) /\ data[e] \in EOL_CR_LF
  BY <1>2 DEF endsFromPos
<1>4. SubSeq(data, pos, e - 1) \in Seq(Text)
  <2>1. ASSUME NEW i \in pos..(e - 1)
        PROVE  data[i] \in Text
    <3>1. i \in pos..Len(data) /\ ~(e <= i)
      BY <1>0, <1>3
    <3>2. data[i] \notin EOL_CR_LF
      BY <1>2, <3>1 DEF endsFromPos
    <3> QED
      BY <1>0, <3>1, <3>2 DEF Chars
  <2> QED
    BY <1>0, <1>3, <2>1, SubSeqProperties
<1>5. Rest = SubSeq(data, pos, e) \o SubSeq(data, e + 1, Len(data))
  <2> DEFINE n == Len(data)
  <2>1. pos \in 1..(n + 1) /\ e \in (pos - 1)..n /\ n \in e..n
    BY <1>0, <1>3
  <2> HIDE DEF n
  <2> QED
    BY <1>0, <2>1, ConcatAdjacentSubSeq DEF Rest, n
<1>6. SubSeq(data, pos, e) = Append(SubSeq(data, pos, e - 1), data[e])
  <2>1. pos \in 1..Len(data)
    BY <1>0, <1>3
  <2>2. SubSeq(data, pos, e) = SubSeq(data, pos, e - 1) \o <<data[e]>>
    BY <1>0, <1>3, <2>1, SubSeqRecursiveSecond
  <2>3. SubSeq(data, pos, e - 1) \in Seq(Chars) /\ data[e] \in Chars
    <3>1. e \in 1..Len(data) /\ \A i \in pos..(e - 1) : i \in 1..Len(data)
      BY <1>0, <1>3
    <3> QED
      BY <1>0, <1>3, <3>1, SubSeqProperties
  <2> DEFINE a == SubSeq(data, pos, e - 1)
  <2> HIDE DEF a
  <2>4. a \o <<data[e]>> = Append(a, data[e])
    BY <2>3 DEF a
  <2> QED
    BY <2>2, <2>4 DEF a
<1>7. e \in Nat /\ pos <= e /\ e <= Len(data)
  BY <1>0, <1>3
<1> QED
  BY <1>3, <1>4, <1>5, <1>6, <1>7

(* Where the reading of a chunk goes on once a line has ended: the meaning *)
(* of what was read has the line, and no text of another.                  *)
LEMMA AfterLineIs ==
  ASSUME ChunkOK, endsFromPos # {}, NEW e, e = Min(endsFromPos),
         NEW c \in AnyLine, NEW before, before = SubSeq(data, pos, e - 1)
  PROVE  /\ afterLine(e) \in Nat /\ afterLine(e) >= 1
         /\ \E d \in AnyLine :
              /\ c \o Rest = d \o SubSeq(data, afterLine(e), Len(data))
              /\ Meaning(d).lines = withLine(Meaning(c).lines, Meaning(c).text \o before)
              /\ Meaning(d).text = <<>>
<1>0. data \in Seq(Chars) /\ Len(data) \in Nat
  BY DEF ChunkOK, AnyLine
<1>1. /\ e \in Nat /\ e >= 1 /\ e <= Len(data) /\ data[e] \in EOL_CR_LF
      /\ before \in Seq(Text) /\ before \in AnyLine
      /\ Rest = Append(before, data[e]) \o SubSeq(data, e + 1, Len(data))
  <2>1. /\ e \in Nat /\ pos <= e /\ e <= Len(data) /\ data[e] \in EOL_CR_LF
        /\ before \in Seq(Text)
        /\ Rest = Append(before, data[e]) \o SubSeq(data, e + 1, Len(data))
    BY FirstEnd
  <2>2. e >= 1
    BY <2>1 DEF ChunkOK
  <2>3. before \in AnyLine
    BY <2>1, TextIsALine
  <2> QED
    BY <2>1, <2>2, <2>3
<1>2. e \in Nat /\ e >= 1 /\ afterLine(e) \in {e + 1, e + 2}
  BY <1>1 DEF afterLine
<1> DEFINE d1 == Append(c \o before, data[e])
           after == SubSeq(data, e + 1, Len(data))
<1>3. after \in AnyLine /\ data[e] \in Chars
  <2>1. e + 1 \in Nat /\ e + 1 >= 1
    BY <1>2
  <2>2. after \in AnyLine
    BY <2>1, PartOfData
  <2> QED
    BY <1>1, <2>2 DEF Chars
<1>4. d1 \in AnyLine /\ c \o Rest = d1 \o after
  <2>1. Append(before, data[e]) \in AnyLine
    BY <1>1, <1>3 DEF AnyLine
  <2>2. Append(c \o before, data[e]) = c \o Append(before, data[e])
    <3>1. c \in Seq(Chars) /\ before \in Seq(Chars) /\ data[e] \in Chars
      BY <1>1, <1>3 DEF AnyLine
    <3>2. \A x \in Chars : c \o Append(before, x) = Append(c \o before, x)
      BY ONLY <3>1, ConcatAppend
    <3> QED
      BY <3>1, <3>2
  <2>3. d1 \in AnyLine
    BY <1>1, <1>3 DEF AnyLine
  <2> HIDE DEF after, d1
  <2>4. c \o (Append(before, data[e]) \o after) = (c \o Append(before, data[e])) \o after
    BY <1>3, <2>1, Associative, ZenonT(40)
  <2> QED
    BY <1>1, <2>2, <2>3, <2>4 DEF d1, after
<1>5. /\ Meaning(d1).lines = withLine(Meaning(c).lines, Meaning(c).text \o before)
      /\ Meaning(d1).text = <<>>
  <2>1. c \o before \in Seq(Chars)
    BY <1>1 DEF AnyLine
  <2>2. /\ Meaning(c \o before).lines = Meaning(c).lines
        /\ Meaning(c \o before).text = Meaning(c).text \o before
    BY <1>1, MeaningOfText DEF AnyLine
  <2> QED
    BY <1>1, <2>1, <2>2, MeaningOfEnd
<1>6. CASE afterLine(e) = e + 1
  <2>1. c \o Rest = d1 \o SubSeq(data, afterLine(e), Len(data))
    BY <1>4, <1>6
  <2>2. afterLine(e) \in Nat /\ afterLine(e) >= 1
    BY <1>2, <1>6
  <2> HIDE DEF d1
  <2> QED
    BY <1>4, <1>5, <2>1, <2>2
<1>7. CASE afterLine(e) # e + 1
  <2>1. e < Len(data) /\ data[e + 1] = LF /\ afterLine(e) = e + 2
    BY <1>7 DEF afterLine
  <2> DEFINE d2 == Append(d1, LF)
             more == SubSeq(data, e + 2, Len(data))
  <2>2. after = <<LF>> \o more
    <3> DEFINE n == Len(data)
               i == e + 1
    <3>1. n \in Nat /\ e \in Nat /\ e >= 1 /\ e < n
      BY <1>0, <1>1, <2>1
    <3>2. i \in 1..n /\ n \in i..n /\ i + 1 = e + 2
      <4> HIDE DEF n
      <4> QED
        BY <3>1
    <3> HIDE DEF i
    <3>3. SubSeq(data, i, n) = <<data[i]>> \o SubSeq(data, i + 1, n)
      BY <1>0, <3>2, SubSeqRecursiveFirst
    <3> QED
      BY <2>1, <3>2, <3>3 DEF i
  <2>3. LF \in Chars /\ LF \in EOL_CR_LF /\ more \in AnyLine /\ <<LF>> \in AnyLine
    <3>1. e + 2 \in Nat /\ e + 2 >= 1
      BY <1>2
    <3>2. more \in AnyLine
      BY <3>1, PartOfData
    <3>3. LF \in Chars /\ LF \in EOL_CR_LF
      BY DEF Chars, EOL_CR_LF
    <3> QED
      BY <3>2, <3>3 DEF AnyLine
  <2> HIDE DEF d1, after, more
  <2>4. d2 \in AnyLine /\ d2 = d1 \o <<LF>>
    BY <1>4, <2>3 DEF AnyLine
  <2>5. d1 \o (<<LF>> \o more) = (d1 \o <<LF>>) \o more
    BY <1>4, <2>3, Associative
  <2>6. c \o Rest = d2 \o more
    BY <1>4, <2>2, <2>4, <2>5
  <2>7. Meaning(d2).lines = Meaning(d1).lines /\ Meaning(d2).text = <<>>
    BY <1>4, <1>5, <2>3, MeaningOfSecondEnd DEF AnyLine
  <2>8. c \o Rest = d2 \o SubSeq(data, afterLine(e), Len(data))
    BY <2>1, <2>6 DEF more
  <2>9. afterLine(e) \in Nat /\ afterLine(e) >= 1
    BY <1>2, <2>1
  <2> HIDE DEF d2
  <2> QED
    BY <1>5, <2>4, <2>7, <2>8, <2>9
<1> QED
  BY <1>6, <1>7

LEMMA CompleteFollows ==
  ASSUME ChunkOK, Heard, completeLine
  PROVE  ChunkOK' /\ Heard'
<1> DEFINE e == Min(endsFromPos)
           before == SubSeq(data, pos, e - 1)
           line == inputQueue \o before
<1>1. /\ endsFromPos # {} /\ parsed' = Append(parsed, line)
      /\ continueFrom(afterLine(e)) /\ inputQueue' = <<>>
      /\ UNCHANGED <<stream, leftover>>
  BY DEF completeLine
<1>2. before \in AnyLine /\ inputQueue \in AnyLine /\ line \in AnyLine /\ parsed \in LineLists
  <2>1. before \in Seq(Text)
    BY <1>1, FirstEnd
  <2>2. before \in AnyLine
    BY <2>1, TextIsALine
  <2> HIDE DEF before
  <2> QED
    BY <2>2 DEF ChunkOK, AnyLine
<1>3. PICK c \in AnyLine : stream = c \o Rest /\ Follows(Meaning(c))
  BY DEF Heard
<1>4. /\ afterLine(e) \in Nat /\ afterLine(e) >= 1
      /\ \E d \in AnyLine :
           /\ c \o Rest = d \o SubSeq(data, afterLine(e), Len(data))
           /\ Meaning(d).lines = withLine(Meaning(c).lines, Meaning(c).text \o before)
           /\ Meaning(d).text = <<>>
  BY <1>1, AfterLineIs, ZenonT(40)
<1>5. PICK d \in AnyLine :
        /\ c \o Rest = d \o SubSeq(data, afterLine(e), Len(data))
        /\ Meaning(d).lines = withLine(Meaning(c).lines, Meaning(c).text \o before)
        /\ Meaning(d).text = <<>>
  BY <1>4
<1>6. /\ data' \in AnyLine /\ pos' \in Nat /\ pos' >= 1
      /\ IF data' = <<>> THEN pos' = 1 ELSE pos' <= Len(data')
      /\ Rest' = SubSeq(data, afterLine(e), Len(data))
  BY <1>1, <1>4, ContinueIs
<1> HIDE DEF e, before
<1>7. ChunkOK'
  <2>1. Append(parsed, line) \in LineLists /\ <<>> \in AnyLine
    BY <1>2 DEF LineLists, AnyLine
  <2> HIDE DEF line
  <2> QED
    BY <1>1, <1>6, <2>1 DEF ChunkOK
<1> DEFINE r == Meaning(c)
<1>8. /\ Matching(r.lines, Parsed) /\ Ends(r.text, inputQueue)
      /\ r.text = <<>> <=> inputQueue = <<>>
      /\ ~leftover => Parsed = r.lines /\ inputQueue = r.text
  BY <1>3 DEF Follows
<1>9. r.lines \in LineLists /\ r.text \in AnyLine /\ Parsed \in LineLists
  BY MeaningTyped, ParsedIs
<1> HIDE DEF r
<1>10. Ends(r.text \o before, line)
  <2>1. PICK u \in AnyLine : inputQueue = u \o r.text
    BY <1>8 DEF Ends
  <2>2. (u \o r.text) \o before = u \o (r.text \o before)
    BY <1>2, <1>9, Associative
  <2> QED
    BY <2>1, <2>2 DEF Ends
<1>11. r.text \o before \in AnyLine /\ (r.text \o before = <<>> <=> line = <<>>)
  BY <1>2, <1>8, <1>9, ConcatEqualIffEmpty DEF AnyLine
<1>12. Parsed' = withLine(Parsed, line)
  <2>1. NotEmpty(Append(parsed, line)) = withLine(NotEmpty(parsed), line)
    BY <1>2, NotEmptyOfMore
  <2> QED
    BY <1>1, <2>1 DEF Parsed
<1>13. Matching(withLine(r.lines, r.text \o before), withLine(Parsed, line))
  <2> HIDE DEF line
  <2> QED
    BY <1>2, <1>8, <1>9, <1>10, <1>11, MatchingMore
<1>14. Meaning(d).lines = withLine(r.lines, r.text \o before) /\ Meaning(d).text = <<>>
  BY <1>5 DEF r
<1>15. ~leftover => withLine(Parsed, line) = withLine(r.lines, r.text \o before)
  BY <1>8
<1> HIDE DEF line
<1>16. Follows(Meaning(d))'
  <2>1. Ends(<<>>, <<>>)
    <3>1. <<>> \in AnyLine /\ <<>> = <<>> \o <<>>
      BY DEF AnyLine
    <3> QED
      BY <3>1 DEF Ends
  <2> QED
    BY <1>1, <1>12, <1>13, <1>14, <1>15, <2>1 DEF Follows
<1>17. stream' = d \o Rest'
  BY <1>1, <1>3, <1>5, <1>6
<1> QED
  BY <1>7, <1>16, <1>17 DEF Heard

LEMMA ParseFollows ==
  ASSUME ChunkOK, Heard, parse
  PROVE  ChunkOK' /\ Heard'
  BY IncompleteFollows, CompleteFollows DEF parse

(* The loop's variables begin empty.                                       *)
LEMMA ClbpBegins == ClbpInit => ChunkOK /\ Heard
<1> SUFFICES ASSUME ClbpInit
             PROVE  ChunkOK /\ Heard
  OBVIOUS
<1>1. <<>> \in AnyLine /\ <<>> \in LineLists /\ <<>> = <<>> \o <<>>
  BY DEF AnyLine, LineLists
<1>2. ChunkOK
  <2>1. <<>> \in AnyLine /\ <<>> \in LineLists
    BY <1>1
  <2>2. pos = 1 /\ data = <<>> /\ leftover \in BOOLEAN
    BY DEF ClbpInit
  <2>3. inputQueue \in AnyLine /\ data \in AnyLine /\ stream \in AnyLine /\ parsed \in LineLists
    BY <2>1 DEF ClbpInit
  <2> QED
    BY <2>2, <2>3 DEF ChunkOK
<1>3. Rest = <<>>
  BY <1>2, RestIs DEF ClbpInit
<1>4. Meaning(<<>>) = Nothing /\ Parsed = <<>>
  BY MeaningIs, NotEmptyIs DEF ClbpInit, Parsed
<1>5. Follows(Meaning(<<>>))
  <2>1. Ends(<<>>, <<>>) /\ Matching(<<>>, <<>>)
    BY <1>1 DEF Ends, Matching
  <2> QED
    BY <1>4, <2>1 DEF Follows, ClbpInit, Nothing
<1> QED
  BY <1>1, <1>2, <1>3, <1>5 DEF Heard, ClbpInit
-----------------------------------------------------------------------------
(* How many lines there are once what is being read has ended              *)
Count(r) == Len(r.lines) + IF r.text = <<>> THEN 0 ELSE 1

(* q has the lines of r at least, now and after the end of a line.         *)
Below(r, q) == Len(r.lines) <= Len(q.lines) /\ Count(r) <= Count(q)

LEMMA CountIs ==
  ASSUME NEW r \in Readings
  PROVE  Len(r.lines) \in Nat /\ Count(r) \in Nat /\ Len(r.lines) <= Count(r)
  BY DEF Count, Readings

LEMMA ReadingCounts ==
  ASSUME NEW r \in Readings, NEW c \in Chars
  PROVE  /\ Count(Reading(r, c)) = IF c \in EOL_CR_LF THEN Count(r) ELSE Len(r.lines) + 1
         /\ Len(Reading(r, c).lines) = IF c \in EOL_CR_LF THEN Count(r) ELSE Len(r.lines)
<1>1. r.lines \in Seq(Seq(Chars)) /\ r.text \in Seq(Text)
  BY DEF Readings
<1>2. CASE c \in EOL_CR_LF
  <2>1. Reading(r, c).lines = withLine(r.lines, r.text) /\ Reading(r, c).text = <<>>
    BY <1>2 DEF Reading
  <2>2. Len(withLine(r.lines, r.text)) = Count(r)
    <3> DEFINE lines == r.lines
    <3>1. lines \in LineLists
      BY <1>1 DEF LineLists, AnyLine
    <3> HIDE DEF lines
    <3>2. Len(Append(lines, r.text)) = Len(lines) + 1 /\ Len(lines) + 0 = Len(lines)
      BY <3>1 DEF LineLists
    <3> QED
      BY <3>2 DEF withLine, Count, lines
  <2>3. Count(r) \in Nat
    BY CountIs
  <2> QED
    BY <1>2, <2>1, <2>2, <2>3 DEF Count
<1>3. CASE c \notin EOL_CR_LF
  <2>1. Reading(r, c).lines = r.lines /\ Reading(r, c).text = Append(r.text, c)
    BY <1>3 DEF Reading, Readings
  <2>2. Append(r.text, c) # <<>>
    BY <1>1, <1>3, SMTT(20) DEF Chars
  <2> QED
    BY <1>3, <2>1, <2>2 DEF Count
<1> QED
  BY <1>2, <1>3

LEMMA BelowSteps ==
  ASSUME NEW r \in Readings, NEW q \in Readings, NEW c \in Chars
  PROVE  /\ Below(r, Reading(r, c))
         /\ Below(r, q) => Below(Reading(r, c), Reading(q, c))
<1>1. /\ Len(r.lines) \in Nat /\ Count(r) \in Nat /\ Len(r.lines) <= Count(r)
      /\ Count(r) <= Len(r.lines) + 1
  <2>1. Len(r.lines) \in Nat /\ Count(r) \in Nat /\ Len(r.lines) <= Count(r)
    BY CountIs
  <2>2. Count(r) = Len(r.lines) + IF r.text = <<>> THEN 0 ELSE 1
    BY DEF Count
  <2> DEFINE k == Len(r.lines)
  <2>3. k + (IF r.text = <<>> THEN 0 ELSE 1) <= k + 1
    <3> HIDE DEF k
    <3> QED
      BY <2>1 DEF k
  <2> QED
    BY <2>1, <2>2, <2>3
<1>2. Len(q.lines) \in Nat /\ Count(q) \in Nat
  BY CountIs
<1> DEFINE r1 == Reading(r, c)
           q1 == Reading(q, c)
<1>3. /\ Count(r1) = IF c \in EOL_CR_LF THEN Count(r) ELSE Len(r.lines) + 1
      /\ Len(r1.lines) = IF c \in EOL_CR_LF THEN Count(r) ELSE Len(r.lines)
      /\ Count(q1) = IF c \in EOL_CR_LF THEN Count(q) ELSE Len(q.lines) + 1
      /\ Len(q1.lines) = IF c \in EOL_CR_LF THEN Count(q) ELSE Len(q.lines)
  BY ReadingCounts
<1> HIDE DEF r1, q1
<1>4. Below(r, r1)
  BY <1>1, <1>3 DEF Below
<1>5. ASSUME Below(r, q)
      PROVE  Below(r1, q1)
  BY <1>1, <1>2, <1>3, <1>5 DEF Below
<1> QED
  BY <1>4, <1>5 DEF r1, q1

(* Reading more makes no line disappear.                                   *)
LEMMA MoreIsNotLess ==
  ASSUME NEW s \in AnyLine, NEW t \in AnyLine
  PROVE  Below(Meaning(s), Meaning(s \o t))
<1> DEFINE n == Len(t)
           upto(i) == s \o SubSeq(t, 1, i)
           Right == {i \in 0..n : Below(Meaning(s), Meaning(upto(i)))}
<1>0. n \in Nat /\ \A i \in 1..n : t[i] \in Chars
  BY DEF AnyLine
<1>1. 0 \in Right
  <2>1. SubSeq(t, 1, 0) = <<>> /\ s \o <<>> = s /\ 0 \in 0..n
    BY <1>0, SubSeqEmpty, ConcatEmptySeq DEF AnyLine
  <2>2. Below(Meaning(s), Meaning(s))
    BY MeaningIs, CountIs DEF Below, AnyLine
  <2> QED
    BY <2>1, <2>2
<1>2. ASSUME NEW i \in 1..n, i - 1 \in Right
      PROVE  i \in Right
  <2>1. upto(i) = Append(upto(i - 1), t[i]) /\ t[i] \in Chars /\ i \in 0..n
    BY <1>0, ConcatByOne DEF AnyLine
  <2>2. upto(i - 1) \in Seq(Chars)
    <3>1. SubSeq(t, 1, i - 1) \in Seq(Chars)
      BY <1>0 DEF AnyLine
    <3> QED
      BY <3>1 DEF AnyLine
  <2>3. Below(Meaning(s), Meaning(upto(i - 1)))
    BY <1>2
  <2> HIDE DEF upto
  <2>4. Meaning(upto(i)) = Reading(Meaning(upto(i - 1)), t[i])
    BY <2>1, <2>2, MeaningOfMore
  <2>5. Meaning(s) \in Readings /\ Meaning(upto(i - 1)) \in Readings
    BY <2>2, MeaningIs DEF AnyLine
  <2>6. Reading(Meaning(upto(i - 1)), t[i]) \in Readings
    BY <2>1, <2>5, ReadingTyped
  <2>7. Below(Meaning(upto(i - 1)), Reading(Meaning(upto(i - 1)), t[i]))
    BY <2>1, <2>5, BelowSteps
  <2>8. Below(Meaning(s), Meaning(upto(i)))
    BY <2>3, <2>4, <2>5, <2>6, <2>7, CountIs DEF Below
  <2> QED
    BY <2>1, <2>8
<1>3. n \in Right
  <2> HIDE DEF Right, n
  <2>1. 0..n \subseteq Right
    BY <1>0, <1>1, <1>2, RoundByRound
  <2> QED
    BY <1>0, <2>1
<1>4. SubSeq(t, 1, n) = t
  BY SubSeqFull DEF AnyLine
<1> QED
  BY <1>3, <1>4

(* Where there are fewer lines, there are no more after any characters.    *)
LEMMA FewerStayFewer ==
  ASSUME NEW s \in AnyLine, NEW u \in AnyLine, NEW t \in AnyLine,
         Below(Meaning(s), Meaning(u))
  PROVE  Below(Meaning(s \o t), Meaning(u \o t))
<1> DEFINE n == Len(t)
           upto(x, i) == x \o SubSeq(t, 1, i)
           Right == {i \in 0..n : Below(Meaning(upto(s, i)), Meaning(upto(u, i)))}
<1>0. n \in Nat /\ \A i \in 1..n : t[i] \in Chars
  BY DEF AnyLine
<1>1. 0 \in Right
  <2>1. SubSeq(t, 1, 0) = <<>> /\ s \o <<>> = s /\ u \o <<>> = u /\ 0 \in 0..n
    BY <1>0, SubSeqEmpty, ConcatEmptySeq DEF AnyLine
  <2> QED
    BY <2>1
<1>2. ASSUME NEW i \in 1..n, i - 1 \in Right
      PROVE  i \in Right
  <2>1. /\ upto(s, i) = Append(upto(s, i - 1), t[i])
        /\ upto(u, i) = Append(upto(u, i - 1), t[i])
        /\ t[i] \in Chars /\ i \in 0..n
    <3>1. \A x \in AnyLine : x \o SubSeq(t, 1, i) = Append(x \o SubSeq(t, 1, i - 1), t[i])
      BY ConcatByOne DEF AnyLine
    <3>2. t[i] \in Chars /\ i \in 0..n
      BY <1>0
    <3> QED
      BY <3>1, <3>2
  <2>2. upto(s, i - 1) \in Seq(Chars) /\ upto(u, i - 1) \in Seq(Chars)
    <3>1. SubSeq(t, 1, i - 1) \in Seq(Chars)
      BY <1>0 DEF AnyLine
    <3> QED
      BY <3>1 DEF AnyLine
  <2>3. Below(Meaning(upto(s, i - 1)), Meaning(upto(u, i - 1)))
    BY <1>2
  <2> HIDE DEF upto
  <2>4. /\ Meaning(upto(s, i)) = Reading(Meaning(upto(s, i - 1)), t[i])
        /\ Meaning(upto(u, i)) = Reading(Meaning(upto(u, i - 1)), t[i])
    BY <2>1, <2>2, MeaningOfMore
  <2>5. Meaning(upto(s, i - 1)) \in Readings /\ Meaning(upto(u, i - 1)) \in Readings
    BY <2>2, MeaningIs
  <2>6. Below(Meaning(upto(s, i)), Meaning(upto(u, i)))
    BY <2>1, <2>3, <2>4, <2>5, BelowSteps
  <2> QED
    BY <2>1, <2>6
<1>3. n \in Right
  <2> HIDE DEF Right, n
  <2>1. 0..n \subseteq Right
    BY <1>0, <1>1, <1>2, RoundByRound
  <2> QED
    BY <1>0, <2>1
<1>4. SubSeq(t, 1, n) = t
  BY SubSeqFull DEF AnyLine
<1> QED
  BY <1>3, <1>4

(* Nothing that is cut out of a stream adds a line to it.                  *)
LEMMA LossAddsNothing ==
  ASSUME NEW s \in AnyLine, NEW lost \in AnyLine, NEW t \in AnyLine
  PROVE  Len(Meaning(s \o t).lines) <= Len(Meaning((s \o lost) \o t).lines)
<1>1. s \o lost \in AnyLine
  BY DEF AnyLine
<1> QED
  BY <1>1, MoreIsNotLess, FewerStayFewer DEF Below
-----------------------------------------------------------------------------
(* A line that is sent has something in it, and no end.                    *)
LEMMA SpacedTyped ==
  ASSUME NEW words \in Seq(Seq(Text))
  PROVE  Spaced(words) \in Seq(Text)
<1> DEFINE ss == [i \in DOMAIN words |-> <<SP>> \o words[i]]
<1>1. DOMAIN words = 1..Len(words) /\ Len(words) \in Nat
  OBVIOUS
<1>2. \A i \in 1..Len(words) : <<SP>> \o words[i] \in Seq(Text)
  <2>1. SP \in Text /\ <<SP>> \in Seq(Text)
    BY MessagesAssumption
  <2>2. \A i \in 1..Len(words) : words[i] \in Seq(Text)
    OBVIOUS
  <2> QED
    BY <2>1, <2>2
<1>3. ss \in Seq(Seq(Text))
  BY <1>1, <1>2
<1> HIDE DEF ss
<1>4. FlattenSeq(ss) \in Seq(Text)
  BY <1>3, FlattenOver
<1> QED
  BY <1>4 DEF Spaced, ss

LEMMA SentTyped ==
  ASSUME NEW command \in Seq(Text), command # <<>>, NEW p \in Seq(Seq(Text))
  PROVE  sendMessage(command, p) \in Seq(Text) /\ sendMessage(command, p) # <<>>
<1>1. CASE p = <<>>
  BY <1>1 DEF sendMessage
<1>2. CASE p # <<>>
  <2>1. Len(p) \in Nat /\ Len(p) >= 1 /\ Last(p) \in Seq(Text) /\ Front(p) \in Seq(Seq(Text))
    <3>1. Len(p) \in Nat \ {0}
      BY <1>2, EmptySeq
    <3>2. Last(p) \in Seq(Text)
      BY <3>1, ElementOfSeq DEF Last
    <3>3. \A i \in 1..(Len(p) - 1) : p[i] \in Seq(Text)
      BY <3>1, ElementOfSeq
    <3>4. Front(p) \in Seq(Seq(Text))
      BY <3>1, <3>3, SubSeqProperties DEF Front
    <3> QED
      BY <3>1, <3>2, <3>4
  <2> DEFINE a == Spaced(Front(p))
             b == Last(p)
             mark == <<SP, COLON>>
  <2>2. a \in Seq(Text) /\ b \in Seq(Text) /\ mark \in Seq(Text)
    BY <2>1, SpacedTyped, MessagesAssumption
  <2>3. sendMessage(command, p) = command \o a \o mark \o b
    BY <1>2 DEF sendMessage
  <2> HIDE DEF a, b, mark
  <2>4. command \o a \in Seq(Text) /\ command \o a # <<>>
    BY <2>2, ConcatEqualIffEmpty
  <2> DEFINE ca == command \o a
  <2> HIDE DEF ca
  <2>5. ca \o mark \in Seq(Text) /\ ca \o mark # <<>>
    BY <2>2, <2>4, ConcatEqualIffEmpty DEF ca
  <2> DEFINE cam == ca \o mark
  <2> HIDE DEF cam
  <2>6. cam \o b \in Seq(Text) /\ cam \o b # <<>>
    BY <2>2, <2>5, ConcatEqualIffEmpty DEF cam
  <2> QED
    BY <2>3, <2>6 DEF ca, cam
<1> QED
  BY <1>1, <1>2

(* What goes behind an origin                                              *)
LEMMA MarkedTyped ==
  ASSUME NEW origin \in Seq(Text), NEW t \in Seq(Text)
  PROVE  /\ <<COLON>> \o origin \o <<SP>> \o t \in Seq(Text)
         /\ <<COLON>> \o origin \o <<SP>> \o t # <<>>
         /\ <<COLON>> \o origin \o t \in Seq(Text)
         /\ <<COLON>> \o origin \o t # <<>>
<1>1. <<COLON>> \in Seq(Text) /\ <<SP>> \in Seq(Text) /\ <<COLON>> # <<>>
  BY MessagesAssumption
<1> DEFINE a == <<COLON>> \o origin
<1>2. a \in Seq(Text) /\ a # <<>>
  BY <1>1, ConcatEqualIffEmpty
<1> HIDE DEF a
<1>3. a \o <<SP>> \in Seq(Text) /\ a \o <<SP>> # <<>>
  BY <1>1, <1>2, ConcatEqualIffEmpty
<1> DEFINE b == a \o <<SP>>
<1> HIDE DEF b
<1>4. b \o t \in Seq(Text) /\ b \o t # <<>> /\ a \o t \in Seq(Text) /\ a \o t # <<>>
  BY <1>2, <1>3, ConcatEqualIffEmpty DEF b
<1> QED
  BY <1>4 DEF a, b

LEMMA WordsAreText ==
  /\ \A w \in Seq(Text \ {SP}) : w \in Seq(Text)
  /\ \A w \in Word : w \in Seq(Text) /\ w # <<>>
<1>1. \A w \in Seq(Text \ {SP}) : w \in Seq(Text)
  BY SeqMonotonic
<1> QED
  BY <1>1 DEF Word

LEMMA LineOfTyped ==
  ASSUME NEW m \in Sendable
  PROVE  LineOf(m) \in Seq(Text) /\ LineOf(m) # <<>>
<1>1. /\ m.origin \in Seq(Text) /\ m.command \in Seq(Text) /\ m.command # <<>>
      /\ m.parameters \in Seq(Seq(Text))
      /\ m.by = "sendNumeric" => m.parameters # <<>>
      /\ m.by \in {"sendMessage", "sendMessageFrom", "sendNumeric"}
  BY WordsAreText DEF Sendable
<1>2. CASE m.by = "sendMessage"
  BY <1>1, <1>2, SentTyped DEF LineOf
<1>3. CASE m.by = "sendMessageFrom"
  <2>1. LineOf(m) = sendMessageFrom(m.origin, m.command, m.parameters)
    BY <1>3 DEF LineOf
  <2>2. sendMessage(m.command, m.parameters) \in Seq(Text)
    BY <1>1, SentTyped
  <2> QED
    BY <1>1, <2>1, <2>2, MarkedTyped DEF sendMessageFrom
<1>4. CASE m.by = "sendNumeric"
  <2> DEFINE nick == Head(m.parameters)
             p == Tail(m.parameters)
  <2>1. LineOf(m) = sendNumeric(m.origin, m.command, nick, p)
    BY <1>4 DEF LineOf
  <2>2. nick \in Seq(Text) /\ p \in Seq(Seq(Text))
    <3> DEFINE q == m.parameters
    <3>1. q \in Seq(Seq(Text)) /\ q # <<>>
      BY <1>1, <1>4
    <3> HIDE DEF q
    <3> QED
      BY <3>1, HeadTailProperties DEF q
  <2> HIDE DEF nick, p
  <2>3. CASE p = <<>>
    <3>1. <<m.command, nick>> \in Seq(Seq(Text))
      BY <1>1, <2>2
    <3>2. Spaced(<<m.command, nick>>) \in Seq(Text)
      BY <3>1, SpacedTyped
    <3> QED
      BY <1>1, <2>1, <2>3, <3>2, MarkedTyped DEF sendNumeric
  <2>4. CASE p # <<>>
    <3>1. <<nick>> \o p \in Seq(Seq(Text))
      BY <2>2
    <3>2. sendMessage(m.command, <<nick>> \o p) \in Seq(Text)
      BY <1>1, <3>1, SentTyped
    <3> QED
      BY <1>1, <2>1, <2>4, <3>2, MarkedTyped DEF sendNumeric, sendMessageFrom
  <2> QED
    BY <2>3, <2>4
<1> QED
  BY <1>1, <1>2, <1>3, <1>4
-----------------------------------------------------------------------------
QueuesOK ==
  /\ outputQueue \in AnyLine /\ wire \in AnyLine /\ short \in BOOLEAN
  /\ sent \in Seq(Sendable) /\ todo \in Seq(Sendable)
  /\ sent \o todo \in Scripts

(* All that is on its way or has been read, and what it means once a peer  *)
(* that uses the library has something to say: no more lines than were     *)
(* sent, and exactly those while no write was short.                       *)
All == (stream \o wire) \o outputQueue
SentLines == [k \in DOMAIN sent |-> LineOf(sent[k])]
Speaking == sent # <<>> \/ todo # <<>>
Few == Speaking => Len(Meaning(All).lines) <= Len(sent)
Whole == Speaking /\ ~short => Meaning(All).lines = SentLines /\ Meaning(All).text = <<>>

MessagesInv == ChunkOK /\ Heard /\ QueuesOK /\ Few /\ Whole

LEMMA OneMoreLine ==
  ASSUME NEW a \in AnyLine, NEW l \in Seq(Text), l # <<>>
  PROVE  /\ Meaning((a \o l) \o <<CR, LF>>).lines
              = Append(Meaning(a).lines, Meaning(a).text \o l)
         /\ Meaning((a \o l) \o <<CR, LF>>).text = <<>>
<1> DEFINE b == a \o l
           b1 == Append(b, CR)
<1>1. b \in AnyLine /\ CR \in EOL_CR_LF /\ LF \in EOL_CR_LF /\ CR \in Chars /\ LF \in Chars
  <2>1. l \in AnyLine
    BY TextIsALine
  <2> QED
    BY <2>1 DEF AnyLine, EOL_CR_LF, Chars
<1>2. Meaning(b).lines = Meaning(a).lines /\ Meaning(b).text = Meaning(a).text \o l
  BY MeaningOfText DEF AnyLine
<1>3. Meaning(a).text \o l # <<>>
  BY MeaningTyped, ConcatEqualIffEmpty
<1> HIDE DEF b
<1>4. b1 \in AnyLine /\ b \o <<CR, LF>> = Append(b1, LF)
  <2>1. b1 \in AnyLine
    BY <1>1 DEF AnyLine
  <2>2. b \o <<CR, LF>> = Append(b1, LF)
    BY <1>1 DEF AnyLine
  <2> QED
    BY <2>1, <2>2
<1>5. /\ Meaning(b1).lines = Append(Meaning(a).lines, Meaning(a).text \o l)
      /\ Meaning(b1).text = <<>>
  BY <1>1, <1>2, <1>3, MeaningOfEnd DEF AnyLine, withLine
<1> HIDE DEF b1
<1>6. Meaning(Append(b1, LF)).lines = Meaning(b1).lines /\ Meaning(Append(b1, LF)).text = <<>>
  BY <1>1, <1>4, <1>5, MeaningOfSecondEnd DEF AnyLine
<1> QED
  BY <1>4, <1>5, <1>6 DEF b

LEMMA SendInv ==
  ASSUME MessagesInv, send
  PROVE  MessagesInv'
<1> DEFINE h == Head(todo)
           l == LineOf(h)
<1>1. /\ todo # <<>> /\ outputQueue' = outputQueue \o l \o <<CR, LF>>
      /\ sent' = Append(sent, h) /\ todo' = Tail(todo)
      /\ UNCHANGED <<inputQueue, data, pos, parsed, stream, leftover, wire, short>>
  BY DEF send, clbpVars
<1>2. /\ stream \in AnyLine /\ wire \in AnyLine /\ outputQueue \in AnyLine
      /\ sent \in Seq(Sendable) /\ todo \in Seq(Sendable) /\ sent \o todo \in Scripts
      /\ short \in BOOLEAN
  BY DEF MessagesInv, QueuesOK, ChunkOK
<1>3. h \in Sendable /\ Tail(todo) \in Seq(Sendable)
  BY <1>1, <1>2, HeadTailProperties
<1>4. l \in Seq(Text) /\ l # <<>> /\ l \in AnyLine /\ <<CR, LF>> \in AnyLine
  <2>1. l \in Seq(Text) /\ l # <<>>
    BY <1>3, LineOfTyped
  <2>2. CR \in Chars /\ LF \in Chars
    BY DEF Chars, EOL_CR_LF
  <2> HIDE DEF l
  <2> QED
    BY <2>1, <2>2, TextIsALine DEF AnyLine
<1>5. ChunkOK' /\ Heard'
  BY <1>1 DEF MessagesInv, ChunkOK, Heard, Follows, Rest, Parsed
<1>6. QueuesOK'
  <2>1. outputQueue \o l \o <<CR, LF>> \in AnyLine
    <3> HIDE DEF l
    <3> QED
      BY <1>2, <1>4 DEF AnyLine
  <2>2. Append(sent, h) \o Tail(todo) = sent \o todo
    <3>1. todo = <<h>> \o Tail(todo)
      BY <1>1, <1>2, HeadTailProperties
    <3> HIDE DEF h
    <3>2. Append(sent, h) = sent \o <<h>> /\ <<h>> \in Seq(Sendable)
      BY <1>2, <1>3
    <3>3. (sent \o <<h>>) \o Tail(todo) = sent \o (<<h>> \o Tail(todo))
      BY <1>2, <1>3, <3>2, ConcatAssociative
    <3> QED
      BY <3>1, <3>2, <3>3
  <2>3. Append(sent, h) \in Seq(Sendable)
    BY <1>2, <1>3
  <2> HIDE DEF l, h
  <2> QED
    BY <1>1, <1>2, <1>3, <2>1, <2>2, <2>3 DEF QueuesOK
<1>7. PICK a \in AnyLine : a = All /\ All' = (a \o l) \o <<CR, LF>>
  <2> DEFINE sw == stream \o wire
  <2>1. sw \in AnyLine
    BY <1>2 DEF AnyLine
  <2> HIDE DEF sw, l
  <2>2. sw \o outputQueue \in AnyLine /\ outputQueue \o l \in AnyLine
    BY <1>2, <1>4, <2>1 DEF AnyLine
  <2>3. sw \o ((outputQueue \o l) \o <<CR, LF>>) = (sw \o (outputQueue \o l)) \o <<CR, LF>>
    BY <1>4, <2>1, <2>2, Associative
  <2>4. sw \o (outputQueue \o l) = (sw \o outputQueue) \o l
    BY <1>2, <1>4, <2>1, Associative
  <2>5. All = sw \o outputQueue
    BY DEF All, sw
  <2>6. All' = sw \o ((outputQueue \o l) \o <<CR, LF>>)
    BY <1>1 DEF All, sw
  <2> QED
    BY <2>2, <2>3, <2>4, <2>5, <2>6
<1> DEFINE ls == Meaning(a).lines
           t == Meaning(a).text
<1>8. PICK b : b = All' /\ Meaning(b).lines = Append(ls, t \o l) /\ Meaning(b).text = <<>>
  BY <1>4, <1>7, OneMoreLine
<1>9. Speaking /\ ls \in LineLists
  BY <1>1, MeaningTyped DEF Speaking
<1> HIDE DEF l, ls, t, h
<1>10. Few'
  <2>1. Len(ls) <= Len(sent)
    BY <1>7, <1>9 DEF MessagesInv, Few, ls
  <2>2. Len(Append(ls, t \o l)) = Len(ls) + 1 /\ Len(ls) \in Nat
    BY <1>9 DEF LineLists
  <2>3. Len(sent') = Len(sent) + 1 /\ Len(sent) \in Nat
    BY <1>1, <1>2
  <2>4. Len(Append(ls, t \o l)) <= Len(sent')
    BY <2>1, <2>2, <2>3
  <2> QED
    BY <1>8, <2>4 DEF Few
<1>11. Whole'
  <2> SUFFICES ASSUME ~short
               PROVE  Append(ls, t \o l) = SentLines'
    BY <1>1, <1>8 DEF Whole
  <2>1. ls = SentLines /\ t = <<>>
    BY <1>7, <1>9 DEF MessagesInv, Whole, ls, t
  <2>2. t \o l = l
    BY <1>4, <2>1, ConcatEmptySeq
  <2>3. SentLines' = [k \in DOMAIN Append(sent, h) |-> LineOf(Append(sent, h)[k])]
    BY <1>1 DEF SentLines
  <2>4. Append(SentLines, l) = [k \in DOMAIN Append(sent, h) |-> LineOf(Append(sent, h)[k])]
    <3> DEFINE n == Len(sent)
    <3>1. /\ n \in Nat /\ DOMAIN sent = 1..n /\ DOMAIN Append(sent, h) = 1..(n + 1)
          /\ Append(sent, h)[n + 1] = h /\ \A k \in 1..n : Append(sent, h)[k] = sent[k]
      BY <1>2, <1>3
    <3>2. /\ SentLines \in LineLists /\ Len(SentLines) = n
          /\ \A k \in 1..n : SentLines[k] = LineOf(sent[k])
      <4>1. SentLines = [k \in 1..n |-> LineOf(sent[k])]
        BY <3>1 DEF SentLines
      <4>2. Len(SentLines) = n
        BY <3>1, <4>1
      <4> QED
        BY <1>9, <2>1, <4>1, <4>2
    <3>3. /\ DOMAIN Append(SentLines, l) = 1..(n + 1)
          /\ Append(SentLines, l)[n + 1] = l
          /\ \A k \in 1..n : Append(SentLines, l)[k] = SentLines[k]
          /\ Append(SentLines, l) = [k \in 1..(n + 1) |-> Append(SentLines, l)[k]]
      <4> DEFINE ss == SentLines
                 q == Append(ss, l)
      <4>1. ss \in Seq(AnyLine) /\ Len(ss) = n /\ l \in AnyLine
        BY <1>4, <3>2 DEF LineLists
      <4> HIDE DEF ss, n
      <4>2. q \in Seq(AnyLine) /\ Len(q) = n + 1 /\ q[n + 1] = l /\ \A k \in 1..n : q[k] = ss[k]
        BY <3>1, <4>1
      <4> HIDE DEF q
      <4>3. DOMAIN q = 1..(n + 1) /\ q = [k \in 1..(n + 1) |-> q[k]]
        BY <4>2
      <4> QED
        BY <4>2, <4>3 DEF q, ss
    <3>4. \A k \in 1..(n + 1) : k \in 1..n \/ k = n + 1
      BY <3>1
    <3> HIDE DEF n
    <3>5. \A k \in 1..(n + 1) : Append(SentLines, l)[k] = LineOf(Append(sent, h)[k])
      BY <3>1, <3>2, <3>3, <3>4 DEF l
    <3> QED
      BY <3>1, <3>3, <3>5
  <2> QED
    BY <2>1, <2>2, <2>3, <2>4
<1> QED
  BY <1>5, <1>6, <1>10, <1>11 DEF MessagesInv

LEMMA TakenApart ==
  ASSUME NEW q \in AnyLine, NEW i \in 0..Len(q)
  PROVE  /\ SubSeq(q, 1, i) \in AnyLine /\ SubSeq(q, i + 1, Len(q)) \in AnyLine
         /\ SubSeq(q, 1, i) \o SubSeq(q, i + 1, Len(q)) = q
<1> DEFINE n == Len(q)
<1>1. n \in Nat /\ i \in Nat /\ i <= n /\ q \in Seq(Chars) /\ \A j \in 1..n : q[j] \in Chars
  BY DEF AnyLine
<1>2. 1 \in 1..(n + 1) /\ i \in (1 - 1)..n /\ n \in i..n /\ i + 1 \in Int
      /\ (\A j \in 1..i : j \in 1..n) /\ (\A j \in (i + 1)..n : j \in 1..n)
  BY <1>1
<1> HIDE DEF n
<1>3. SubSeq(q, 1, i) \o SubSeq(q, i + 1, n) = SubSeq(q, 1, n)
  BY <1>1, <1>2, ConcatAdjacentSubSeq DEF n
<1>4. SubSeq(q, 1, n) = q
  BY <1>1, SubSeqFull DEF n
<1>5. SubSeq(q, 1, i) \in Seq(Chars)
  BY <1>1, <1>2, SubSeqProperties
<1>6. SubSeq(q, i + 1, n) \in Seq(Chars)
  BY <1>1, <1>2, SubSeqProperties
<1> QED
  BY <1>3, <1>4, <1>5, <1>6 DEF AnyLine, n

LEMMA SendOutputInv ==
  ASSUME MessagesInv, NEW taken \in 0..MaxChunk, sendOutput(taken)
  PROVE  MessagesInv'
<1> DEFINE q == outputQueue
           n == Min({MaxChunk, Len(q)})
           kept == SubSeq(q, 1, taken)
           behind == SubSeq(q, n + 1, Len(q))
<1>1. /\ q # <<>> /\ taken \in 0..n /\ (taken < n => ~short)
      /\ wire' = wire \o kept /\ outputQueue' = behind
      /\ short' = (short \/ taken < n)
      /\ UNCHANGED <<inputQueue, data, pos, parsed, stream, leftover, todo, sent>>
  BY DEF sendOutput, clbpVars
<1>2. /\ stream \in AnyLine /\ wire \in AnyLine /\ q \in AnyLine
      /\ sent \in Seq(Sendable) /\ todo \in Seq(Sendable) /\ sent \o todo \in Scripts
      /\ short \in BOOLEAN /\ Len(q) \in Nat
  BY DEF MessagesInv, QueuesOK, ChunkOK, AnyLine
<1>3. n \in Nat /\ n \in 0..Len(q)
  <2>1. {MaxChunk, Len(q)} \subseteq Nat
    BY <1>2, ClbpAssumption
  <2>2. n \in {MaxChunk, Len(q)} /\ n <= Len(q)
    BY <2>1, MinOfNumbers
  <2> QED
    BY <1>2, <2>1, <2>2
<1> HIDE DEF n
<1> DEFINE front == SubSeq(q, 1, n)
           lost == SubSeq(front, taken + 1, Len(front))
<1>4. /\ front \in AnyLine /\ behind \in AnyLine /\ front \o behind = q
      /\ Len(front) = n
  <2>1. Len(front) = n
    BY <1>2, <1>3, SubSeqProperties DEF AnyLine
  <2> QED
    BY <1>2, <1>3, <2>1, TakenApart
<1>5. kept \in AnyLine /\ lost \in AnyLine /\ kept \o lost = front
      /\ (taken = n => lost = <<>>)
  <2>1. SubSeq(front, 1, taken) = kept
    <3>1. \A j \in 1..taken : j \in 1..n /\ j \in 1..Len(q)
      BY <1>1, <1>2, <1>3
    <3>2. \A j \in 1..n : front[j] = q[j]
      BY <1>2, <1>3, SubSeqProperties DEF AnyLine
    <3>3. \A j \in 1..taken : front[j] = q[j]
      BY <3>1, <3>2
    <3> HIDE DEF front
    <3> QED
      BY <1>1, <1>3, <3>3
  <2>2. taken \in 0..Len(front)
    BY <1>1, <1>4
  <2>3. taken = n => lost = <<>>
    <3>1. taken + 1 > n
          => SubSeq(front, taken + 1, n) = <<>>
      BY <1>1, <1>3, SubSeqEmpty
    <3> QED
      BY <1>1, <1>3, <1>4, <3>1
  <2> HIDE DEF front, kept
  <2>4. /\ SubSeq(front, 1, taken) \in AnyLine /\ lost \in AnyLine
        /\ SubSeq(front, 1, taken) \o lost = front
    BY <1>4, <2>2, TakenApart
  <2> QED
    BY <2>1, <2>3, <2>4
<1> HIDE DEF q, kept, behind, front, lost
<1>6. ChunkOK' /\ Heard'
  BY <1>1 DEF MessagesInv, ChunkOK, Heard, Follows, Rest, Parsed
<1>7. QueuesOK'
  <2>1. wire \o kept \in AnyLine
    BY <1>2, <1>5 DEF AnyLine
  <2>2. short' \in BOOLEAN
    BY <1>1
  <2> QED
    BY <1>1, <1>2, <1>4, <2>1, <2>2 DEF QueuesOK
<1>8. PICK s \in AnyLine : All' = s \o behind /\ All = (s \o lost) \o behind
  <2> DEFINE sw == stream \o wire
             s == sw \o kept
  <2>1. sw \in AnyLine /\ s \in AnyLine
    BY <1>2, <1>5 DEF AnyLine
  <2>2. stream \o (wire \o kept) = s
    BY <1>2, <1>5, Associative, ZenonT(40)
  <2>3. All = sw \o q /\ All' = (stream \o (wire \o kept)) \o behind
    BY <1>1 DEF All, q
  <2> HIDE DEF sw
  <2>4. sw \o ((kept \o lost) \o behind) = (sw \o (kept \o lost)) \o behind
    <3>1. kept \o lost \in AnyLine
      BY <1>4, <1>5
    <3> QED
      BY <1>4, <2>1, <3>1, Associative, ZenonT(40)
  <2>5. sw \o (kept \o lost) = s \o lost
    BY <1>5, <2>1, Associative
  <2> QED
    BY <1>4, <1>5, <2>1, <2>2, <2>3, <2>4, <2>5
<1>9. PICK now \in AnyLine : now = All' /\ now = s \o behind
  <2>1. s \o behind \in AnyLine
    BY <1>4 DEF AnyLine
  <2> QED
    BY <1>8, <2>1
<1>10. PICK before \in AnyLine : before = All /\ before = (s \o lost) \o behind
  <2>1. (s \o lost) \o behind \in AnyLine
    BY <1>4, <1>5 DEF AnyLine
  <2> QED
    BY <1>8, <2>1
<1>11. Len(Meaning(now).lines) <= Len(Meaning(before).lines)
  BY <1>4, <1>5, <1>9, <1>10, LossAddsNothing
<1>12. taken = n => now = before
  BY <1>5, <1>9, <1>10, ConcatEmptySeq DEF AnyLine
<1>13. Speaking' = Speaking /\ SentLines' = SentLines /\ sent' = sent
  BY <1>1 DEF Speaking, SentLines
<1>14. Few'
  <2> DEFINE x == Len(Meaning(now).lines)
             y == Len(Meaning(before).lines)
  <2>1. Speaking => y <= Len(sent)
    BY <1>10 DEF MessagesInv, Few
  <2>2. x \in Nat /\ y \in Nat /\ Len(sent) \in Nat
    BY <1>2, MeaningTyped DEF LineLists
  <2>3. x <= y
    BY <1>11
  <2>4. Few' <=> (Speaking => x <= Len(sent))
    BY <1>9, <1>13 DEF Few
  <2> HIDE DEF x, y
  <2> QED
    BY <2>1, <2>2, <2>3, <2>4
<1>15. Whole'
  <2>1. Whole' <=> (Speaking /\ ~short' => /\ Meaning(now).lines = SentLines
                                           /\ Meaning(now).text = <<>>)
    BY <1>9, <1>13 DEF Whole
  <2>2. Speaking /\ ~short => Meaning(before).lines = SentLines /\ Meaning(before).text = <<>>
    BY <1>10 DEF MessagesInv, Whole
  <2>3. ~short' => ~short /\ ~(taken < n)
    BY <1>1, Zenon
  <2>4. ~(taken < n) => now = before
    BY <1>1, <1>3, <1>12
  <2> QED
    BY <2>1, <2>2, <2>3, <2>4
<1> QED
  BY <1>6, <1>7, <1>14, <1>15 DEF MessagesInv

(* What neither sends nor loses anything leaves the meaning as it is.      *)
LEMMA NothingNew ==
  ASSUME Few, Whole, All' = All, UNCHANGED <<todo, sent, short>>
  PROVE  Few' /\ Whole'
<1>1. Speaking' = Speaking /\ SentLines' = SentLines /\ sent' = sent /\ short' = short
  BY DEF Speaking, SentLines
<1>2. Meaning(All') = Meaning(All)
  OBVIOUS
<1>3. Few' /\ Whole'
  BY <1>1, <1>2 DEF Few, Whole
<1> QED
  BY <1>3

LEMMA ReceiveInv ==
  ASSUME MessagesInv, NEW n \in 1..MaxChunk, receive(n)
  PROVE  MessagesInv'
<1> DEFINE chunk == SubSeq(wire, 1, n)
           rest == SubSeq(wire, n + 1, Len(wire))
<1>1. /\ n <= Len(wire) /\ handleInput(chunk) /\ wire' = rest
      /\ UNCHANGED <<todo, sent, outputQueue, short>>
  BY DEF receive
<1>2. stream \in AnyLine /\ wire \in AnyLine /\ outputQueue \in AnyLine
  BY DEF MessagesInv, ChunkOK, QueuesOK
<1>3. chunk \in AnyLine /\ rest \in AnyLine /\ chunk \o rest = wire
  <2>1. n \in 0..Len(wire)
    BY <1>1, <1>2, ClbpAssumption DEF AnyLine
  <2> QED
    BY <1>2, <2>1, TakenApart
<1> HIDE DEF chunk, rest
<1>4. ChunkOK' /\ Heard'
  BY <1>1, <1>3, HandleInputFollows DEF MessagesInv
<1>5. QueuesOK'
  BY <1>1, <1>3 DEF MessagesInv, QueuesOK
<1>6. All' = All
  <2>1. stream' = stream \o chunk
    BY <1>1 DEF handleInput
  <2>2. (stream \o chunk) \o rest = stream \o wire
    BY <1>2, <1>3, Associative, ZenonT(40)
  <2> QED
    BY <1>1, <2>1, <2>2 DEF All
<1> QED
  BY <1>1, <1>4, <1>5, <1>6, NothingNew DEF MessagesInv

LEMMA ReceiveRawInv ==
  ASSUME MessagesInv, receiveRaw
  PROVE  MessagesInv'
<1>1. PICK chunk \in RawChunks(MaxRaw - Len(stream)) : handleInput(chunk)
  BY DEF receiveRaw
<1>2. /\ todo = <<>> /\ sent = <<>>
      /\ UNCHANGED <<todo, sent, outputQueue, wire, short>>
  BY DEF receiveRaw
<1>3. chunk \in AnyLine
  <2>1. PICK n \in 1..(MaxRaw - Len(stream)) : chunk \in [1..n -> RawText \cup EOL_CR_LF]
    BY <1>1 DEF RawChunks
  <2>2. n \in Nat /\ RawText \cup EOL_CR_LF \subseteq Chars
    BY MessagesAssumption DEF Chars
  <2>3. chunk \in [1..n -> Chars]
    BY <2>1, <2>2
  <2> QED
    BY <2>2, <2>3 DEF AnyLine
<1>4. ChunkOK' /\ Heard'
  BY <1>1, <1>3, HandleInputFollows DEF MessagesInv
<1>5. QueuesOK'
  BY <1>2 DEF MessagesInv, QueuesOK
<1>6. ~Speaking'
  BY <1>2 DEF Speaking
<1> QED
  BY <1>4, <1>5, <1>6 DEF MessagesInv, Few, Whole

LEMMA ParseInv ==
  ASSUME MessagesInv, parse, UNCHANGED <<todo, sent, outputQueue, wire, short>>
  PROVE  MessagesInv'
<1>1. ChunkOK' /\ Heard'
  BY ParseFollows DEF MessagesInv
<1>2. QueuesOK'
  BY DEF MessagesInv, QueuesOK
<1>3. stream' = stream
  BY DEF parse, incompleteLine, completeLine
<1>4. All' = All
  BY <1>3 DEF All
<1> QED
  BY <1>1, <1>2, <1>4, NothingNew DEF MessagesInv

LEMMA InitInv == Init => MessagesInv
<1> SUFFICES ASSUME Init
             PROVE  MessagesInv
  OBVIOUS
<1>1. ChunkOK /\ Heard
  BY ClbpBegins DEF Init
<1>2. todo \in Scripts /\ sent = <<>> /\ outputQueue = <<>> /\ wire = <<>> /\ stream = <<>>
  BY DEF Init, ClbpInit
<1>3. QueuesOK
  <2>1. todo \in Seq(Sendable) /\ <<>> \in Seq(Sendable) /\ <<>> \in AnyLine
    BY <1>2, MessagesAssumption DEF AnyLine
  <2>2. <<>> \o todo = todo
    BY <2>1, ConcatEmptySeq
  <2> QED
    BY <1>2, <2>1, <2>2 DEF QueuesOK, Init
<1>4. All = <<>> /\ SentLines = <<>>
  <2>1. <<>> \o <<>> = <<>> /\ DOMAIN <<>> = {}
    OBVIOUS
  <2>2. <<>> = [k \in {} |-> LineOf(sent[k])]
    OBVIOUS
  <2> QED
    BY <1>2, <2>1, <2>2 DEF All, SentLines
<1>5. Meaning(All).lines = <<>> /\ Meaning(All).text = <<>>
  BY <1>4, MeaningIs DEF Nothing
<1>6. Few /\ Whole
  <2>1. Len(<<>>) <= Len(sent)
    BY <1>2
  <2> QED
    BY <1>4, <1>5, <2>1 DEF Few, Whole
<1> QED
  BY <1>1, <1>3, <1>6 DEF MessagesInv

LEMMA MessagesInvNext == MessagesInv /\ [Next]_vars => MessagesInv'
<1> SUFFICES ASSUME MessagesInv, [Next]_vars
             PROVE  MessagesInv'
  OBVIOUS
<1>1. CASE send
  BY <1>1, SendInv
<1>2. CASE \E taken \in 0..MaxChunk : sendOutput(taken)
  BY <1>2, SendOutputInv
<1>3. CASE \E n \in 1..MaxChunk : receive(n)
  BY <1>3, ReceiveInv
<1>4. CASE receiveRaw
  BY <1>4, ReceiveRawInv
<1>5. CASE parse /\ UNCHANGED <<todo, sent, outputQueue, wire, short>>
  BY <1>5, ParseInv
<1>6. CASE UNCHANGED vars
  <2>1. UNCHANGED <<inputQueue, data, pos, parsed, stream, leftover, todo, sent,
                    outputQueue, wire, short>>
    BY <1>6 DEF vars, clbpVars
  <2>2. ChunkOK' /\ Heard' /\ QueuesOK'
    BY <2>1 DEF MessagesInv, ChunkOK, Heard, Follows, Rest, Parsed, QueuesOK
  <2>3. All' = All
    BY <2>1 DEF All
  <2> QED
    BY <2>1, <2>2, <2>3, NothingNew DEF MessagesInv
<1> QED
  BY <1>1, <1>2, <1>3, <1>4, <1>5, <1>6 DEF Next

LEMMA MessagesInvariant == Spec => []MessagesInv
  BY InitInv, MessagesInvNext, PTL DEF Spec
-----------------------------------------------------------------------------
(* Every variable has its type, whatever a peer sends and however it comes:*)
(* handleInput() never looks past the chunk that it was called with.       *)
THEOREM MessagesAreTyped == Spec => []MessagesTypeOK
<1>1. MessagesInv => MessagesTypeOK
  <2> SUFFICES ASSUME MessagesInv
               PROVE  MessagesTypeOK
    OBVIOUS
  <2>1. ChunkOK /\ QueuesOK
    BY DEF MessagesInv
  <2>2. pos \in 1..Max({1, Len(data)})
    <3>1. Len(data) \in Nat /\ (data = <<>> => Len(data) = 0)
          /\ (data # <<>> => Len(data) >= 1)
      BY <2>1 DEF ChunkOK, AnyLine
    <3> DEFINE n == Len(data)
    <3>2. CASE n >= 1
      <4>1. Max({1, n}) = n
        <5>1. {1, n} \subseteq Int /\ n \in {1, n} /\ \A y \in {1, n} : y <= n
          BY <3>1, <3>2
        <5> HIDE DEF n
        <5> QED
          BY <5>1, MaxIs
      <4> QED
        BY <2>1, <3>1, <3>2, <4>1 DEF ChunkOK
    <3>3. CASE ~(n >= 1)
      <4>1. Max({1, n}) = 1
        <5>1. {1, n} \subseteq Int /\ 1 \in {1, n} /\ \A y \in {1, n} : y <= 1
          BY <3>1, <3>3
        <5> HIDE DEF n
        <5> QED
          BY <5>1, MaxIs
      <4> QED
        BY <2>1, <3>1, <3>3, <4>1 DEF ChunkOK
    <3> QED
      BY <3>2, <3>3
  <2>3. ClbpTypeOK
    BY <2>1, <2>2 DEF ClbpTypeOK, ChunkOK, AnyLine, LineLists, Chars
  <2> QED
    BY <2>1, <2>3 DEF MessagesTypeOK, QueuesOK, AnyLine, Chars
<1> QED
  BY <1>1, MessagesInvariant, PTL

(* Between two calls of handleInput() all of the stream has been read.     *)
LEMMA ReadAll ==
  ASSUME MessagesInv, data = <<>>
  PROVE  Follows(Meaning(stream)) /\ Meaning(stream) \in Readings
<1>1. PICK c \in AnyLine : stream = c \o Rest /\ Follows(Meaning(c))
  BY DEF MessagesInv, Heard
<1>2. c \o <<>> = c
  BY ConcatEmptySeq DEF AnyLine
<1>3. stream = c
  BY <1>1, <1>2, RestIs DEF MessagesInv
<1> QED
  BY <1>1, <1>3, MeaningIs DEF AnyLine

(* However the stream is cut into chunks, as many lines are parsed as were *)
(* sent, in their order, and what parseLine() gets ends in the line.       *)
THEOREM LinesAreParsed == Spec => []EveryLineIsParsed
<1>1. MessagesInv => EveryLineIsParsed
  <2> SUFFICES ASSUME MessagesInv, data = <<>>
               PROVE  /\ Len(Parsed) = Len(Lines)
                      /\ \A k \in DOMAIN Lines : IsSuffix(Lines[k], Parsed[k])
    BY DEF EveryLineIsParsed
  <2>1. Matching(Lines, Parsed) /\ Lines \in LineLists
    BY ReadAll DEF Follows, Lines, Readings, LineLists, AnyLine
  <2>2. DOMAIN Lines = 1..Len(Lines) /\ \A k \in 1..Len(Lines) : Lines[k] \in AnyLine
    BY <2>1 DEF LineLists
  <2>3. ASSUME NEW k \in 1..Len(Lines)
        PROVE  IsSuffix(Lines[k], Parsed[k])
    <3>1. PICK u \in AnyLine : Parsed[k] = u \o Lines[k]
      BY <2>1 DEF Matching, Ends
    <3>2. Lines[k] \in Seq(Chars) /\ u \in Seq(Chars)
      BY <2>2 DEF AnyLine
    <3> QED
      BY <3>1, <3>2, SuffixIs
  <2> QED
    BY <2>1, <2>2, <2>3 DEF Matching
<1> QED
  BY <1>1, MessagesInvariant, PTL

(* As long as no chunk has left over the start of a line behind the end of *)
(* another, parseLine() gets exactly the lines that were sent, and the     *)
(* buffer holds what has come of the next one.                             *)
THEOREM LinesAreKept == Spec => []LinesAreExact
<1>1. MessagesInv => LinesAreExact
  <2> SUFFICES ASSUME MessagesInv, data = <<>>, ~leftover
               PROVE  Parsed = Lines /\ inputQueue = Meaning(stream).text
    BY DEF LinesAreExact
  <2> QED
    BY ReadAll DEF Follows, Lines
<1> QED
  BY <1>1, MessagesInvariant, PTL
-----------------------------------------------------------------------------
(* Lines that have been read are not changed by what is read later.        *)
Begins(a, b) == \E u \in LineLists : b = a \o u

LEMMA BeginsMore ==
  ASSUME NEW a \in LineLists, NEW b \in LineLists, Begins(a, b), NEW line \in AnyLine
  PROVE  Begins(a, withLine(b, line))
<1>1. PICK u \in LineLists : b = a \o u
  BY DEF Begins
<1>2. CASE line = <<>>
  BY <1>1, <1>2 DEF withLine, Begins
<1>3. CASE line # <<>>
  <2>1. a \o Append(u, line) = Append(a \o u, line)
    BY ConcatAppend DEF LineLists
  <2>2. Append(u, line) \in LineLists
    BY DEF LineLists
  <2> QED
    BY <1>1, <1>3, <2>1, <2>2 DEF withLine, Begins
<1> QED
  BY <1>2, <1>3

LEMMA LinesStay ==
  ASSUME NEW s \in AnyLine, NEW t \in AnyLine
  PROVE  Begins(Meaning(s).lines, Meaning(s \o t).lines)
<1> DEFINE n == Len(t)
           upto(i) == s \o SubSeq(t, 1, i)
           lines == Meaning(s).lines
           Right == {i \in 0..n : Begins(lines, Meaning(upto(i)).lines)}
<1>0. n \in Nat /\ (\A i \in 1..n : t[i] \in Chars) /\ lines \in LineLists
  BY MeaningTyped DEF AnyLine
<1>1. 0 \in Right
  <2>1. SubSeq(t, 1, 0) = <<>> /\ s \o <<>> = s /\ 0 \in 0..n
    BY <1>0, SubSeqEmpty, ConcatEmptySeq DEF AnyLine
  <2>2. Begins(lines, lines)
    <3> HIDE DEF lines
    <3>1. <<>> \in LineLists /\ lines \o <<>> = lines
      BY <1>0, ConcatEmptySeq DEF LineLists
    <3> QED
      BY <3>1 DEF Begins
  <2> QED
    BY <2>1, <2>2
<1> HIDE DEF lines
<1>2. ASSUME NEW i \in 1..n, i - 1 \in Right
      PROVE  i \in Right
  <2>1. upto(i) = Append(upto(i - 1), t[i]) /\ t[i] \in Chars /\ i \in 0..n
    BY <1>0, ConcatByOne DEF AnyLine
  <2>2. upto(i - 1) \in AnyLine
    <3>1. SubSeq(t, 1, i - 1) \in Seq(Chars)
      BY <1>0 DEF AnyLine
    <3> QED
      BY <3>1 DEF AnyLine
  <2>3. Begins(lines, Meaning(upto(i - 1)).lines)
    BY <1>2
  <2> HIDE DEF upto
  <2> DEFINE m == Meaning(upto(i - 1))
  <2>4. Meaning(upto(i)) = Reading(m, t[i])
    BY <2>1, <2>2, MeaningOfMore DEF AnyLine
  <2>5. m \in Readings /\ m.lines \in LineLists /\ m.text \in AnyLine
    BY <2>2, MeaningIs, MeaningTyped DEF AnyLine
  <2> HIDE DEF m
  <2>6. Reading(m, t[i]).lines =
          IF t[i] \in EOL_CR_LF THEN withLine(m.lines, m.text) ELSE m.lines
    BY <2>5 DEF Reading, Readings
  <2>7. Begins(lines, Reading(m, t[i]).lines)
    BY <1>0, <2>3, <2>5, <2>6, BeginsMore DEF m
  <2> QED
    BY <2>1, <2>4, <2>7
<1>3. n \in Right
  <2> HIDE DEF Right, n
  <2>1. 0..n \subseteq Right
    BY <1>0, <1>1, <1>2, RoundByRound
  <2> QED
    BY <1>0, <2>1
<1>4. SubSeq(t, 1, n) = t
  BY SubSeqFull DEF AnyLine
<1> QED
  BY <1>3, <1>4 DEF lines

(* What has been read is the first part of all there is.                   *)
LEMMA ReadOfAll ==
  ASSUME MessagesInv
  PROVE  \E c, x \in AnyLine : All = c \o x /\ Follows(Meaning(c))
<1>1. PICK c \in AnyLine : stream = c \o Rest /\ Follows(Meaning(c))
  BY DEF MessagesInv, Heard
<1>2. Rest \in AnyLine /\ wire \in AnyLine /\ outputQueue \in AnyLine
  BY RestIs DEF MessagesInv, QueuesOK
<1> DEFINE rw == Rest \o wire
<1>3. rw \in AnyLine /\ rw \o outputQueue \in AnyLine
  BY <1>2 DEF AnyLine
<1>4. (c \o Rest) \o wire = c \o rw
  BY <1>2, Associative
<1> HIDE DEF rw
<1>5. (c \o rw) \o outputQueue = c \o (rw \o outputQueue)
  BY <1>2, <1>3, Associative
<1>6. All = c \o (rw \o outputQueue)
  BY <1>1, <1>4, <1>5 DEF All
<1> QED
  BY <1>1, <1>3, <1>6

(* Whatever the writes take and the reads yield, no more lines are parsed  *)
(* than were sent: what is lost between can run two together, not cut one. *)
THEOREM LinesDoNotMultiply == Spec => []MessagesDoNotMultiply
<1>1. MessagesInv => MessagesDoNotMultiply
  <2> SUFFICES ASSUME MessagesInv, sent # <<>>
               PROVE  Len(Parsed) <= Len(sent)
    BY DEF MessagesDoNotMultiply
  <2>1. PICK c, x \in AnyLine : All = c \o x /\ Follows(Meaning(c))
    BY ReadOfAll
  <2> DEFINE i == Len(Meaning(c).lines)
             j == Len(Meaning(c \o x).lines)
  <2>2. Len(Parsed) = i
    BY <2>1 DEF Follows, Matching
  <2>3. i <= j
    BY MoreIsNotLess DEF Below
  <2>4. j <= Len(sent)
    BY <2>1 DEF MessagesInv, Few, Speaking
  <2>5. i \in Nat /\ j \in Nat /\ Len(sent) \in Nat
    <3>1. c \o x \in AnyLine
      BY DEF AnyLine
    <3>2. \A y \in AnyLine : Len(Meaning(y).lines) \in Nat
      BY MeaningTyped DEF LineLists
    <3> QED
      BY <3>1, <3>2 DEF MessagesInv, QueuesOK
  <2> HIDE DEF i, j
  <2> QED
    BY <2>2, <2>3, <2>4, <2>5
<1> QED
  BY <1>1, MessagesInvariant, PTL

(* While no write is short and no chunk leaves over the start of a line,   *)
(* the lines that are parsed are those that were sent, in order, and once  *)
(* all has been read they are all of them.                                 *)
LinesArrive ==
  sent # <<>> /\ ~short /\ ~leftover =>
    /\ IsPrefix(Parsed, SentLines)
    /\ data = <<>> /\ wire = <<>> /\ outputQueue = <<>> => Parsed = SentLines

THEOREM LinesAllArrive == Spec => []LinesArrive
<1>1. MessagesInv => LinesArrive
  <2> SUFFICES ASSUME MessagesInv, sent # <<>>, ~short, ~leftover
               PROVE  /\ IsPrefix(Parsed, SentLines)
                      /\ data = <<>> /\ wire = <<>> /\ outputQueue = <<>>
                           => Parsed = SentLines
    BY DEF LinesArrive
  <2>1. Meaning(All).lines = SentLines
    BY DEF MessagesInv, Whole, Speaking
  <2>2. IsPrefix(Parsed, SentLines)
    <3>1. PICK c, x \in AnyLine : All = c \o x /\ Follows(Meaning(c))
      BY ReadOfAll
    <3>2. Parsed = Meaning(c).lines /\ Parsed \in LineLists
      BY <3>1, MeaningTyped DEF Follows
    <3>3. PICK u \in LineLists : SentLines = Parsed \o u
      BY <2>1, <3>1, <3>2, LinesStay DEF Begins
    <3> QED
      BY <3>2, <3>3, PrefixIs DEF LineLists
  <2>3. ASSUME data = <<>>, wire = <<>>, outputQueue = <<>>
        PROVE  Parsed = SentLines
    <3>1. stream \in AnyLine /\ stream \o <<>> = stream
      BY ConcatEmptySeq DEF MessagesInv, ChunkOK, AnyLine
    <3>2. All = stream
      BY <2>3, <3>1 DEF All
    <3>3. Parsed = Meaning(stream).lines
      BY <2>3, ReadAll DEF Follows
    <3> QED
      BY <2>1, <3>2, <3>3
  <2> QED
    BY <2>2, <2>3
<1> QED
  BY <1>1, MessagesInvariant, PTL
-----------------------------------------------------------------------------
(* What cutting a line into words has at any point                         *)
AnyWords == [ended : LineLists, word : AnyLine, last : BOOLEAN]

LEMMA NextCharacterIs ==
  ASSUME NEW r \in AnyWords, NEW c \in Chars
  PROVE  /\ c = SP /\ ~r.last =>
              nextCharacter(r, c) = [ended |-> Append(r.ended, r.word), word |-> <<>>, last |-> FALSE]
         /\ c = COLON /\ ~r.last /\ r.word = <<>> /\ Len(r.ended) >= CommandAt(r.ended) =>
              nextCharacter(r, c) = [ended |-> r.ended, word |-> <<>>, last |-> TRUE]
         /\ /\ ~(c = SP /\ ~r.last)
            /\ ~(c = COLON /\ ~r.last /\ r.word = <<>> /\ Len(r.ended) >= CommandAt(r.ended))
            => nextCharacter(r, c) = [ended |-> r.ended, word |-> Append(r.word, c), last |-> r.last]
<1>1. r = [ended |-> r.ended, word |-> r.word, last |-> r.last] /\ r.last \in BOOLEAN
  BY DEF AnyWords
<1>2. SP # COLON
  BY MessagesAssumption
<1>3. ASSUME c = SP, ~r.last
      PROVE  nextCharacter(r, c) = [ended |-> Append(r.ended, r.word), word |-> <<>>, last |-> FALSE]
  BY <1>1, <1>2, <1>3 DEF nextCharacter, AnyWords
<1>4. ASSUME c = COLON, ~r.last, r.word = <<>>, Len(r.ended) >= CommandAt(r.ended)
      PROVE  nextCharacter(r, c) = [ended |-> r.ended, word |-> <<>>, last |-> TRUE]
  BY <1>1, <1>2, <1>4 DEF nextCharacter, AnyWords
<1>5. ASSUME ~(c = SP /\ ~r.last),
             ~(c = COLON /\ ~r.last /\ r.word = <<>> /\ Len(r.ended) >= CommandAt(r.ended))
      PROVE  nextCharacter(r, c) = [ended |-> r.ended, word |-> Append(r.word, c), last |-> r.last]
  BY <1>1, <1>5 DEF nextCharacter, AnyWords
<1> QED
  BY <1>3, <1>4, <1>5

LEMMA NextCharacterTyped ==
  ASSUME NEW r \in AnyWords, NEW c \in Chars
  PROVE  nextCharacter(r, c) \in AnyWords
<1>1. r.ended \in LineLists /\ r.word \in AnyLine /\ r.last \in BOOLEAN
  BY DEF AnyWords
<1>2. Append(r.ended, r.word) \in LineLists /\ Append(r.word, c) \in AnyLine /\ <<>> \in AnyLine
  BY <1>1 DEF LineLists, AnyLine
<1>3. /\ [ended |-> Append(r.ended, r.word), word |-> <<>>, last |-> FALSE] \in AnyWords
      /\ [ended |-> r.ended, word |-> <<>>, last |-> TRUE] \in AnyWords
      /\ [ended |-> r.ended, word |-> Append(r.word, c), last |-> r.last] \in AnyWords
  BY <1>1, <1>2 DEF AnyWords
<1> QED
  BY <1>3, NextCharacterIs

CutStep == [p \in AnyWords \X Chars |-> nextCharacter(p[1], p[2])]

(* Cut() is what the loop over characters ends with.                       *)
LEMMA CutLoops ==
  ASSUME NEW s \in AnyLine
  PROVE  \E f \in [0..Len(s) -> AnyWords] :
           Looping(f, NoWords, CutStep, s) /\ Cut(s) = f[Len(s)]
<1> DEFINE n == Len(s)
           After(f) == f = [i \in 0..n |-> IF i = 0 THEN NoWords
                                           ELSE nextCharacter(f[i - 1], s[i])]
           read == CHOOSE f : After(f)
<1>0. n \in Nat /\ (\A i \in 1..n : s[i] \in Chars) /\ NoWords \in AnyWords /\ s \in Seq(Chars)
  BY DEF NoWords, AnyWords, AnyLine, LineLists
<1>1. \E f : After(f)
  <2>1. CutStep \in [AnyWords \X Chars -> AnyWords]
    BY NextCharacterTyped DEF CutStep
  <2>2. PICK f \in [0..n -> AnyWords] : Looping(f, NoWords, CutStep, s)
    BY <1>0, <2>1, LoopsRun
  <2>3. f = [i \in 0..n |-> IF i = 0 THEN NoWords ELSE CutStep[<<f[i - 1], s[i]>>]]
    BY <2>2 DEF Looping
  <2>4. ASSUME NEW i \in 0..n, i # 0
        PROVE  CutStep[<<f[i - 1], s[i]>>] = nextCharacter(f[i - 1], s[i])
    BY <1>0, <2>4 DEF CutStep
  <2>5. After(f)
    BY <2>3, <2>4
  <2> QED
    BY <2>5
<1>2. After(read)
  BY <1>1
<1>3. Cut(s) = read[n]
  BY DEF Cut
<1> HIDE DEF read
<1>4. read[0] = NoWords /\ \A i \in 1..n : read[i] = nextCharacter(read[i - 1], s[i])
  BY <1>0, <1>2
<1>5. \A i \in 0..n : read[i] \in AnyWords
  <2> DEFINE Typed == {i \in 0..n : read[i] \in AnyWords}
  <2>1. 0 \in Typed
    BY <1>0, <1>4
  <2>2. ASSUME NEW i \in 1..n, i - 1 \in Typed
        PROVE  i \in Typed
    BY <1>0, <1>4, <2>2, NextCharacterTyped
  <2> HIDE DEF Typed
  <2>3. 0..n \subseteq Typed
    BY <1>0, <2>1, <2>2, RoundByRound
  <2> QED
    BY <2>3 DEF Typed
<1>6. read \in [0..n -> AnyWords]
  BY <1>2, <1>5
<1>7. Looping(read, NoWords, CutStep, s)
  <2>1. ASSUME NEW i \in 0..n, i # 0
        PROVE  CutStep[<<read[i - 1], s[i]>>] = nextCharacter(read[i - 1], s[i])
    BY <1>0, <1>5, <2>1 DEF CutStep
  <2> QED
    BY <1>2, <2>1 DEF Looping
<1> QED
  BY <1>3, <1>6, <1>7

LEMMA CutIs ==
  /\ Cut(<<>>) = NoWords
  /\ \A s \in AnyLine : Cut(s) \in AnyWords
<1>1. ASSUME NEW s \in AnyLine
      PROVE  Cut(s) \in AnyWords
  <2>1. Len(s) \in 0..Len(s)
    BY DEF AnyLine
  <2> QED
    BY <2>1, CutLoops
<1>2. Cut(<<>>) = NoWords
  <2>1. <<>> \in AnyLine /\ Len(<<>>) = 0
    BY DEF AnyLine
  <2>2. PICK f \in [0..0 -> AnyWords] : Looping(f, NoWords, CutStep, <<>>) /\ Cut(<<>>) = f[0]
    BY <2>1, CutLoops
  <2> QED
    BY <2>1, <2>2 DEF Looping
<1> QED
  BY <1>1, <1>2

LEMMA CutOfMore ==
  ASSUME NEW s \in AnyLine, NEW c \in Chars
  PROVE  Cut(Append(s, c)) = nextCharacter(Cut(s), c)
<1>1. PICK f \in [0..Len(s) -> AnyWords] :
        Looping(f, NoWords, CutStep, s) /\ Cut(s) = f[Len(s)]
  BY CutLoops
<1>2. Append(s, c) \in AnyLine /\ Len(Append(s, c)) = Len(s) + 1
  BY DEF AnyLine
<1>3. PICK h \in [0..(Len(s) + 1) -> AnyWords] :
        Looping(h, NoWords, CutStep, Append(s, c)) /\ Cut(Append(s, c)) = h[Len(s) + 1]
  BY <1>2, CutLoops
<1>4. h[Len(s) + 1] = CutStep[<<f[Len(s)], c>>]
  <2>1. Looping(f, NoWords, CutStep, s) /\ Looping(h, NoWords, CutStep, Append(s, c))
    BY <1>1, <1>3
  <2> QED
    BY <2>1, LoopsGoOn DEF AnyLine
<1>5. Cut(s) \in AnyWords
  BY CutIs
<1> QED
  BY <1>1, <1>3, <1>4, <1>5 DEF CutStep

(* A word of which nothing looks like something else                       *)
LEMMA CutOfWord ==
  ASSUME NEW s \in AnyLine, NEW w \in Seq(Text \ {SP}), ~Cut(s).last,
         \/ w = <<>> \/ w[1] # COLON \/ Cut(s).word # <<>>
         \/ Len(Cut(s).ended) < CommandAt(Cut(s).ended)
  PROVE  /\ s \o w \in AnyLine
         /\ Cut(s \o w) = [ended |-> Cut(s).ended, word |-> Cut(s).word \o w, last |-> FALSE]
<1> DEFINE n == Len(w)
           r == Cut(s)
           upto(i) == s \o SubSeq(w, 1, i)
           word(i) == r.word \o SubSeq(w, 1, i)
           Right == {i \in 0..n : Cut(upto(i)) = [ended |-> r.ended, word |-> word(i), last |-> FALSE]}
<1>0. /\ n \in Nat /\ w \in AnyLine /\ w \in Seq(Chars) /\ r \in AnyWords
      /\ \A i \in 1..n : w[i] \in Text /\ w[i] \in Chars /\ w[i] # SP
  <2>1. w \in Seq(Text)
    BY WordsAreText
  <2> QED
    BY <2>1, TextIsALine, CutIs DEF Chars, AnyLine
<1>1. r.ended \in LineLists /\ r.word \in AnyLine /\ r.last = FALSE
      /\ r = [ended |-> r.ended, word |-> r.word, last |-> FALSE]
  BY <1>0 DEF AnyWords
<1>2. \/ n = 0 \/ w[1] # COLON \/ r.word # <<>> \/ Len(r.ended) < CommandAt(r.ended)
  OBVIOUS
<1> HIDE DEF r
<1>3. 0 \in Right
  <2>1. SubSeq(w, 1, 0) = <<>> /\ s \o <<>> = s /\ r.word \o <<>> = r.word /\ 0 \in 0..n
    BY <1>0, <1>1, SubSeqEmpty, ConcatEmptySeq DEF AnyLine
  <2>2. upto(0) = s /\ word(0) = r.word
    BY <2>1
  <2>3. Cut(s) = [ended |-> r.ended, word |-> r.word, last |-> FALSE]
    BY <1>1 DEF r
  <2> HIDE DEF upto, word
  <2> QED
    BY <2>1, <2>2, <2>3
<1>4. ASSUME NEW i \in 1..n, i - 1 \in Right
      PROVE  i \in Right
  <2>1. upto(i) = Append(upto(i - 1), w[i]) /\ word(i) = Append(word(i - 1), w[i]) /\ i \in 0..n
    <3>1. s \in Seq(Chars) /\ r.word \in Seq(Chars)
      BY <1>1 DEF AnyLine
    <3> DEFINE part(j) == SubSeq(w, 1, j)
    <3>2. s \o part(i) = Append(s \o part(i - 1), w[i])
      BY <1>0, <3>1, ConcatByOne
    <3>3. r.word \o part(i) = Append(r.word \o part(i - 1), w[i])
      BY <1>0, <3>1, ConcatByOne
    <3>4. i \in 0..n
      BY <1>0
    <3> HIDE DEF part, n
    <3> QED
      BY <3>2, <3>3, <3>4 DEF part
  <2>2. upto(i - 1) \in AnyLine /\ word(i - 1) \in AnyLine
    <3>1. SubSeq(w, 1, i - 1) \in Seq(Chars)
      BY <1>0
    <3> QED
      BY <1>1, <3>1 DEF AnyLine
  <2>3. i = 1 => word(i - 1) = r.word
    BY <1>0, <1>1, SubSeqEmpty, ConcatEmptySeq DEF AnyLine
  <2>4. i # 1 => word(i - 1) # <<>>
    <3> SUFFICES ASSUME i # 1
                 PROVE  word(i - 1) # <<>>
      OBVIOUS
    <3>1. SubSeq(w, 1, i - 1) \in Seq(Chars) /\ Len(SubSeq(w, 1, i - 1)) = i - 1 /\ i - 1 # 0
      BY <1>0, SubSeqProperties
    <3>2. SubSeq(w, 1, i - 1) # <<>>
      BY <3>1
    <3> QED
      BY <1>1, <3>1, <3>2, ConcatEqualIffEmpty DEF AnyLine
  <2>5. Cut(upto(i - 1)) = [ended |-> r.ended, word |-> word(i - 1), last |-> FALSE]
    BY <1>4
  <2> HIDE DEF upto, word
  <2> DEFINE q == [ended |-> r.ended, word |-> word(i - 1), last |-> FALSE]
  <2>6. q \in AnyWords /\ q.ended = r.ended /\ q.word = word(i - 1) /\ q.last = FALSE
    BY <1>1, <2>2 DEF AnyWords
  <2>7. Cut(upto(i)) = nextCharacter(q, w[i])
    BY <1>0, <2>1, <2>2, <2>5, CutOfMore
  <2>8. ~(w[i] = SP /\ ~q.last) /\ w[i] \in Chars
    BY <1>0
  <2>9. ~(w[i] = COLON /\ ~q.last /\ q.word = <<>> /\ Len(q.ended) >= CommandAt(q.ended))
    <3>1. CASE i = 1
      <4>1. Len(r.ended) < CommandAt(r.ended) => ~(Len(r.ended) >= CommandAt(r.ended))
        <5>1. Len(r.ended) \in Nat /\ CommandAt(r.ended) \in Nat
          BY <1>1 DEF CommandAt, LineLists
        <5> QED
          BY <5>1
      <4> HIDE DEF q, n
      <4> QED
        BY <1>0, <1>2, <2>3, <2>6, <3>1, <4>1 DEF n
    <3>2. CASE i # 1
      BY <2>4, <2>6, <3>2
    <3> QED
      BY <3>1, <3>2
  <2> HIDE DEF q
  <2>10. nextCharacter(q, w[i]) = [ended |-> q.ended, word |-> Append(q.word, w[i]), last |-> q.last]
    BY <2>6, <2>8, <2>9, NextCharacterIs
  <2> QED
    BY <2>1, <2>6, <2>7, <2>10
<1>5. n \in Right
  <2> HIDE DEF Right, n
  <2>1. 0..n \subseteq Right
    BY <1>0, <1>3, <1>4, RoundByRound
  <2> QED
    BY <1>0, <2>1
<1>6. SubSeq(w, 1, n) = w
  BY <1>0, SubSeqFull
<1>7. s \o w \in AnyLine
  BY <1>0 DEF AnyLine
<1> QED
  BY <1>5, <1>6, <1>7 DEF r

(* The last parameter takes all that comes.                                *)
LEMMA CutOfLast ==
  ASSUME NEW s \in AnyLine, NEW t \in Seq(Text), Cut(s).last
  PROVE  /\ s \o t \in AnyLine
         /\ Cut(s \o t) = [ended |-> Cut(s).ended, word |-> Cut(s).word \o t, last |-> TRUE]
<1> DEFINE n == Len(t)
           r == Cut(s)
           upto(i) == s \o SubSeq(t, 1, i)
           word(i) == r.word \o SubSeq(t, 1, i)
           Right == {i \in 0..n : Cut(upto(i)) = [ended |-> r.ended, word |-> word(i), last |-> TRUE]}
<1>0. /\ n \in Nat /\ t \in AnyLine /\ t \in Seq(Chars) /\ r \in AnyWords
      /\ \A i \in 1..n : t[i] \in Chars
  BY TextIsALine, CutIs DEF Chars, AnyLine
<1>1. r.ended \in LineLists /\ r.word \in AnyLine /\ r.last = TRUE
      /\ r = [ended |-> r.ended, word |-> r.word, last |-> TRUE]
  BY <1>0 DEF AnyWords
<1> HIDE DEF r
<1>3. 0 \in Right
  <2>1. SubSeq(t, 1, 0) = <<>> /\ s \o <<>> = s /\ r.word \o <<>> = r.word /\ 0 \in 0..n
    BY <1>0, <1>1, SubSeqEmpty, ConcatEmptySeq DEF AnyLine
  <2>2. upto(0) = s /\ word(0) = r.word
    BY <2>1
  <2>3. Cut(s) = [ended |-> r.ended, word |-> r.word, last |-> TRUE]
    BY <1>1 DEF r
  <2> HIDE DEF upto, word
  <2> QED
    BY <2>1, <2>2, <2>3
<1>4. ASSUME NEW i \in 1..n, i - 1 \in Right
      PROVE  i \in Right
  <2>1. upto(i) = Append(upto(i - 1), t[i]) /\ word(i) = Append(word(i - 1), t[i]) /\ i \in 0..n
    <3>1. s \in Seq(Chars) /\ r.word \in Seq(Chars)
      BY <1>1 DEF AnyLine
    <3> DEFINE part(j) == SubSeq(t, 1, j)
    <3>2. s \o part(i) = Append(s \o part(i - 1), t[i])
      BY <1>0, <3>1, ConcatByOne
    <3>3. r.word \o part(i) = Append(r.word \o part(i - 1), t[i])
      BY <1>0, <3>1, ConcatByOne
    <3>4. i \in 0..n
      BY <1>0
    <3> HIDE DEF part, n
    <3> QED
      BY <3>2, <3>3, <3>4 DEF part
  <2>2. upto(i - 1) \in AnyLine /\ word(i - 1) \in AnyLine
    <3>1. SubSeq(t, 1, i - 1) \in Seq(Chars)
      BY <1>0
    <3> QED
      BY <1>1, <3>1 DEF AnyLine
  <2>5. Cut(upto(i - 1)) = [ended |-> r.ended, word |-> word(i - 1), last |-> TRUE]
    BY <1>4
  <2> HIDE DEF upto, word
  <2> DEFINE q == [ended |-> r.ended, word |-> word(i - 1), last |-> TRUE]
  <2>6. q \in AnyWords /\ q.ended = r.ended /\ q.word = word(i - 1) /\ q.last = TRUE
    BY <1>1, <2>2 DEF AnyWords
  <2>7. Cut(upto(i)) = nextCharacter(q, t[i])
    BY <1>0, <2>1, <2>2, <2>5, CutOfMore
  <2> HIDE DEF q
  <2>8. nextCharacter(q, t[i]) = [ended |-> q.ended, word |-> Append(q.word, t[i]), last |-> q.last]
    BY <1>0, <2>6, NextCharacterIs
  <2> QED
    BY <2>1, <2>6, <2>7, <2>8
<1>5. n \in Right
  <2> HIDE DEF Right, n
  <2>1. 0..n \subseteq Right
    BY <1>0, <1>3, <1>4, RoundByRound
  <2> QED
    BY <1>0, <2>1
<1>6. SubSeq(t, 1, n) = t
  BY <1>0, SubSeqFull
<1>7. s \o t \in AnyLine
  BY <1>0 DEF AnyLine
<1> QED
  BY <1>5, <1>6, <1>7 DEF r
-----------------------------------------------------------------------------
(* Where a line has been cut into words, all of which may be followed.     *)
AreWords(s, words) == s \in AnyLine /\ words \in LineLists /\ Words(Cut(s)) = words /\ ~Cut(s).last

LEMMA CutOfBlank ==
  ASSUME NEW s, NEW words, AreWords(s, words)
  PROVE  /\ s \o <<SP>> \in AnyLine
         /\ Cut(s \o <<SP>>) = [ended |-> words, word |-> <<>>, last |-> FALSE]
<1>1. s \in AnyLine /\ SP \in Chars /\ s \o <<SP>> = Append(s, SP) /\ s \o <<SP>> \in AnyLine
  BY MessagesAssumption DEF AreWords, Chars, AnyLine
<1>2. Cut(s) \in AnyWords /\ ~Cut(s).last /\ Append(Cut(s).ended, Cut(s).word) = words
  BY CutIs DEF AreWords, Words
<1>3. Cut(s \o <<SP>>) = nextCharacter(Cut(s), SP)
  BY <1>1, CutOfMore
<1>4. nextCharacter(Cut(s), SP)
        = [ended |-> Append(Cut(s).ended, Cut(s).word), word |-> <<>>, last |-> FALSE]
  BY <1>1, <1>2, NextCharacterIs
<1> QED
  BY <1>1, <1>2, <1>3, <1>4

(* One more word                                                           *)
LEMMA CutOfNext ==
  ASSUME NEW s, NEW words, AreWords(s, words), NEW w \in Word
  PROVE  AreWords(s \o (<<SP>> \o w), Append(words, w))
<1> DEFINE b == s \o <<SP>>
<1>1. b \in AnyLine /\ Cut(b) = [ended |-> words, word |-> <<>>, last |-> FALSE]
  BY CutOfBlank
<1>2. w \in Seq(Text \ {SP}) /\ w[1] # COLON /\ w \in Seq(Text)
  BY WordsAreText DEF Word
<1>3. <<SP>> \in AnyLine /\ w \in AnyLine /\ s \in AnyLine /\ words \in LineLists
  BY <1>2, TextIsALine, MessagesAssumption DEF AreWords, AnyLine, Chars
<1>4. b \o w = s \o (<<SP>> \o w)
  BY <1>3, Associative
<1> HIDE DEF b
<1>5. Cut(b).ended = words /\ Cut(b).word = <<>> /\ Cut(b).last = FALSE
  BY <1>1
<1>6. b \o w \in AnyLine /\ Cut(b \o w) = [ended |-> words, word |-> <<>> \o w, last |-> FALSE]
  BY <1>1, <1>2, <1>5, CutOfWord
<1>7. <<>> \o w = w
  BY <1>3, ConcatEmptySeq DEF AnyLine
<1>8. Words(Cut(b \o w)) = Append(words, w) /\ Cut(b \o w).last = FALSE
  BY <1>6, <1>7 DEF Words
<1>9. Append(words, w) \in LineLists
  BY <1>3 DEF LineLists
<1> QED
  BY <1>4, <1>6, <1>8, <1>9 DEF AreWords

(* Words with a blank in front of each                                     *)
LEMMA CutOfSpaced ==
  ASSUME NEW s, NEW words, AreWords(s, words), NEW ws \in Seq(Word)
  PROVE  AreWords(s \o Spaced(ws), words \o ws)
<1> DEFINE n == Len(ws)
           ss == [i \in DOMAIN ws |-> <<SP>> \o ws[i]]
<1>0. /\ n \in Nat /\ DOMAIN ws = 1..n /\ s \in AnyLine /\ words \in LineLists
      /\ \A i \in 1..n : ws[i] \in Word /\ ws[i] \in AnyLine
  BY WordsAreText, TextIsALine DEF AreWords
<1>1. ss \in Seq(AnyLine) /\ Len(ss) = n /\ \A i \in 1..n : ss[i] = <<SP>> \o ws[i] /\ ss[i] \in AnyLine
  <2>1. <<SP>> \in AnyLine
    BY MessagesAssumption DEF AnyLine, Chars
  <2>2. \A i \in 1..n : <<SP>> \o ws[i] \in AnyLine
    BY <1>0, <2>1 DEF AnyLine
  <2> QED
    BY <1>0, <2>2
<1> HIDE DEF ss
<1>2. PICK g : Appending(g, Chars, ss, n)
  BY <1>1, FlattenByRounds DEF AnyLine
<1>3. /\ \A i \in 0..n : g[i] \in AnyLine
      /\ g[0] = <<>> /\ g[n] = FlattenSeq(ss) /\ \A i \in 1..n : g[i] = g[i - 1] \o ss[i]
  BY <1>2 DEF Appending, AnyLine
<1>4. ws \in LineLists
  BY <1>0 DEF LineLists
<1> DEFINE Right == {i \in 0..n : AreWords(s \o g[i], words \o SubSeq(ws, 1, i))}
<1>5. 0 \in Right
  <2>1. SubSeq(ws, 1, 0) = <<>> /\ words \o <<>> = words /\ s \o <<>> = s /\ 0 \in 0..n
    BY <1>0, SubSeqEmpty, ConcatEmptySeq DEF AnyLine, LineLists
  <2> HIDE DEF n
  <2> QED
    BY <1>3, <2>1
<1>6. ASSUME NEW i \in 1..n, i - 1 \in Right
      PROVE  i \in Right
  <2> DEFINE before == s \o g[i - 1]
             those == words \o SubSeq(ws, 1, i - 1)
  <2>1. AreWords(before, those) /\ i \in 0..n /\ i - 1 \in 0..n
    BY <1>0, <1>6
  <2>2. Append(those, ws[i]) = words \o SubSeq(ws, 1, i)
    BY <1>0, <1>4, ConcatByOne DEF LineLists
  <2>3. before \o (<<SP>> \o ws[i]) = s \o g[i]
    <3>1. g[i - 1] \in AnyLine /\ g[i] = g[i - 1] \o ss[i] /\ ss[i] \in AnyLine
      BY <1>1, <1>3, <2>1
    <3>2. (s \o g[i - 1]) \o ss[i] = s \o (g[i - 1] \o ss[i])
      BY <1>0, <3>1, Associative
    <3> QED
      BY <1>1, <3>1, <3>2
  <2> HIDE DEF before, those, n
  <2>4. AreWords(before \o (<<SP>> \o ws[i]), Append(those, ws[i]))
    BY <1>0, <2>1, CutOfNext
  <2> QED
    BY <2>1, <2>2, <2>3, <2>4
<1>7. n \in Right
  <2> HIDE DEF Right, n
  <2>1. 0..n \subseteq Right
    BY <1>0, <1>5, <1>6, RoundByRound
  <2> QED
    BY <1>0, <2>1
<1>8. SubSeq(ws, 1, n) = ws
  BY <1>4, SubSeqFull DEF LineLists
<1>9. Spaced(ws) = FlattenSeq(ss)
  BY DEF Spaced, ss
<1> QED
  BY <1>3, <1>7, <1>8, <1>9

(* A parameter behind a colon, where one may be                            *)
LEMMA CutOfTrail ==
  ASSUME NEW s, NEW words, AreWords(s, words), Len(words) >= CommandAt(words), NEW t \in Seq(Text)
  PROVE  /\ (s \o <<SP, COLON>>) \o t \in AnyLine
         /\ Words(Cut((s \o <<SP, COLON>>) \o t)) = Append(words, t)
<1> DEFINE b == s \o <<SP>>
           r == [ended |-> words, word |-> <<>>, last |-> FALSE]
           q == [ended |-> words, word |-> <<>>, last |-> TRUE]
<1>1. b \in AnyLine /\ Cut(b) = r /\ s \in AnyLine /\ words \in LineLists /\ COLON \in Chars
  BY CutOfBlank, MessagesAssumption DEF AreWords, Chars
<1>2. s \o <<SP, COLON>> = Append(b, COLON)
  BY <1>1, MessagesAssumption DEF AnyLine, Chars
<1>3. r \in AnyWords /\ r.ended = words /\ r.word = <<>> /\ r.last = FALSE /\ q.last = TRUE
      /\ q.ended = words /\ q.word = <<>>
  BY <1>1 DEF AnyWords, AnyLine
<1> HIDE DEF b, r, q
<1>4. Cut(Append(b, COLON)) = nextCharacter(r, COLON)
  BY <1>1, CutOfMore
<1>5. nextCharacter(r, COLON) = q
  <2>1. nextCharacter(r, COLON) = [ended |-> r.ended, word |-> <<>>, last |-> TRUE]
    BY <1>1, <1>3, NextCharacterIs
  <2> QED
    BY <1>3, <2>1 DEF q
<1> DEFINE a == Append(b, COLON)
<1>6. a \in AnyLine
  BY <1>1 DEF AnyLine
<1> HIDE DEF a
<1>7. Cut(a) = q
  BY <1>4, <1>5 DEF a
<1>8. a \o t \in AnyLine /\ Cut(a \o t) = [ended |-> words, word |-> <<>> \o t, last |-> TRUE]
  BY <1>3, <1>6, <1>7, CutOfLast
<1>9. <<>> \o t = t
  BY ConcatEmptySeq
<1>10. Words(Cut(a \o t)) = Append(words, t)
  BY <1>8, <1>9 DEF Words
<1> QED
  BY <1>2, <1>8, <1>10 DEF a

(* All but the last are words.                                             *)
LEMMA FrontIs ==
  ASSUME NEW p \in Seq(Seq(Text)), p # <<>>, \A k \in 1..(Len(p) - 1) : p[k] \in Word
  PROVE  /\ Front(p) \in Seq(Word) /\ Last(p) \in Seq(Text)
         /\ p = Append(Front(p), Last(p))
<1>1. /\ Len(p) \in Nat \ {0} /\ Last(p) \in Seq(Text)
      /\ Front(p) \in Seq(Seq(Text)) /\ Len(Front(p)) = Len(p) - 1
      /\ \A i \in 1..(Len(p) - 1) : Front(p)[i] = p[i]
      /\ p = Append(Front(p), Last(p))
  BY FrontAndLast
<1> DEFINE f == Front(p)
           n == Len(p) - 1
<1> HIDE DEF f
<1>2. f = [i \in 1..n |-> f[i]] /\ n \in Nat /\ \A i \in 1..n : f[i] \in Word
  BY <1>1 DEF f
<1>3. f \in Seq(Word)
  <2> HIDE DEF n
  <2> QED
    BY <1>2, SequenceOf
<1> QED
  BY <1>1, <1>2, <1>3 DEF f

(* The parameters of a message                                             *)
LEMMA CutOfParameters ==
  ASSUME NEW s, NEW words, AreWords(s, words), words # <<>>, Len(words) >= CommandAt(words),
         NEW p \in Seq(Seq(Text)), p # <<>>, \A k \in 1..(Len(p) - 1) : p[k] \in Word
  PROVE  Words(Cut(((s \o Spaced(Front(p))) \o <<SP, COLON>>) \o Last(p))) = words \o p
<1> DEFINE f == Front(p)
           l == Last(p)
           those == words \o f
<1>1. f \in Seq(Word) /\ l \in Seq(Text) /\ p = Append(f, l)
  BY FrontIs
<1> HIDE DEF f, l
<1>2. words \in LineLists /\ f \in LineLists /\ l \in AnyLine
  <2>1. \A w \in Word : w \in AnyLine
    BY WordsAreText, TextIsALine
  <2> QED
    BY <1>1, <2>1, TextIsALine, SeqMonotonic DEF AreWords, LineLists
<1>3. AreWords(s \o Spaced(f), those)
  BY <1>1, CutOfSpaced
<1>4. Len(those) >= CommandAt(those)
  <2>1. Len(words) \in Nat /\ Len(words) >= 1 /\ Len(f) \in Nat
        /\ Len(those) = Len(words) + Len(f) /\ those[1] = words[1] /\ those # <<>>
    BY <1>2, EmptySeq DEF LineLists
  <2> HIDE DEF those
  <2>2. CommandAt(those) = CommandAt(words) /\ CommandAt(words) \in Nat
    BY <2>1 DEF CommandAt, HasOrigin
  <2> QED
    BY <2>1, <2>2
<1>5. words \o Append(f, l) = Append(those, l)
  BY <1>2, ConcatAppend DEF LineLists
<1> HIDE DEF those
<1>6. Words(Cut(((s \o Spaced(f)) \o <<SP, COLON>>) \o l)) = Append(those, l)
  BY <1>1, <1>3, <1>4, CutOfTrail
<1> QED
  BY <1>1, <1>5, <1>6 DEF f, l

(* What a line may begin with: a command, or an origin                     *)
LEMMA CutOfFirst ==
  ASSUME NEW w \in Seq(Text \ {SP})
  PROVE  AreWords(w, <<w>>)
<1>1. <<>> \in AnyLine /\ Cut(<<>>) = NoWords /\ w \in AnyLine
  BY CutIs, WordsAreText, TextIsALine DEF AnyLine
<1>2. NoWords.ended = <<>> /\ NoWords.word = <<>> /\ NoWords.last = FALSE
  BY DEF NoWords
<1>3. Len(Cut(<<>>).ended) < CommandAt(Cut(<<>>).ended)
  <2>1. CommandAt(<<>>) = 1 /\ Len(<<>>) = 0
    BY DEF CommandAt, HasOrigin
  <2> QED
    BY <1>1, <1>2, <2>1
<1>4. Cut(<<>> \o w) = [ended |-> <<>>, word |-> <<>> \o w, last |-> FALSE]
  BY <1>1, <1>2, <1>3, CutOfWord
<1>5. <<>> \o w = w
  BY <1>1, ConcatEmptySeq DEF AnyLine
<1>6. Cut(w) = [ended |-> <<>>, word |-> w, last |-> FALSE]
  BY <1>4, <1>5
<1>7. Words(Cut(w)) = <<w>> /\ ~Cut(w).last
  BY <1>6 DEF Words
<1> QED
  BY <1>1, <1>7 DEF AreWords, LineLists

(* Where the parameters of a message may follow                            *)
LEMMA Commanded ==
  ASSUME NEW o \in Seq(Text \ {SP}), NEW command \in Word
  PROVE  /\ AreWords(command, <<command>>)
         /\ CommandAt(<<command>>) = 1 /\ Len(<<command>>) = 1
         /\ AreWords(<<COLON>> \o o, <<<<COLON>> \o o>>)
         /\ AreWords((<<COLON>> \o o) \o (<<SP>> \o command), <<<<COLON>> \o o, command>>)
         /\ CommandAt(<<<<COLON>> \o o, command>>) = 2 /\ Len(<<<<COLON>> \o o, command>>) = 2
<1>1. command \in Seq(Text \ {SP}) /\ command[1] # COLON
  BY DEF Word
<1>2. AreWords(command, <<command>>)
  BY <1>1, CutOfFirst
<1> DEFINE w == <<COLON>> \o o
<1>3. w \in Seq(Text \ {SP}) /\ w # <<>> /\ w[1] = COLON
  BY MessagesAssumption
<1> HIDE DEF w
<1>4. AreWords(w, <<w>>)
  BY <1>3, CutOfFirst
<1>5. AreWords(w \o (<<SP>> \o command), Append(<<w>>, command))
  BY <1>4, CutOfNext
<1>6. Append(<<w>>, command) = <<w, command>>
  BY <1>1, <1>3, AppendPair
<1>7. CommandAt(<<command>>) = 1
  <2>1. <<command>>[1] = command
    OBVIOUS
  <2> QED
    BY <1>1, <2>1 DEF CommandAt, HasOrigin
<1>8. CommandAt(<<w, command>>) = 2
  <2>1. <<w, command>>[1] = w /\ <<w, command>> # <<>>
    OBVIOUS
  <2> QED
    BY <1>3, <2>1 DEF CommandAt, HasOrigin
<1> QED
  BY <1>2, <1>4, <1>5, <1>6, <1>7, <1>8 DEF w

LEMMA LinesConcatenate == Concatenates(AnyLine)
<1>1. \A x, y \in AnyLine : x \o y \in AnyLine
  BY DEF AnyLine
<1> QED
  BY <1>1, Associative DEF Concatenates

(* The words of a message without and with an origin                       *)
LEMMA CutOfMessage ==
  ASSUME NEW command \in Word,
         NEW p \in Seq(Seq(Text)), \A k \in 1..(Len(p) - 1) : p[k] \in Word
  PROVE  Words(Cut(sendMessage(command, p))) = <<command>> \o p
<1>1. AreWords(command, <<command>>) /\ Len(<<command>>) >= CommandAt(<<command>>)
      /\ <<command>> # <<>>
  <2>1. <<>> \in Seq(Text \ {SP}) /\ 1 >= 1 /\ <<command>> # <<>>
    OBVIOUS
  <2>2. AreWords(command, <<command>>) /\ CommandAt(<<command>>) = 1 /\ Len(<<command>>) = 1
    BY <2>1, Commanded
  <2> QED
    BY <2>1, <2>2
<1>2. CASE p = <<>>
  <2>1. <<command>> \o <<>> = <<command>>
    OBVIOUS
  <2> QED
    BY <1>1, <1>2, <2>1 DEF AreWords, sendMessage
<1>3. CASE p # <<>>
  <2>1. sendMessage(command, p) = ((command \o Spaced(Front(p))) \o <<SP, COLON>>) \o Last(p)
    BY <1>3 DEF sendMessage
  <2> QED
    BY <1>1, <1>3, <2>1, CutOfParameters
<1> QED
  BY <1>2, <1>3

LEMMA CutOfMessageFrom ==
  ASSUME NEW o \in Seq(Text \ {SP}), NEW command \in Word,
         NEW p \in Seq(Seq(Text)), \A k \in 1..(Len(p) - 1) : p[k] \in Word
  PROVE  Words(Cut(sendMessageFrom(o, command, p))) = <<<<COLON>> \o o, command>> \o p
<1> DEFINE w == <<COLON>> \o o
           b == <<SP>>
           s == w \o (b \o command)
           those == <<w, command>>
<1>1. AreWords(s, those) /\ Len(those) >= CommandAt(those) /\ those # <<>> /\ those \in LineLists
  <2>1. AreWords(s, those) /\ CommandAt(those) = 2 /\ Len(those) = 2
    BY Commanded
  <2>2. those # <<>>
    OBVIOUS
  <2> HIDE DEF s, those
  <2> QED
    BY <2>1, <2>2 DEF AreWords
<1>2. w \in AnyLine /\ b \in AnyLine /\ command \in AnyLine /\ s \in AnyLine
  <2>1. w \in AnyLine
    BY Commanded DEF AreWords
  <2>2. b \in AnyLine
    BY MessagesAssumption DEF AnyLine, Chars
  <2> QED
    BY <1>1, <2>1, <2>2, WordsAreText, TextIsALine DEF AreWords
<1>3. sendMessageFrom(o, command, p) = (w \o b) \o sendMessage(command, p)
  BY DEF sendMessageFrom
<1> HIDE DEF w, b
<1>4. (w \o b) \o command = s
  BY <1>2, Associative
<1> HIDE DEF s
<1>5. CASE p = <<>>
  <2>1. those \o <<>> = those
    BY <1>1, ConcatEmptySeq DEF LineLists
  <2>2. sendMessage(command, p) = command
    BY <1>5 DEF sendMessage
  <2> QED
    BY <1>1, <1>3, <1>4, <1>5, <2>1, <2>2 DEF AreWords, w
<1>6. CASE p # <<>>
  <2> DEFINE f == Spaced(Front(p))
             mark == <<SP, COLON>>
             l == Last(p)
  <2>1. f \in AnyLine /\ mark \in AnyLine /\ l \in AnyLine
    <3>1. Front(p) \in Seq(Seq(Text)) /\ l \in Seq(Text)
      BY <1>6, FrontIs, WordsAreText, SeqMonotonic
    <3>2. mark \in Seq(Text)
      BY MessagesAssumption
    <3> QED
      BY <3>1, <3>2, SpacedTyped, TextIsALine
  <2>2. sendMessage(command, p) = ((command \o f) \o mark) \o l
    BY <1>6 DEF sendMessage
  <2>3. Words(Cut(((s \o f) \o mark) \o l)) = those \o p
    BY <1>1, <1>6, CutOfParameters
  <2> HIDE DEF f, mark, l
  <2>4. (w \o b) \o (((command \o f) \o mark) \o l) = ((s \o f) \o mark) \o l
    <3> DEFINE wb == w \o b
    <3>1. wb \in AnyLine
      BY <1>2 DEF AnyLine
    <3> HIDE DEF wb
    <3>2. FourBehind(wb, command, f, mark, l)
      BY <1>2, <2>1, <3>1, LinesConcatenate, FourRegrouped
    <3>3. (((wb \o command) \o f) \o mark) \o l = wb \o (((command \o f) \o mark) \o l)
      BY <3>2 DEF FourBehind
    <3> QED
      BY <1>4, <3>3 DEF wb
  <2> QED
    BY <1>3, <2>2, <2>3, <2>4 DEF w
<1> QED
  BY <1>5, <1>6
-----------------------------------------------------------------------------
(* A command in upper case                                                 *)
Command == {c \in Word : \A i \in DOMAIN c : toUpper[c[i]] = c[i]}

LEMMA UpperIs ==
  ASSUME NEW c \in Command
  PROVE  [i \in DOMAIN c |-> toUpper[c[i]]] = c /\ c # <<>> /\ c \in Word
<1>1. c \in Seq(Text) /\ c # <<>> /\ c \in Word
  BY WordsAreText DEF Command
<1>2. c = [i \in DOMAIN c |-> c[i]]
  BY <1>1
<1> QED
  BY <1>1, <1>2 DEF Command

(* What parseLine() makes of the words of a message                        *)
LEMMA ParseWithout ==
  ASSUME NEW line, NEW command \in Command, NEW p \in Seq(Seq(Text)),
         Words(Cut(line)) = <<command>> \o p
  PROVE  parseLine(line) = [origin |-> <<>>, command |-> command, parameters |-> p]
<1> DEFINE words == <<command>> \o p
           n == Len(p)
<1>1. command \in Word /\ command[1] # COLON /\ command \in Seq(Text)
      /\ [i \in DOMAIN command |-> toUpper[command[i]]] = command
  BY UpperIs, WordsAreText DEF Word
<1>2. /\ words \in Seq(Seq(Text)) /\ n \in Nat /\ Len(words) = n + 1 /\ words[1] = command
      /\ \A i \in 1..n : words[i + 1] = p[i]
  <2>1. <<command>> \in Seq(Seq(Text)) /\ Len(<<command>>) = 1 /\ <<command>>[1] = command
    BY <1>1
  <2> QED
    BY <2>1
<1>3. SubSeq(words, 2, Len(words)) = p
  BY <1>2
<1> HIDE DEF words
<1>4. ~HasOrigin(words) /\ CommandAt(words) = 1
  BY <1>1, <1>2 DEF HasOrigin, CommandAt
<1>5. ~(1 > Len(words)) /\ 1 + 1 = 2
  BY <1>2
<1>6. Words(Cut(line)) = words
  BY DEF words
<1> QED
  BY <1>1, <1>2, <1>3, <1>4, <1>5, <1>6 DEF parseLine

LEMMA ParseWith ==
  ASSUME NEW line, NEW o \in Seq(Text), NEW command \in Command, NEW p \in Seq(Seq(Text)),
         Words(Cut(line)) = <<<<COLON>> \o o, command>> \o p
  PROVE  parseLine(line) = [origin |-> o, command |-> command, parameters |-> p]
<1> DEFINE w == <<COLON>> \o o
           words == <<w, command>> \o p
           n == Len(p)
<1>1. command \in Seq(Text) /\ [i \in DOMAIN command |-> toUpper[command[i]]] = command
  BY UpperIs, WordsAreText
<1>2. w \in Seq(Text) /\ w # <<>> /\ w[1] = COLON /\ Tail(w) = o
  <2>1. COLON \in Text /\ <<COLON>> \in Seq(Text) /\ Len(<<COLON>>) = 1
    BY MessagesAssumption
  <2>2. w \in Seq(Text) /\ w # <<>> /\ w[1] = COLON /\ Len(w) = Len(o) + 1
        /\ \A i \in 1..Len(o) : w[i + 1] = o[i]
    BY <2>1
  <2> HIDE DEF w
  <2>3. /\ Tail(w) \in Seq(Text) /\ Len(Tail(w)) = Len(w) - 1
        /\ \A i \in 1..Len(Tail(w)) : Tail(w)[i] = w[i + 1]
    BY <2>2, HeadTailProperties
  <2> DEFINE t == Tail(w)
  <2> HIDE DEF t
  <2>4. t \in Seq(Text) /\ Len(t) = Len(o) /\ \A i \in 1..Len(t) : t[i] = o[i]
    BY <2>2, <2>3 DEF t
  <2>5. t = o
    BY <2>4, SeqEqual
  <2> QED
    BY <2>2, <2>5 DEF t
<1> HIDE DEF w
<1>3. /\ words \in Seq(Seq(Text)) /\ n \in Nat /\ Len(words) = n + 2
      /\ words[1] = w /\ words[2] = command
      /\ \A i \in 1..n : words[i + 2] = p[i]
  <2> DEFINE two == <<w, command>>
  <2>1. two \in Seq(Seq(Text)) /\ Len(two) = 2 /\ two[1] = w /\ two[2] = command
    BY <1>1, <1>2
  <2> HIDE DEF two
  <2> QED
    BY <2>1 DEF two
<1>4. SubSeq(words, 3, Len(words)) = p
  BY <1>3
<1> HIDE DEF words
<1>5. HasOrigin(words) /\ CommandAt(words) = 2
  BY <1>2, <1>3 DEF HasOrigin, CommandAt
<1>6. ~(2 > Len(words)) /\ 2 + 1 = 3
  BY <1>3
<1>7. Words(Cut(line)) = words
  BY DEF words, w
<1> QED
  BY <1>1, <1>2, <1>3, <1>4, <1>5, <1>6, <1>7 DEF parseLine

(* parseLine() gets out of a line what was put into it.                    *)
LEMMA ParseIs ==
  ASSUME NEW m \in Sendable
  PROVE  parseLine(LineOf(m)) = Meant(m) /\ Meant(m).command # <<>>
<1> DEFINE p == m.parameters
           o == m.origin
<1>1. /\ o \in Seq(Text \ {SP}) /\ o \in Seq(Text)
      /\ m.command \in Command /\ m.command \in Word /\ m.command # <<>>
      /\ p \in Seq(Seq(Text)) /\ \A k \in 1..(Len(p) - 1) : p[k] \in Word
      /\ m.by \in {"sendMessage", "sendMessageFrom", "sendNumeric"}
      /\ m.by = "sendMessage" => o = <<>>
      /\ m.by = "sendNumeric" => p # <<>> /\ p[1] \in Word
  BY WordsAreText DEF Sendable, Command
<1> DEFINE c == m.command
<1>2. Meant(m) = [origin |-> o, command |-> c, parameters |-> p] /\ Meant(m).command # <<>>
  BY <1>1 DEF Meant
<1>3. CASE m.by = "sendMessage"
  <2>1. LineOf(m) = sendMessage(c, p)
    BY <1>3 DEF LineOf
  <2> HIDE DEF p, o, c
  <2>2. parseLine(sendMessage(c, p)) = [origin |-> <<>>, command |-> c, parameters |-> p]
    <3>1. Words(Cut(sendMessage(c, p))) = <<c>> \o p
      BY <1>1, CutOfMessage DEF c
    <3> QED
      BY <1>1, <3>1, ParseWithout DEF c
  <2> QED
    BY <1>1, <1>2, <1>3, <2>1, <2>2
<1>4. ASSUME LineOf(m) = sendMessageFrom(o, c, p)
      PROVE  parseLine(LineOf(m)) = Meant(m)
  <2> HIDE DEF p, o
  <2>1. Words(Cut(sendMessageFrom(o, c, p))) = <<<<COLON>> \o o, c>> \o p
    BY <1>1, CutOfMessageFrom
  <2>2. parseLine(sendMessageFrom(o, c, p)) = [origin |-> o, command |-> c, parameters |-> p]
    BY <1>1, <2>1, ParseWith
  <2> QED
    BY <1>2, <1>4, <2>2
<1>5. CASE m.by = "sendMessageFrom"
  BY <1>2, <1>4, <1>5 DEF LineOf
<1>6. CASE m.by = "sendNumeric"
  <2> DEFINE nick == Head(p)
             t == Tail(p)
  <2>1. LineOf(m) = sendNumeric(o, c, nick, t)
    BY <1>6 DEF LineOf
  <2> HIDE DEF p, o, c
  <2>2. nick = p[1] /\ nick \in Word /\ p = <<nick>> \o t
    BY <1>1, <1>6
  <2>3. CASE t # <<>>
    <3>1. LineOf(m) = sendMessageFrom(o, c, p)
      BY <2>1, <2>2, <2>3 DEF sendNumeric
    <3> QED
      BY <1>2, <1>4, <3>1
  <2>4. CASE t = <<>>
    <3> DEFINE w == <<COLON>> \o o
    <3>1. p = <<nick>>
      <4>1. <<nick>> \in Seq(Word)
        BY <2>2
      <4>2. <<nick>> \o <<>> = <<nick>>
        BY <4>1, ConcatEmptySeq
      <4> QED
        BY <2>2, <2>4, <4>2
    <3>2. LineOf(m) = w \o Spaced(<<c, nick>>)
      BY <2>1, <2>4 DEF sendNumeric
    <3>3. <<c, nick>> \in Seq(Word) /\ c \in Word
      BY <1>1, <2>2 DEF c
    <3>4. AreWords(w, <<w>>)
      BY <1>1, <3>3, Commanded
    <3> HIDE DEF w
    <3>5. AreWords(w \o Spaced(<<c, nick>>), <<w>> \o <<c, nick>>)
      BY <3>3, <3>4, CutOfSpaced
    <3>6. <<w>> \o <<c, nick>> = <<w, c>> \o <<nick>>
      OBVIOUS
    <3>7. Words(Cut(LineOf(m))) = <<w, c>> \o p
      BY <3>1, <3>2, <3>5, <3>6 DEF AreWords
    <3> QED
      BY <1>1, <1>2, <3>7, ParseWith DEF w, c
  <2> QED
    BY <2>3, <2>4
<1> QED
  BY <1>1, <1>2, <1>3, <1>4, <1>5, <1>6
-----------------------------------------------------------------------------
(* A line with nothing in it has no command.                               *)
LEMMA ParseOfNothing == parseLine(<<>>).command = <<>>
<1>1. Words(Cut(<<>>)) = <<<<>>>>
  <2>1. Cut(<<>>).ended = <<>> /\ Cut(<<>>).word = <<>>
    BY CutIs DEF NoWords
  <2>2. \A x : Append(<<>>, x) = <<x>>
    OBVIOUS
  <2> QED
    BY <2>1, <2>2 DEF Words
<1>2. CommandAt(<<<<>>>>) = 1 /\ ~HasOrigin(<<<<>>>>) /\ Len(<<<<>>>>) = 1 /\ <<<<>>>>[1] = <<>>
  BY DEF CommandAt, HasOrigin
<1>3. [i \in DOMAIN <<>> |-> toUpper[<<>>[i]]] = <<>>
  OBVIOUS
<1>4. ~(1 > 1)
  OBVIOUS
<1> DEFINE words == <<<<>>>>
<1> HIDE DEF words
<1> QED
  BY <1>1, <1>2, <1>3, <1>4 DEF parseLine, words
-----------------------------------------------------------------------------
(* What lines can be parsed to, and a step of the loop that passes it on   *)
Parses == {parseLine(line) : line \in AnyLine}
ParseLists == Seq(Parses)
PassStep == [p \in ParseLists \X AnyLine |-> withMessage(p[1], parseLine(p[2]))]

LEMMA WithMessageTyped ==
  ASSUME NEW ms \in ParseLists, NEW line \in AnyLine
  PROVE  withMessage(ms, parseLine(line)) \in ParseLists
<1>1. parseLine(line) \in Parses
  BY DEF Parses
<1>2. Append(ms, parseLine(line)) \in ParseLists
  BY <1>1 DEF ParseLists
<1> QED
  BY <1>2 DEF withMessage

(* PassedOn() is what the loop over lines ends with.                       *)
LEMMA PassedOnLoops ==
  ASSUME NEW ls \in LineLists
  PROVE  \E f \in [0..Len(ls) -> ParseLists] :
           Looping(f, <<>>, PassStep, ls) /\ PassedOn(ls) = f[Len(ls)]
<1> DEFINE n == Len(ls)
           After(f) == f = [i \in 0..n |-> IF i = 0 THEN <<>>
                                           ELSE withMessage(f[i - 1], parseLine(ls[i]))]
           found == CHOOSE f : After(f)
<1>0. n \in Nat /\ (\A i \in 1..n : ls[i] \in AnyLine) /\ <<>> \in ParseLists /\ ls \in Seq(AnyLine)
  BY DEF LineLists, ParseLists
<1>1. \E f : After(f)
  <2>1. PassStep \in [ParseLists \X AnyLine -> ParseLists]
    BY WithMessageTyped DEF PassStep
  <2>2. PICK f \in [0..n -> ParseLists] : Looping(f, <<>>, PassStep, ls)
    BY <1>0, <2>1, LoopsRun
  <2>3. f = [i \in 0..n |-> IF i = 0 THEN <<>> ELSE PassStep[<<f[i - 1], ls[i]>>]]
    BY <2>2 DEF Looping
  <2>4. ASSUME NEW i \in 0..n, i # 0
        PROVE  PassStep[<<f[i - 1], ls[i]>>] = withMessage(f[i - 1], parseLine(ls[i]))
    BY <1>0, <2>4 DEF PassStep
  <2>5. After(f)
    BY <2>3, <2>4
  <2> QED
    BY <2>5
<1>2. After(found)
  BY <1>1
<1>3. PassedOn(ls) = found[n]
  BY DEF PassedOn
<1> HIDE DEF found
<1>4. found[0] = <<>> /\ \A i \in 1..n : found[i] = withMessage(found[i - 1], parseLine(ls[i]))
  BY <1>0, <1>2
<1>5. \A i \in 0..n : found[i] \in ParseLists
  <2> DEFINE Typed == {i \in 0..n : found[i] \in ParseLists}
  <2>1. 0 \in Typed
    BY <1>0, <1>4
  <2>2. ASSUME NEW i \in 1..n, i - 1 \in Typed
        PROVE  i \in Typed
    BY <1>0, <1>4, <2>2, WithMessageTyped
  <2> HIDE DEF Typed
  <2>3. 0..n \subseteq Typed
    BY <1>0, <2>1, <2>2, RoundByRound
  <2> QED
    BY <2>3 DEF Typed
<1>6. found \in [0..n -> ParseLists]
  BY <1>2, <1>5
<1>7. Looping(found, <<>>, PassStep, ls)
  <2>1. ASSUME NEW i \in 0..n, i # 0
        PROVE  PassStep[<<found[i - 1], ls[i]>>] = withMessage(found[i - 1], parseLine(ls[i]))
    BY <1>0, <1>5, <2>1 DEF PassStep
  <2> QED
    BY <1>2, <2>1 DEF Looping
<1> QED
  BY <1>3, <1>6, <1>7

LEMMA PassedOnIs ==
  /\ PassedOn(<<>>) = <<>>
  /\ \A ls \in LineLists : PassedOn(ls) \in ParseLists
<1>1. ASSUME NEW ls \in LineLists
      PROVE  PassedOn(ls) \in ParseLists
  <2>1. Len(ls) \in 0..Len(ls)
    BY DEF LineLists
  <2> QED
    BY <2>1, PassedOnLoops
<1>2. PassedOn(<<>>) = <<>>
  <2>1. <<>> \in LineLists /\ Len(<<>>) = 0
    BY DEF LineLists
  <2>2. PICK f \in [0..0 -> ParseLists] :
          Looping(f, <<>>, PassStep, <<>>) /\ PassedOn(<<>>) = f[0]
    BY <2>1, PassedOnLoops
  <2> QED
    BY <2>1, <2>2 DEF Looping
<1> QED
  BY <1>1, <1>2

LEMMA PassedOnOfMore ==
  ASSUME NEW ls \in LineLists, NEW l \in AnyLine
  PROVE  PassedOn(Append(ls, l)) = withMessage(PassedOn(ls), parseLine(l))
<1>1. PICK f \in [0..Len(ls) -> ParseLists] :
        Looping(f, <<>>, PassStep, ls) /\ PassedOn(ls) = f[Len(ls)]
  BY PassedOnLoops
<1>2. Append(ls, l) \in LineLists /\ Len(Append(ls, l)) = Len(ls) + 1
  BY DEF LineLists
<1>3. PICK h \in [0..(Len(ls) + 1) -> ParseLists] :
        /\ Looping(h, <<>>, PassStep, Append(ls, l))
        /\ PassedOn(Append(ls, l)) = h[Len(ls) + 1]
  BY <1>2, PassedOnLoops
<1>4. h[Len(ls) + 1] = PassStep[<<f[Len(ls)], l>>]
  <2>1. Looping(f, <<>>, PassStep, ls) /\ Looping(h, <<>>, PassStep, Append(ls, l))
    BY <1>1, <1>3
  <2> QED
    BY <2>1, LoopsGoOn DEF LineLists
<1>5. PassedOn(ls) \in ParseLists
  BY PassedOnIs
<1> QED
  BY <1>1, <1>3, <1>4, <1>5 DEF PassStep

(* Empty lines are not missed.                                             *)
LEMMA EmptyLinesPassNothing ==
  ASSUME NEW ls \in LineLists
  PROVE  PassedOn(NotEmpty(ls)) = PassedOn(ls)
<1> DEFINE n == Len(ls)
           upto(i) == SubSeq(ls, 1, i)
           Right == {i \in 0..n : PassedOn(NotEmpty(upto(i))) = PassedOn(upto(i))}
<1>0. n \in Nat /\ \A i \in 1..n : ls[i] \in AnyLine
  BY DEF LineLists
<1>1. 0 \in Right
  <2>1. upto(0) = <<>> /\ 0 \in 0..n
    BY <1>0, SubSeqEmpty
  <2> HIDE DEF upto, n
  <2> QED
    BY <2>1, NotEmptyIs
<1>2. ASSUME NEW i \in 1..n, i - 1 \in Right
      PROVE  i \in Right
  <2>1. upto(i) = Append(upto(i - 1), ls[i])
    BY SubSeqByOne DEF LineLists
  <2>2. upto(i - 1) \in LineLists /\ i \in 0..n
    BY <1>0 DEF LineLists
  <2>3. PassedOn(NotEmpty(upto(i - 1))) = PassedOn(upto(i - 1))
    BY <1>2
  <2> HIDE DEF upto
  <2> DEFINE before == upto(i - 1)
             l == ls[i]
  <2>4. l \in AnyLine /\ before \in LineLists /\ NotEmpty(before) \in LineLists
    BY <1>0, <2>2, NotEmptyIs
  <2> HIDE DEF before, l
  <2>5. NotEmpty(Append(before, l)) = withLine(NotEmpty(before), l)
    BY <2>4, NotEmptyOfMore
  <2>6. PassedOn(Append(before, l)) = withMessage(PassedOn(before), parseLine(l))
    BY <2>4, PassedOnOfMore
  <2>7. PassedOn(withLine(NotEmpty(before), l)) = withMessage(PassedOn(NotEmpty(before)), parseLine(l))
    <3>1. CASE l = <<>>
      BY <3>1, ParseOfNothing DEF withLine, withMessage
    <3>2. CASE l # <<>>
      BY <2>4, <3>2, PassedOnOfMore DEF withLine
    <3> QED
      BY <3>1, <3>2
  <2> QED
    BY <2>1, <2>2, <2>3, <2>5, <2>6, <2>7 DEF before, l
<1>3. n \in Right
  <2> HIDE DEF Right, n
  <2>1. 0..n \subseteq Right
    BY <1>0, <1>1, <1>2, RoundByRound
  <2> QED
    BY <1>0, <2>1
<1>4. upto(n) = ls
  BY SubSeqFull DEF LineLists
<1> QED
  BY <1>3, <1>4

(* What has a command is passed on.                                        *)
LEMMA CommandsArePassedOn ==
  ASSUME NEW ls \in LineLists, \A k \in 1..Len(ls) : parseLine(ls[k]).command # <<>>
  PROVE  /\ PassedOn(ls) \in ParseLists /\ Len(PassedOn(ls)) = Len(ls)
         /\ \A k \in 1..Len(ls) : PassedOn(ls)[k] = parseLine(ls[k])
<1> DEFINE n == Len(ls)
           upto(i) == SubSeq(ls, 1, i)
           Right == {i \in 0..n : /\ Len(PassedOn(upto(i))) = i
                                  /\ \A k \in 1..i : PassedOn(upto(i))[k] = parseLine(ls[k])}
<1>0. n \in Nat /\ \A i \in 1..n : ls[i] \in AnyLine
  BY DEF LineLists
<1>1. 0 \in Right
  <2>1. upto(0) = <<>> /\ 0 \in 0..n
    BY <1>0, SubSeqEmpty
  <2>2. Len(<<>>) = 0
    OBVIOUS
  <2> HIDE DEF upto, n
  <2> QED
    BY <2>1, <2>2, PassedOnIs
<1>2. ASSUME NEW i \in 1..n, i - 1 \in Right
      PROVE  i \in Right
  <2>1. upto(i) = Append(upto(i - 1), ls[i])
    BY SubSeqByOne DEF LineLists
  <2>2. upto(i - 1) \in LineLists /\ i \in 0..n
    BY <1>0 DEF LineLists
  <2> HIDE DEF upto
  <2> DEFINE a == PassedOn(upto(i - 1))
             m == parseLine(ls[i])
             b == PassedOn(upto(i))
  <2>3. /\ Len(a) = i - 1 /\ a \in ParseLists
        /\ \A k \in 1..(i - 1) : a[k] = parseLine(ls[k])
    BY <1>2, <2>2, PassedOnIs
  <2>4. b = Append(a, m)
    BY <1>0, <2>1, <2>2, PassedOnOfMore DEF withMessage
  <2> HIDE DEF a, b, m
  <2>5. Len(b) = i /\ b[i] = m /\ \A k \in 1..(i - 1) : b[k] = a[k]
    BY <2>2, <2>3, <2>4 DEF ParseLists
  <2>6. \A k \in 1..i : b[k] = parseLine(ls[k])
    <3>1. \A k \in 1..i : k = i \/ k \in 1..(i - 1)
      BY <1>0
    <3> QED
      BY <2>3, <2>5, <3>1 DEF m
  <2> QED
    BY <2>2, <2>5, <2>6 DEF b
<1>3. n \in Right
  <2> HIDE DEF Right, n
  <2>1. 0..n \subseteq Right
    BY <1>0, <1>1, <1>2, RoundByRound
  <2> QED
    BY <1>0, <2>1
<1>4. upto(n) = ls
  BY SubSeqFull DEF LineLists
<1> QED
  BY <1>3, <1>4, PassedOnIs
-----------------------------------------------------------------------------
(* While no write is short and no chunk leaves over the start of a line,   *)
(* the messages that arrive are those that were sent, in order, with their *)
(* origin, their command and every parameter, and once all has been read   *)
(* all have arrived.                                                       *)
THEOREM MessagesAllArrive == Spec => []MessagesArrive
<1>1. MessagesInv /\ LinesArrive => MessagesArrive
  <2> DEFINE meant == [k \in DOMAIN sent |-> Meant(sent[k])]
             n == Len(Parsed)
  <2> SUFFICES ASSUME MessagesInv, LinesArrive, sent # <<>>, ~short, ~leftover
               PROVE  /\ IsPrefix(Arrived, meant)
                      /\ data = <<>> /\ wire = <<>> /\ outputQueue = <<>> => Len(Arrived) = Len(sent)
    BY DEF MessagesArrive
  <2>1. /\ IsPrefix(Parsed, SentLines)
        /\ data = <<>> /\ wire = <<>> /\ outputQueue = <<>> => Parsed = SentLines
    BY DEF LinesArrive
  <2>2. /\ Parsed \in LineLists /\ parsed \in LineLists /\ n \in Nat
        /\ sent \in Seq(Sendable) /\ DOMAIN sent = 1..Len(sent) /\ Len(sent) \in Nat
        /\ Len(SentLines) = Len(sent)
    <3>1. Parsed \in LineLists /\ parsed \in LineLists
      BY ParsedIs DEF MessagesInv, ChunkOK
    <3>2. sent \in Seq(Sendable)
      BY DEF MessagesInv, QueuesOK
    <3> QED
      BY <3>1, <3>2 DEF SentLines, LineLists
  <2>3. n <= Len(sent)
    BY <2>1, <2>2 DEF IsPrefix
  <2>4. \A k \in 1..n : Parsed[k] = LineOf(sent[k]) /\ sent[k] \in Sendable
    <3> DEFINE a == Parsed
               b == SentLines
    <3> HIDE DEF a, b
    <3>1. n = Len(a) /\ SubSeq(a, 1, n) = SubSeq(b, 1, n) /\ a \in LineLists
      BY <2>1, <2>2 DEF IsPrefix, a, b
    <3>2. \A k \in 1..n : k \in 1..Len(sent)
      BY <2>2, <2>3
    <3>3. \A k \in 1..n : SubSeq(a, 1, n)[k] = a[k]
      BY <2>2, <3>1, SubSeqFull DEF LineLists
    <3>4. \A k \in 1..n : SubSeq(b, 1, n)[k] = b[k]
      OBVIOUS
    <3>5. \A k \in 1..Len(sent) : b[k] = LineOf(sent[k]) /\ sent[k] \in Sendable
      BY <2>2 DEF b, SentLines
    <3> QED
      BY <3>1, <3>2, <3>3, <3>4, <3>5 DEF a
  <2>5. \A k \in 1..n : parseLine(Parsed[k]) = Meant(sent[k]) /\ parseLine(Parsed[k]).command # <<>>
    BY <2>4, ParseIs
  <2>6. Arrived = PassedOn(Parsed)
    BY <2>2, EmptyLinesPassNothing DEF Arrived, Parsed
  <2>7. /\ Arrived \in ParseLists /\ Len(Arrived) = n
        /\ \A k \in 1..n : Arrived[k] = Meant(sent[k])
    BY <2>2, <2>5, <2>6, CommandsArePassedOn
  <2>8. IsPrefix(Arrived, meant)
    <3> DEFINE a == Arrived
    <3>1. Len(meant) = Len(sent) /\ \A k \in 1..n : meant[k] = Meant(sent[k])
      BY <2>2, <2>3
    <3> HIDE DEF meant, a, n
    <3>2. SubSeq(a, 1, n) = SubSeq(meant, 1, n)
      BY <2>2, <2>7, <3>1 DEF a
    <3> QED
      BY <2>2, <2>3, <2>7, <3>1, <3>2 DEF IsPrefix, a
  <2> QED
    BY <2>1, <2>2, <2>7, <2>8
<1> QED
  BY <1>1, MessagesInvariant, LinesAllArrive, PTL
=============================================================================
