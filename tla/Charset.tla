------------------------------ MODULE Charset -------------------------------
(***************************************************************************)
(* Texts cross the daemon's border in octets and are kept in wide          *)
(* characters: the descriptors that a protocol holds for its input and for *)
(* its output (src/lib/protocol.cpp), and convertChars()                   *)
(* (src/lib/charconv.h), through which every text passes.                  *)
(*                                                                         *)
(* An octet and a wide character are their numbers; a wide character takes *)
(* four octets of the buffer.  iconv() itself is a library, modelled as its*)
(* callers see it.  Only a library that knows the internal character set by*)
(* the name configure.ac gives it (libiconv does, the C library of GNU does*)
(* not) converts anything at all.                                          *)
(***************************************************************************)
EXTENDS Integers, SequencesExt

CONSTANTS
  Charsets,          \* the names that iconv_open() knows
  ICONV_BUFFER_SIZE  \* the octets of the buffer of convertChars(): 2048

ASSUME CharsetAssumption == ICONV_BUFFER_SIZE \in Nat /\ ICONV_BUFFER_SIZE >= 4

KINE_INTERNAL_CHARSET == "UCS-4-INTERNAL"
-----------------------------------------------------------------------------
(* How many octets follow the first of a UTF-8 sequence, -1 if none begins *)
(* so; the lowest code point that such a sequence may stand for            *)
Following(b) ==
  CASE b < 128 -> 0
    [] b \in 194..223 -> 1
    [] b \in 224..239 -> 2
    [] b \in 240..244 -> 3
    [] OTHER -> -1

Lowest(following) ==
  CASE following = 0 -> 0 [] following = 1 -> 128 [] following = 2 -> 2048 [] OTHER -> 65536

(* The code point of a whole sequence                                      *)
CodePoint(s) ==
  CASE Len(s) = 1 -> s[1]
    [] Len(s) = 2 -> 64 * (s[1] - 192) + (s[2] - 128)
    [] Len(s) = 3 -> 4096 * (s[1] - 224) + 64 * (s[2] - 128) + (s[3] - 128)
    [] OTHER -> 262144 * (s[1] - 240) + 4096 * (s[2] - 128) + 64 * (s[3] - 128) + (s[4] - 128)

(* iconv() from UTF-8: where it stops, and what it had put out until then  *)
decoded(bytes) ==
  LET n == Len(bytes)
      from[i \in 1..(n + 4)] ==
        IF i > n THEN [result |-> "done", text |-> <<>>]
        ELSE LET k == Following(bytes[i])
                 sequence == SubSeq(bytes, i, IF i + k <= n THEN i + k ELSE n)
                 legal == k # -1 /\ \A j \in 2..Len(sequence) : sequence[j] \in 128..191
             IN CASE ~legal -> [result |-> "EILSEQ", text |-> <<>>]
                  [] legal /\ Len(sequence) < k + 1 -> [result |-> "EINVAL", text |-> <<>>]
                  [] legal /\ Len(sequence) = k + 1 /\ CodePoint(sequence) < Lowest(k) ->
                       [result |-> "EILSEQ", text |-> <<>>]
                  [] OTHER ->
                       [from[i + k + 1] EXCEPT !.text = <<CodePoint(sequence)>> \o @]
  IN from[1]

(* A wide character in UTF-8                                               *)
Octets(c) ==
  IF c < 128 THEN <<c>>
  ELSE IF c < 2048 THEN <<192 + c \div 64, 128 + (c % 64)>>
  ELSE IF c < 65536
  THEN <<224 + c \div 4096, 128 + ((c \div 64) % 64), 128 + (c % 64)>>
  ELSE <<240 + c \div 262144, 128 + ((c \div 4096) % 64),
         128 + ((c \div 64) % 64), 128 + (c % 64)>>

(* iconv() to UTF-8, which can be done with whatever has been decoded      *)
encoded(wide) ==
  [result |-> IF \A i \in DOMAIN wide : wide[i] < 1114112 THEN "done" ELSE "EILSEQ",
   text |-> FlattenSeq([i \in DOMAIN wide |-> Octets(wide[i])])]

NoDescriptor == [to |-> "", from |-> ""]

iconv_open(to, from) ==
  IF {to, from} \subseteq Charsets THEN [to |-> to, from |-> from] ELSE NoDescriptor

iconv(convDesc, input) ==
  IF convDesc.to = KINE_INTERNAL_CHARSET THEN decoded(input) ELSE encoded(input)
-----------------------------------------------------------------------------
(* changeConvDesc(): the old descriptor is closed whatever becomes of the  *)
(* new one, so that an unknown character set leaves none.                  *)
changeConvDesc(to, from) ==
  LET opened == iconv_open(to, from)
  IN [convDesc |-> opened,
      error |-> IF opened = NoDescriptor THEN "UNKNOWN_CHARSET" ELSE "NO_ERROR"]

changeInputCharset(charset) == changeConvDesc(KINE_INTERNAL_CHARSET, charset)
changeOutputCharset(charset) == changeConvDesc(charset, KINE_INTERNAL_CHARSET)

(* How many characters of the output fill the buffer                       *)
perBuffer(convDesc) ==
  ICONV_BUFFER_SIZE \div (IF convDesc.to = KINE_INTERNAL_CHARSET THEN 4 ELSE 1)

(* convertChars(): a text is converted, or refused.  What is incomplete at *)
(* its end is refused, and only the buffers that had been full are kept.   *)
(* At an illegal sequence the buffer is emptied and iconv() called at the  *)
(* same place again, for ever.                                             *)
convertChars(convDesc, input) ==
  LET converted == iconv(convDesc, input)
      n == Len(converted.text)
      full == perBuffer(convDesc) * ((n - 1) \div perBuffer(convDesc))
  IN CASE convDesc = NoDescriptor -> [result |-> "refused", text |-> <<>>]
       [] convDesc # NoDescriptor /\ converted.result = "EINVAL" ->
            [result |-> "refused", text |-> SubSeq(converted.text, 1, full)]
       [] convDesc # NoDescriptor /\ converted.result = "EILSEQ" ->
            [result |-> "forever", text |-> <<>>]
       [] OTHER -> converted

(* Protocol::Input::localiseStr() and Protocol::Output::delocaliseStr():   *)
(* whether the text was refused is not asked, and what there is of it is   *)
(* taken.                                                                  *)
localiseStr(inputCharConvDesc, input) == convertChars(inputCharConvDesc, input).text
delocaliseStr(outputCharConvDesc, input) == convertChars(outputCharConvDesc, input).text
=============================================================================
