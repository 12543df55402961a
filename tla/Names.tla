-------------------------------- MODULE Names -------------------------------
(***************************************************************************)
(* What is a name: the folding of src/lib/name.cpp, the checks of nicknames*)
(* (client.cpp), servers (server.cpp) and networks (network.cpp), and the  *)
(* check of NETWORKNAME in the configuration (config/handlers.cpp).        *)
(*                                                                         *)
(* A name is a sequence of characters, a character its number.  The code   *)
(* asks the C library about characters of any width, which is defined up to*)
(* 255 only; what it says beyond is a parameter.                           *)
(***************************************************************************)
EXTENDS Integers, Sequences

CONSTANT
  WideLetters   \* characters beyond 255 that isalnum() takes for letters

ASSUME NamesAssumption == WideLetters \subseteq Nat \ (0..255)

HYPHEN == 45   DOT == 46

isdigit(c) == c \in 48..57
isalpha(c) == c \in 65..90 \/ c \in 97..122
isalnum(c) == isalpha(c) \/ isdigit(c) \/ c \in WideLetters
iscntrl(c) == c \in 0..31 \/ c = 127
isspace(c) == c \in 9..13 \/ c = 32

(* Brackets, bars and the accents that were letters in Scandinavia.  The   *)
(* tilde is not one, though a circumflex is folded into it.                *)
isSpecialChar(c) == c \in 91..96 \/ c \in 123..125

(* One bit is looked at, where what is meant is any character beyond 127.  *)
SevenBits(c) == (c \div 128) % 2 = 0

(* Client::Name::checkValidity().  The empty name passes.                  *)
nicknameError(name, maxLength) ==
  CASE Len(name) > maxLength -> "NAME_TOO_LONG"
    [] Len(name) \in 1..maxLength /\ (isdigit(name[1]) \/ name[1] = HYPHEN) ->
         "NICKNAME_BEGINS_WITH_DIGIT"
    [] OTHER ->
         IF \A i \in DOMAIN name : \/ ~SevenBits(name[i]) \/ isalnum(name[i])
                                   \/ isSpecialChar(name[i]) \/ name[i] = HYPHEN
         THEN "NO_ERROR" ELSE "NAME_HAS_BAD_CHARS"
-----------------------------------------------------------------------------
(* How much of the label of character i there is up to it                  *)
LabelLength(name, i) ==
  i - (CHOOSE j \in 0..i : /\ j = 0 \/ name[j] = DOT
                           /\ \A k \in (j + 1)..i : name[k] # DOT)

(* What is wrong with character i of a host name                           *)
hostNameError(name, i) ==
  LET c == name[i]
  IN IF c = DOT
     THEN CASE i = 1 -> "SERVER_NAME_HAS_DOT_DOT"
            [] i > 1 /\ name[i - 1] = DOT -> "SERVER_NAME_HAS_DOT_DOT"
            [] i > 1 /\ name[i - 1] = HYPHEN -> "NAME_HAS_BAD_CHARS"
            [] OTHER -> "NO_ERROR"
     ELSE CASE LabelLength(name, i) > 63 -> "NAME_TOO_LONG"
            [] LabelLength(name, i) = 1 /\ isalpha(c) -> "NO_ERROR"
            [] LabelLength(name, i) \in 2..63 /\ (isalnum(c) \/ c = HYPHEN) -> "NO_ERROR"
            [] OTHER -> "NAME_HAS_BAD_CHARS"

(* Server::Name::checkValidity(): the first thing that is wrong.  The last *)
(* label may be empty, or end with a hyphen.                               *)
serverNameError(name) ==
  LET wrong == {i \in DOMAIN name : hostNameError(name, i) # "NO_ERROR"}
  IN CASE Len(name) > 255 -> "NAME_TOO_LONG"
       [] Len(name) <= 255 /\ wrong # {} ->
            hostNameError(name, CHOOSE i \in wrong : \A j \in wrong : i <= j)
       [] Len(name) <= 255 /\ wrong = {} ->
            IF \E i \in DOMAIN name : name[i] = DOT THEN "NO_ERROR"
            ELSE "SERVER_NAME_HAS_NO_DOT"

(* Network::Name::checkValidity() looks for the characters of a string that*)
(* begins with its own end, so that it finds none.                         *)
networkNameError(name) == "NO_ERROR"

(* varHandleNetworkName() keeps out of ISUPPORT what would break it.  An   *)
(* empty name turns the network's name off.                                *)
networkNameAccepted(name) ==
  \A i \in DOMAIN name : name[i] \notin {44, 61} /\ ~isspace(name[i]) /\ ~iscntrl(name[i])
-----------------------------------------------------------------------------
irctolower(c) ==
  CASE c = 91 -> 123
    [] c = 93 -> 125
    [] c = 92 -> 124
    [] c = 94 -> 126
    [] c \in 65..90 -> c + 32
    [] OTHER -> c

(* Name::IRCtoLower()                                                      *)
folded(name) == [i \in DOMAIN name |-> irctolower(name[i])]
=============================================================================
