----------------------------- MODULE Catalogue ------------------------------
(***************************************************************************)
(* What the language files amount to, without the numbers the daemon gives *)
(* to tags: for each language, the text of each tag.  A file is read line  *)
(* by line, and all of it is laid over one language at its end, or none of *)
(* it is when it is refused.  Nothing else changes a text, and a tag that  *)
(* has a text is never without one again.  Languages implements this.      *)
(***************************************************************************)
CONSTANTS
  Tags, Texts, NoText,
  Codes,
  DefaultCode,  \* the code that stands for the default language
  NoCode

VARIABLES
  texts,        \* the text of each tag in each language
  known,        \* the languages that exist
  default,      \* the default language: the first there was
  code,         \* of the file being read: its language,
  lines         \* and its texts so far

catalogueVars == <<texts, known, default, code, lines>>

Blank == [t \in Tags |-> NoText]

CatalogueInit ==
  /\ texts = [c \in Codes |-> Blank]
  /\ known = {}
  /\ default = NoCode
  /\ code = NoCode /\ lines = Blank

(* A line of the file names its language.                                  *)
Name(c) == code' = c /\ UNCHANGED <<texts, known, default, lines>>

(* A line of the file gives a tag its text, in place of an earlier line.   *)
Give(t, x) ==
  /\ lines' = [lines EXCEPT ![t] = x]
  /\ UNCHANGED <<texts, known, default, code>>

(* The language a file is for                                              *)
Target(c) == IF c = DefaultCode /\ c \notin known /\ default # NoCode THEN default ELSE c

(* The file has been read: what it says goes over what there was.          *)
Publish ==
  /\ known' = known \cup {Target(code)}
  /\ texts' = [texts EXCEPT ![Target(code)] =
       [t \in Tags |-> IF lines[t] # NoText THEN lines[t] ELSE @[t]]]
  /\ default' = IF default = NoCode THEN Target(code) ELSE default
  /\ code' = NoCode /\ lines' = Blank

(* The file is refused.                                                    *)
Discard ==
  /\ code' = NoCode /\ lines' = Blank
  /\ UNCHANGED <<texts, known, default>>

CatalogueNext ==
  \/ \E c \in Codes : Name(c)
  \/ \E t \in Tags, x \in Texts : Give(t, x)
  \/ Publish \/ Discard

CatalogueSpec == CatalogueInit /\ [][CatalogueNext]_catalogueVars
=============================================================================
