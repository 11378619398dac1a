----------------------------- MODULE ShortNames -----------------------------
(***************************************************************************)
(* How stage1/fat.c takes a path apart and what it makes of a name before  *)
(* it looks for it: upper case, the stem and the extension padded with     *)
(* spaces to their lengths, or no name at all.                             *)
(*                                                                         *)
(* A string is a sequence of characters, without the character that ends   *)
(* it in C.                                                                *)
(***************************************************************************)
EXTENDS Integers, Sequences, FiniteSetsExt

CONSTANTS
  FAT_MAX_LENGTH_SHORT_NAME,        \* 8
  FAT_MAX_LENGTH_SHORT_EXTENSION,   \* 3
  MAX_NAME_LEN,                     \* 255
  UPPER_CASE                        \* the upper-case letter of each lower-case one

ASSUME NameLengthsAssumption ==
  /\ FAT_MAX_LENGTH_SHORT_NAME \in Nat
  /\ FAT_MAX_LENGTH_SHORT_EXTENSION \in Nat
  /\ MAX_NAME_LEN \in Nat
  /\ MAX_NAME_LEN > FAT_MAX_LENGTH_SHORT_NAME + FAT_MAX_LENGTH_SHORT_EXTENSION + 1

toupper(c) == IF c \in DOMAIN UPPER_CASE THEN UPPER_CASE[c] ELSE c

Upper(string) == [i \in DOMAIN string |-> toupper(string[i])]

\* the index of the first character in cs, or one past the end
FirstOf(string, cs) ==
  Min({i \in DOMAIN string : string[i] \in cs} \cup {Len(string) + 1})

Padded(string, length) ==
  [i \in 1 .. length |-> IF i <= Len(string) THEN string[i] ELSE " "]

NoName == <<>>   \* the function returns false

StemLength(name) == Min({FirstOf(name, {"."}) - 1, FAT_MAX_LENGTH_SHORT_NAME})

\* what stands behind the dot, which may hold further dots
ExtensionOf(name) == SubSeq(name, StemLength(name) + 2, Len(name))

convert_to_83_filename(name) ==
  IF \/ StemLength(name) < Len(name) /\ name[StemLength(name) + 1] # "."
     \/ Len(ExtensionOf(name)) > FAT_MAX_LENGTH_SHORT_EXTENSION
  THEN NoName
  ELSE Padded(Upper(SubSeq(name, 1, StemLength(name))), FAT_MAX_LENGTH_SHORT_NAME)
         \o Padded(Upper(ExtensionOf(name)), FAT_MAX_LENGTH_SHORT_EXTENSION)

\* the segment at the start of a path, and the path behind it: the segment is
\* empty at the end, where no slash comes first, and between two slashes
get_next_segment(path) ==
  IF path = <<>> \/ Head(path) # "/"
  THEN [segment |-> <<>>, rest |-> path]
  ELSE LET n == Min({FirstOf(Tail(path), {"/"}) - 1, MAX_NAME_LEN})
       IN  [segment |-> SubSeq(Tail(path), 1, n), rest |-> SubSeq(Tail(path), n + 1, Len(path) - 1)]

-----------------------------------------------------------------------------
(* What the names mean, for the properties *)

\* an 8.3 name as a user writes it
Unpadded(string) ==
  SubSeq(string, 1, Max({i \in DOMAIN string : string[i] # " "} \cup {0}))
Written(name83) ==
  LET stem == Unpadded(SubSeq(name83, 1, FAT_MAX_LENGTH_SHORT_NAME))
      extension == Unpadded(SubSeq(name83, FAT_MAX_LENGTH_SHORT_NAME + 1, Len(name83)))
  IN  IF extension = <<>> THEN {stem, Append(stem, ".")}
      ELSE {stem \o <<".">> \o extension}

IsNamed(name83, name) == Upper(name) \in Written(name83)
=============================================================================
