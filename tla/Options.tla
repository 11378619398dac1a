------------------------------ MODULE Options ------------------------------
(***************************************************************************)
(* stage1/options_parser.c: parse takes the text of /boot/options.txt one  *)
(* character at a time and hands each line to update_options.              *)
(*                                                                         *)
(* key and value are the arrays on the stack, NUL what ends a string in    *)
(* them; only their first cells are initialised.  A string is the sequence *)
(* of the characters before the NUL.  A write or a read past the end of an *)
(* array is the end of what can be said: parse_pc becomes "overrun".       *)
(***************************************************************************)
EXTENDS Word, Sequences, SequencesExt, FiniteSetsExt

CONSTANTS
  PARSER_KEY_MAX_LENGTH, PARSER_VALUE_MAX_LENGTH,    \* 64, 256
  BOOT_OPTIONS_BOOT_BINARY_KEY, BOOT_OPTIONS_LOAD_OFFSET_KEY,
  DIGITS,            \* the characters that are digits, with what they stand for
  JUNK,              \* what a cell may hold that was never written
  UNINITIALISED      \* the strings a boot_options_t may hold that was never written

NUL == "NUL"

ASSUME OptionsAssumption ==
  /\ PARSER_KEY_MAX_LENGTH \in Nat /\ PARSER_VALUE_MAX_LENGTH \in Nat
  /\ DIGITS \in [DOMAIN DIGITS -> 0 .. 15]
  /\ JUNK # {} /\ UNINITIALISED # {}

VARIABLES
  parse_pc,       \* "idle", "parsing", "done" or "overrun"
  text, i,        \* i of the characters are taken; characters and cells count from 1
  j, in_key,
  key, value,     \* the arrays
  boot_binary, load_offset,       \* *boot_options_out
  parse_result

parseVars ==
  <<parse_pc, text, i, j, in_key, key, value, boot_binary, load_offset, parse_result>>

KeyCells == 1 .. PARSER_KEY_MAX_LENGTH + 1
ValueCells == 1 .. PARSER_VALUE_MAX_LENGTH + 1
Unwritten == <<"unwritten">>
NoOffset == -1      \* load_offset was never written

ParserResults ==
  {"none", "PARSER_SUCCESS", "PARSER_UNRECOGNIZED_KEY", "PARSER_VALUE_TOO_LONG",
   "PARSER_SYNTAX_ERROR", "PARSER_MISSING_KEY"}

ParseInit ==
  /\ parse_pc = "idle"
  /\ text = <<>> /\ i = 0 /\ j = 0 /\ in_key = TRUE
  /\ key = [c \in KeyCells |-> NUL] /\ value = [c \in ValueCells |-> NUL]
  /\ boot_binary = Unwritten /\ load_offset = NoOffset
  /\ parse_result = "none"

\* the call; the arrays hold what was on the stack, but for their first cells
CallParse(t) ==
  /\ parse_pc' = "parsing"
  /\ text' = t
  /\ i' = 0 /\ j' = 0 /\ in_key' = TRUE
  /\ \E junk \in JUNK :
       /\ key' = [c \in KeyCells |-> IF c = 1 THEN NUL ELSE junk]
       /\ value' = [c \in ValueCells |-> IF c = 1 THEN NUL ELSE junk]
  /\ UNCHANGED <<boot_binary, load_offset, parse_result>>

-----------------------------------------------------------------------------
(* Strings, of string.c *)

Ends(array) == {c \in DOMAIN array : array[c] = NUL}
strlen(array) == Min(Ends(array)) - 1
String(array) == SubSeq(array, 1, strlen(array))

find_in_alphabet(c) == IF c \in DOMAIN DIGITS THEN DIGITS[c] ELSE -1

\* atoi: the number, and whether every character was a digit of the base; what has
\* been worked out before one that is not stays in *out
atoi(string, base) ==
  LET digits == Max({n \in 0 .. Len(string) :
                       \A k \in 1 .. n : find_in_alphabet(string[k]) \in 0 .. base - 1})
      out[n \in Nat] ==
        IF n = 0 THEN 0 ELSE (out[n - 1] * base + find_in_alphabet(string[n])) % UINT32
  IN  IF digits = Len(string) THEN [ok |-> TRUE, out |-> out[digits]]
      ELSE [ok |-> FALSE, out |-> (out[digits] * base) % UINT32]

IsHex(string) == Len(string) > 2 /\ string[1] = "0" /\ string[2] = "x"

load_offset_of(string) ==
  IF IsHex(string) THEN atoi(SubSeq(string, 3, Len(string)), 16) ELSE atoi(string, 10)

-----------------------------------------------------------------------------
(* parse *)

Parsing(c) == parse_pc = "parsing" /\ i < Len(text) /\ text[i + 1] = c

ParseReturns(result) ==
  /\ parse_pc' = "done"
  /\ parse_result' = result

Overrun ==
  /\ parse_pc' = "overrun"
  /\ UNCHANGED <<text, i, j, in_key, key, value, boot_binary, load_offset, parse_result>>

\* update_options, at the end of a line; its checks of the lengths cannot fail where
\* both strings end in their arrays
update_options(k, v) ==
  CASE k = BOOT_OPTIONS_BOOT_BINARY_KEY ->
         /\ boot_binary' = v
         /\ UNCHANGED load_offset
    [] k = BOOT_OPTIONS_LOAD_OFFSET_KEY ->
         /\ load_offset' = load_offset_of(v).out
         /\ UNCHANGED boot_binary
    [] OTHER -> UNCHANGED <<boot_binary, load_offset>>

ResultOf(k, v) ==
  CASE k = BOOT_OPTIONS_BOOT_BINARY_KEY -> "PARSER_SUCCESS"
    [] k = BOOT_OPTIONS_LOAD_OFFSET_KEY ->
         IF load_offset_of(v).ok THEN "PARSER_SUCCESS" ELSE "PARSER_SYNTAX_ERROR"
    [] OTHER -> "PARSER_UNRECOGNIZED_KEY"

EndOfLine == [value EXCEPT ![j + 1] = NUL]

NewlineOverrun ==
  /\ Parsing("\n")
  /\ j + 1 \notin ValueCells \/ Ends(key) = {}
  /\ Overrun

LineResult == ResultOf(String(key), String(EndOfLine))
TakeLine ==
  /\ Parsing("\n")
  /\ j + 1 \in ValueCells /\ Ends(key) # {}
  /\ value' = EndOfLine
  /\ update_options(String(key), String(EndOfLine))
  /\ UNCHANGED <<text, key>>

Newline_M ==
  /\ TakeLine
  /\ LineResult = "PARSER_SUCCESS"
  /\ i' = i + 1
  /\ in_key' = TRUE
  /\ UNCHANGED <<j, parse_pc, parse_result>>

Newline ==
  /\ TakeLine
  /\ LineResult = "PARSER_SUCCESS"
  /\ i' = i + 1
  /\ j' = 0
  /\ in_key' = TRUE
  /\ UNCHANGED <<parse_pc, parse_result>>

NewlineFails ==
  /\ TakeLine
  /\ LineResult # "PARSER_SUCCESS"
  /\ ParseReturns(LineResult)
  /\ UNCHANGED <<i, j, in_key>>

CarriageReturn ==
  /\ Parsing("\r")
  /\ i' = i + 1
  /\ UNCHANGED <<parse_pc, text, j, in_key, key, value, boot_binary, load_offset, parse_result>>

EqualsOverrun ==
  /\ Parsing("=")
  /\ j + 1 \notin KeyCells
  /\ Overrun

Equals_M ==
  /\ Parsing("=")
  /\ j + 1 \in KeyCells
  /\ key' = [key EXCEPT ![j + 1] = NUL]
  /\ i' = i + 1
  /\ in_key' = FALSE
  /\ UNCHANGED <<j, parse_pc, text, value, boot_binary, load_offset, parse_result>>

Equals ==
  /\ Parsing("=")
  /\ j + 1 \in KeyCells
  /\ key' = [key EXCEPT ![j + 1] = NUL]
  /\ i' = i + 1
  /\ j' = 0
  /\ in_key' = FALSE
  /\ UNCHANGED <<parse_pc, text, value, boot_binary, load_offset, parse_result>>

AtCharacter ==
  parse_pc = "parsing" /\ i < Len(text) /\ text[i + 1] \notin {"\n", "\r", "="}

KeyCharacter ==
  /\ AtCharacter
  /\ in_key
  /\ j <= PARSER_KEY_MAX_LENGTH
  /\ key' = [key EXCEPT ![j + 1] = text[i + 1]]
  /\ i' = i + 1
  /\ j' = j + 1
  /\ UNCHANGED <<parse_pc, text, in_key, value, boot_binary, load_offset, parse_result>>

ValueCharacter_M ==
  /\ AtCharacter
  /\ ~in_key
  /\ value' = [value EXCEPT ![j + 1] = text[i + 1]]
  /\ i' = i + 1
  /\ j' = j + 1
  /\ UNCHANGED <<parse_pc, text, in_key, key, boot_binary, load_offset, parse_result>>

ValueCharacter ==
  /\ AtCharacter
  /\ ~in_key
  /\ j <= PARSER_VALUE_MAX_LENGTH
  /\ value' = [value EXCEPT ![j + 1] = text[i + 1]]
  /\ i' = i + 1
  /\ j' = j + 1
  /\ UNCHANGED <<parse_pc, text, in_key, key, boot_binary, load_offset, parse_result>>

TooLong ==
  /\ AtCharacter
  /\ j > (IF in_key THEN PARSER_KEY_MAX_LENGTH ELSE PARSER_VALUE_MAX_LENGTH)
  /\ ParseReturns(IF in_key THEN "PARSER_UNRECOGNIZED_KEY" ELSE "PARSER_VALUE_TOO_LONG")
  /\ UNCHANGED <<text, i, j, in_key, key, value, boot_binary, load_offset>>

\* the text ends; boot_binary may never have been written
EndOfText ==
  /\ parse_pc = "parsing"
  /\ i = Len(text)
  /\ boot_binary' \in IF boot_binary = Unwritten THEN UNINITIALISED ELSE {boot_binary}
  /\ ParseReturns(IF boot_binary' = <<>> THEN "PARSER_MISSING_KEY" ELSE "PARSER_SUCCESS")
  /\ UNCHANGED <<text, i, j, in_key, key, value, load_offset>>

ParseNext ==
  \/ NewlineOverrun \/ Newline \/ NewlineFails
  \/ CarriageReturn
  \/ EqualsOverrun \/ Equals
  \/ KeyCharacter \/ ValueCharacter \/ TooLong
  \/ EndOfText

-----------------------------------------------------------------------------
(* What the text says, for the properties *)

\* the lines before each newline, without carriage returns, and what is behind the last
Newlines(t) == SetToSortSeq({n \in DOMAIN t : t[n] = "\n"}, <)
Line(t, first, last) == SelectSeq(SubSeq(t, first, last), LAMBDA c : c # "\r")
Lines(t) ==
  [k \in DOMAIN Newlines(t) |->
     Line(t, IF k = 1 THEN 1 ELSE Newlines(t)[k - 1] + 1, Newlines(t)[k] - 1)]
Rest(t) == Line(t, Max(ToSet(Newlines(t)) \cup {0}) + 1, Len(t))

\* key=value, both of a length there is room for
EqualsAt(line) == {n \in DOMAIN line : line[n] = "="}
KeyOf(line) == SubSeq(line, 1, Min(EqualsAt(line)) - 1)
ValueOf(line) == SubSeq(line, Min(EqualsAt(line)) + 1, Len(line))
IsPair(line) ==
  /\ Cardinality(EqualsAt(line)) = 1
  /\ Len(KeyOf(line)) <= PARSER_KEY_MAX_LENGTH
  /\ Len(ValueOf(line)) <= PARSER_VALUE_MAX_LENGTH
IsListOfPairs(t) ==
  /\ \A k \in DOMAIN Lines(t) : IsPair(Lines(t)[k])
  /\ Rest(t) # <<>> => IsPair(Rest(t))

\* a number in the base its prefix says
Numeral(v) == IF IsHex(v) THEN SubSeq(v, 3, Len(v)) ELSE v
BaseOf(v) == IF IsHex(v) THEN 16 ELSE 10
IsNumber(v) ==
  \A n \in DOMAIN Numeral(v) :
    Numeral(v)[n] \in DOMAIN DIGITS /\ DIGITS[Numeral(v)[n]] < BaseOf(v)
NumberOf(v) ==
  MapThenSumSet(LAMBDA n : DIGITS[Numeral(v)[n]] * BaseOf(v) ^ (Len(Numeral(v)) - n),
                DOMAIN Numeral(v)) % UINT32

\* the lines that give a key, and the first line that is an error
Giving(lines, k) == {n \in DOMAIN lines : KeyOf(lines[n]) = k}
LastValue(lines, k) == ValueOf(lines[Max(Giving(lines, k))])
LineError(line) ==
  CASE KeyOf(line) = BOOT_OPTIONS_BOOT_BINARY_KEY -> "none"
    [] KeyOf(line) = BOOT_OPTIONS_LOAD_OFFSET_KEY ->
         IF IsNumber(ValueOf(line)) THEN "none" ELSE "PARSER_SYNTAX_ERROR"
    [] OTHER -> "PARSER_UNRECOGNIZED_KEY"
Errors(lines) == {n \in DOMAIN lines : LineError(lines[n]) # "none"}

\* what lines of pairs ask for, and whether the answer and the options are that
AnswersTo(lines) ==
  IF Errors(lines) # {} THEN parse_result = LineError(lines[Min(Errors(lines))])
  ELSE /\ Giving(lines, BOOT_OPTIONS_BOOT_BINARY_KEY) # {} =>
            boot_binary = LastValue(lines, BOOT_OPTIONS_BOOT_BINARY_KEY)
       /\ Giving(lines, BOOT_OPTIONS_LOAD_OFFSET_KEY) # {} =>
            load_offset = NumberOf(LastValue(lines, BOOT_OPTIONS_LOAD_OFFSET_KEY))
       /\ parse_result = IF boot_binary = <<>> THEN "PARSER_MISSING_KEY" ELSE "PARSER_SUCCESS"

-----------------------------------------------------------------------------
(* Properties *)

ParseTypeOK ==
  /\ parse_pc \in {"idle", "parsing", "done", "overrun"}
  /\ i \in 0 .. Len(text)
  /\ j \in 0 .. Max({PARSER_KEY_MAX_LENGTH, PARSER_VALUE_MAX_LENGTH}) + 1
  /\ in_key \in BOOLEAN
  /\ DOMAIN key = KeyCells /\ DOMAIN value = ValueCells
  /\ load_offset = NoOffset \/ load_offset \in 0 .. UINT32 - 1
  /\ parse_result \in ParserResults
  /\ parse_pc = "done" <=> parse_result # "none"

\* From a list of pairs parse takes exactly what its lines say: the last value of each
\* key, or the error of the first line that has one, whatever lies in the buffers from
\* the lines before (options_parser.c:39-81).  Only lines that end in a newline count:
\* a last pair without one leaves no trace in the options or the answer, although readme.md
\* has the pairs separated by newlines.
ParsesLines ==
  parse_pc = "done" /\ IsListOfPairs(text) => AnswersTo(Lines(text))

\* No line that is a pair makes parse leave its two arrays: what overruns them is a line
\* with a key or a value of more characters than there is room for, or with none or
\* more than one "=" (options_parser.c:52, 61, 67, 70).
PairsStayInBuffers ==
  parse_pc = "overrun" =>
    LET lines == Append(Lines(text), Rest(text))
        taken == Len(Newlines(SubSeq(text, 1, i)))
    IN  \E k \in 1 .. taken + 1 : ~IsPair(lines[k])
=============================================================================
