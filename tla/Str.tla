--------------------------------- MODULE Str ---------------------------------
(***************************************************************************)
(* The strings of src/str.h.  A str is a sequence of characters, and a      *)
(* character a string: a word that nothing looks into may stand for one.    *)
(* "nl", "tab" and "eos" are the line end, the tab and the 0 that           *)
(* str_char_at gives behind the end; positions count from 1.                *)
(***************************************************************************)
EXTENDS Naturals, Sequences, SequencesExt, FiniteSetsExt

Blank == { " ", "tab", "nl" }

Drop(s, n) == IF n > Len(s) THEN <<>> ELSE SubSeq(s, n + 1, Len(s))
Take(s, n) == IF n > Len(s) THEN s ELSE SubSeq(s, 1, n)

CharAt(s, i) == IF i \in DOMAIN s THEN s[i] ELSE "eos"

StartsWith(s, start) == Take(s, Len(start)) = start

(* The first position of such a character; 0, where the code has -1, when   *)
(* there is none.                                                           *)
FirstOf(s, Is(_)) ==
  IF \E i \in DOMAIN s : Is(s[i])
    THEN CHOOSE i \in DOMAIN s : Is(s[i]) /\ \A j \in 1..(i - 1) : ~Is(s[j])
    ELSE 0

IndexOf(s, c) == FirstOf(s, LAMBDA d : d = c)

(* str_splitat: without a separator everything is split off; an empty       *)
(* string is refused, which callers test.                                   *)
SplitAt(s, c) ==
  LET i == IndexOf(s, c) IN
  IF i = 0 THEN [split |-> s, rest |-> <<>>]
  ELSE [split |-> Take(s, i - 1), rest |-> Drop(s, i)]

(* What is left of a text after each of n splits.                           *)
Rests(text, c, n) ==
  LET rest[k \in 0..n] == IF k = 0 THEN text ELSE SplitAt(rest[k - 1], c).rest
  IN  rest

IsInk(c) == c \notin Blank

LTrim(s) == LET i == FirstOf(s, IsInk) IN IF i = 0 THEN <<>> ELSE Drop(s, i - 1)
RTrim(s) ==
  LET ink == { i \in DOMAIN s : IsInk(s[i]) } IN
  IF ink = {} THEN <<>> ELSE Take(s, Max(ink))
Trim(s)  == LTrim(RTrim(s))

-----------------------------------------------------------------------------
(* Numbers                                                                  *)

DigitsInOrder ==
  << "0", "1", "2", "3", "4", "5", "6", "7", "8", "9",
     "a", "b", "c", "d", "e", "f" >>
CapitalsInOrder ==
  << "0", "1", "2", "3", "4", "5", "6", "7", "8", "9",
     "A", "B", "C", "D", "E", "F" >>
HexValue(c) == (CHOOSE i \in 1..16 : c \in { DigitsInOrder[i], CapitalsInOrder[i] }) - 1
HexDigit == ToSet(DigitsInOrder) \cup ToSet(CapitalsInOrder)
Digit    == { c \in HexDigit : HexValue(c) < 10 }

(* str_to_long, for strings of digits; a long is wide enough for those the  *)
(* model has.                                                               *)
IsLong(s) == s # <<>> /\ ToSet(s) \subseteq Digit
ToLong(s) ==
  LET upTo[n \in 0..Len(s)] == IF n = 0 THEN 0 ELSE 10 * upTo[n - 1] + HexValue(s[n])
  IN  upTo[Len(s)]
=============================================================================
