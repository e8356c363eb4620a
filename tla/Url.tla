--------------------------------- MODULE Url ---------------------------------
(***************************************************************************)
(* Url decoding, str_urldecode (src/str.h:286-344): any two hexadecimal     *)
(* digits behind a "%" are a byte, in either case.                          *)
(***************************************************************************)
EXTENDS Str

CONSTANT Code  \* what the bytes from 0 to 255 are called, as characters

ASSUME CodeAssumption ==
  /\ Code \in [0..255 -> STRING]
  /\ \A m, n \in 0..255 : Code[m] = Code[n] => m = n
  /\ Code[9] = "tab" /\ Code[10] = "nl" /\ Code[32] = " " /\ Code[37] = "%"
  /\ Code[38] = "&" /\ Code[47] = "/" /\ Code[58] = ":" /\ Code[61] = "="
  /\ \A i \in 1..10 : Code[47 + i] = DigitsInOrder[i]
  /\ \A i \in 1..6 : Code[64 + i] = CapitalsInOrder[10 + i]
                    /\ Code[96 + i] = DigitsInOrder[10 + i]

(* What may not come as it is: control characters, and the bytes from 128,  *)
(* which are negative as a char is signed.                                  *)
Refused == { Code[n] : n \in 0..31 \cup 128..255 }

Escape(s) == s[1] = "%" /\ CharAt(s, 2) \in HexDigit /\ CharAt(s, 3) \in HexDigit

\* the byte an escape stands for
ByteOf(h, l) == Code[16 * HexValue(h) + HexValue(l)]

\* a turn of the loop: what is left, what is written, whether all could be
DecodeNext(d) ==
  IF ~d.ok \/ d.left = <<>> THEN d
  ELSE IF Escape(d.left)
    THEN [d EXCEPT !.left = Drop(@, 3), !.out = Append(@, ByteOf(d.left[2], d.left[3]))]
  ELSE IF d.left[1] \in Refused \cup { "%" } THEN [d EXCEPT !.ok = FALSE]
  ELSE [d EXCEPT !.left = Tail(@), !.out = Append(@, d.left[1])]

(* It works in place, and when it fails leaves what it has written in front *)
(* of what it has not: [ok, value].                                         *)
UrlDecode(s) ==
  LET after[n \in 0..Len(s)] ==
        IF n = 0 THEN [left |-> s, out |-> <<>>, ok |-> TRUE] ELSE DecodeNext(after[n - 1])
      end == after[Len(s)]
  IN  [ok    |-> end.ok,
       value |-> IF end.ok THEN end.out ELSE end.out \o Drop(s, Len(end.out))]
=============================================================================
