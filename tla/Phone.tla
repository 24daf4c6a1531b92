------------------------------- MODULE Phone -------------------------------
(***************************************************************************)
(* NormalizePhoneNumber of whatsapp/phone.go, over sequences of            *)
(* characters.  Of the separators the code removes, a space stands for     *)
(* those that are white space and "-" for the others; "x" stands for every *)
(* other character.                                                        *)
(***************************************************************************)
EXTENDS Naturals, Sequences, SequencesExt, FiniteSetsExt

Digit == {"0", "1", "2", "3", "4", "5", "6", "7", "8", "9"}
Space == " "
Separators == {Space, "-"}

DefaultCountryCode == <<"6", "2">>

\* Also the CHECK of the table: ^[1-9][0-9]{6,14}$
PhoneNumberPattern(n) ==
  /\ Len(n) \in 7..15
  /\ n[1] # "0"
  /\ \A i \in DOMAIN n : n[i] \in Digit

\* strings.TrimSpace
TrimSpace(s) ==
  LET ink == {i \in DOMAIN s : s[i] # Space}
  IN  IF ink = {} THEN <<>> ELSE SubSeq(s, Min(ink), Max(ink))

TrimPrefix(s, prefix) == SubSeq(s, Len(prefix) + 1, Len(s))

\* What the loop has written after each character.
Digits(s) ==
  LET digits[i \in 0..Len(s)] ==
        IF i = 0 THEN <<>>
        ELSE IF s[i] \in Digit THEN Append(digits[i - 1], s[i]) ELSE digits[i - 1]
  IN  digits[Len(s)]

\* Mutation: the trunk zero is dropped before the access code is looked for.
ZeroFirst(n) ==
  CASE IsPrefix(<<"0">>, n) -> DefaultCountryCode \o TrimPrefix(n, <<"0">>)
    [] OTHER -> n

\* "00" is the dialled form of "+"; a single "0" is the national trunk prefix.
CountryCoded(n) ==
  CASE IsPrefix(<<"0", "0">>, n) -> TrimPrefix(n, <<"0", "0">>)
    [] IsPrefix(<<"0">>, n) /\ ~IsPrefix(<<"0", "0">>, n) -> DefaultCountryCode \o TrimPrefix(n, <<"0">>)
    [] OTHER -> n

Invalid == <<"invalid">>

\* A "+" counts as the first character only; anything that is neither a digit nor
\* a separator is refused rather than dropped.
NormalizePhoneNumber(raw) ==
  LET trimmed == TrimSpace(raw)
      international == IsPrefix(<<"+">>, trimmed)
      rest == IF international THEN TrimPrefix(trimmed, <<"+">>) ELSE trimmed
      number == IF international THEN Digits(rest) ELSE CountryCoded(Digits(rest))
  IN  IF /\ \A i \in DOMAIN rest : rest[i] \in Digit \union Separators
         /\ PhoneNumberPattern(number)
      THEN number ELSE Invalid
=============================================================================
