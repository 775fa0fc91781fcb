----------------------------- MODULE IntegerText ----------------------------
(***************************************************************************)
(* An argument read as an unsigned integer: cxxopts's SplitInteger and     *)
(* integer_parser<uint32_t>.  A text that matches integer_pattern is a     *)
(* sign, a base and digits, the digit of a letter past F being NotADigit;  *)
(* a text that does not match has no digits.  A result is a set, {} where  *)
(* the code throws.                                                        *)
(***************************************************************************)
EXTENDS Integers, Sequences, SequencesExt

CONSTANT UintMax  \* numeric_limits<uint32_t>::max(): 2^32 - 1

ASSUME UintAssumption == UintMax \in Nat /\ UintMax >= 15

Uint(n) == n % (UintMax + 1)

NotADigit == 16

\* `truth` is what parse_value(bool&) makes of the text.
Text(negative, hex, digits, truth) ==
  [negative |-> negative, hex |-> hex, digits |-> digits, truth |-> truth]
Numeral(digits) == Text(FALSE, FALSE, digits, {})
NoNumeral == Text(FALSE, FALSE, <<>>, {})

Base(text) == IF text.hex THEN 16 ELSE 10

\* Slips: no check before the multiplication; one that is too strict; a negative
\* numeral loses its sign.
FitsAfterWrap(result, base, digit, limit) ==
  Uint(result * base) <= Uint(limit - digit)
FitsBelow(result, base, digit, limit) ==
  /\ result <= limit \div base
  /\ Uint(result * base) < Uint(limit - digit)
NonNegativeAssumed(text) == TRUE

\* The two checks of the loop, in unsigned arithmetic.  The limit of a negative
\* numeral is 0, from which a digit is subtracted with a wrap.
Fits(result, base, digit, limit) ==
  /\ result <= limit \div base
  /\ Uint(result * base) <= Uint(limit - digit)

\* checked_negate throws for an unsigned type, even for -0.
Representable(text) == ~text.negative

\* One turn of the loop over the digits.
ReadDigit(text, read, digit) ==
  LET limit == IF text.negative THEN 0 ELSE UintMax
  IN  IF /\ read.ok
         /\ digit < Base(text)
         /\ Fits(read.result, Base(text), digit, limit)
      THEN [read EXCEPT !.result = Uint(@ * Base(text) + digit)]
      ELSE [read EXCEPT !.ok = FALSE]

IntegerParser(text) ==
  LET read == FoldLeft(LAMBDA r, d : ReadDigit(text, r, d),
                       [ok |-> text.digits # <<>>, result |-> 0], text.digits)
  IN  IF read.ok /\ Representable(text) THEN {read.result} ELSE {}
=============================================================================
