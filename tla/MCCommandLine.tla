--------------------------- MODULE MCCommandLine ----------------------------
(***************************************************************************)
(* Command lines of up to three arguments, and one number of up to three   *)
(* digits in every notation.  Unsigned numbers have eight bits: 25 and 15  *)
(* are the greatest results that another decimal or hexadecimal digit may  *)
(* follow.                                                                 *)
(***************************************************************************)
EXTENDS CommandLineProperties

Digits == {0, 1, 2, 5, 6, 15, NotADigit}

Texts ==
  {Text(negative, hex, digits, {}) :
     negative, hex \in BOOLEAN, digits \in BoundedSeq(Digits, 3)}

One == Text(FALSE, FALSE, <<1>>, {TRUE})
Three == Numeral(<<3>>)
MinusOne == Text(TRUE, FALSE, <<1>>, {})
MinusLetter == Text(TRUE, FALSE, <<NotADigit>>, {})

Tokens ==
  {Long("num-bears", {}), Long("party-capacity", {}), Long("help", {}),
   Long("num-bears", {Numeral(<<0>>)}), Long("party-capacity", {Numeral(<<0>>)}),
   Long("world-size", {Numeral(<<2>>)}), Long("world-size", {}),
   Long("help", {Three}), Long("help", {Text(FALSE, FALSE, <<NotADigit>>, {FALSE})}),
   Long("port", {One}),
   Group(<<"h">>, MinusLetter), Group(<<"h", "h">>, MinusLetter),
   Group(<<"1">>, MinusOne),
   Plain(One), Plain(Three), Plain(NoNumeral), Terminator, Malformed}

MCArguments ==
  {<<Long("party-capacity", {t})>> : t \in Texts} \union BoundedSeq(Tokens, 3)
=============================================================================
