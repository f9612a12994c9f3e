-------------------------------- MODULE MCData --------------------------------
(***************************************************************************)
(* A small instance of Data: limbs of 7 bits and chunks of two digits,     *)
(* floats with 2 bits of fraction and 3 of exponent (multiples of 1/16     *)
(* below 16, subnormals and infinities among them), numbers on both sides  *)
(* of a limb and of a chunk.                                               *)
(***************************************************************************)
EXTENDS Data

RECURSIVE LimbsOf(_)
LimbsOf(n) == IF n = 0 THEN <<>> ELSE <<n % Base>> \o LimbsOf(n \div Base)
IntOf(n) == [limbs |-> LimbsOf(IF n < 0 THEN -n ELSE n), positive |-> n >= 0]

\* The shortest text of a float: as few digits as can be, and of those the
\* nearest; the program gets it from the C++ library.
Candidates == {<<c, e>> \in (1..99) \X (-2..0) : c % 10 # 0}
Hundredths(c) == c[1] * 10^(c[2] + 2)
NearestTo == [c \in Candidates |-> Nearest(Hundredths(c), 100)]
ReadAs(f) == {c \in Candidates : NearestTo[c] = f}
Fewest(reads) == {c \in reads : c[1] < 10 \/ \A d \in reads : d[1] >= 10}
Closest(f, few) == CHOOSE c \in few : \A d \in few : Distance(f, Hundredths(c), 100) <= Distance(f, Hundredths(d), 100)
AsDecimal(c) == Decimal(IntOf(c[1]), c[2])
ShortestTexts == [f \in {g \in FiniteFloats : FloatMultiple(g) # 0} |-> AsDecimal(Closest(f, Fewest(ReadAs(f))))]
MCShortest(f) == IF FloatMultiple(f) = 0 THEN Decimal(Zero, 0) ELSE ShortestTexts[f]

MCPointFrom == -2
MCQuoted == ("'a'" :> <<"a">>) @@ ("'b'" :> <<"b">>)

Many ==
  {Integer(IntOf(n)) : n \in {0, 1, -3, 100, 128, -16383}}
    \cup {Decimal(IntOf(5), -1), Decimal(IntOf(-125), -2), Decimal(IntOf(1), 0), Decimal(IntOf(1), 2)}
    \cup {Rational(IntOf(1), IntOf(2)), Rational(IntOf(-7), IntOf(3))}
    \cup {Float64(FALSE, 2, 0), Float64(FALSE, 3, 0), Float64(TRUE, 0, 0), Float64(FALSE, 7, 0), Float64(FALSE, 7, 1)}
    \cup {String(<<"a">>), Boolean(TRUE), List(<<>>)}
Few == {Integer(IntOf(1)), Decimal(IntOf(1), 0), Rational(IntOf(1), IntOf(2)), Integer(IntOf(-129)), String(<<"a">>)}
Rest == {Integer(IntOf(0)), Decimal(IntOf(1), 0), Decimal(IntOf(5), -1)}
MCOperands == <<Many, Many, Few, Rest>>
MCMaxValue == <<20000, 100, 100, 100>>
MCBinaries == {"+", "-", "*", "/", "%", "==", "<="}

Asked(style, n) == [style |-> style, n |-> n]
MCSpecs ==
  (<<"<", "5">> :> Asked("left", 5)) @@ (<<">", "1", "2">> :> Asked("right", 12)) @@ (<<"^", "6">> :> Asked("middle", 6))
    @@ (<<".", "0">> :> Asked("fixed", 0)) @@ (<<".", "1">> :> Asked("fixed", 1)) @@ (<<".", "2">> :> Asked("fixed", 2))
    @@ (<<"0", "6">> :> Asked("zeros", 6)) @@ (<<",">> :> Asked("commas", 0))
    @@ (<<".", "1", "3">> :> Asked("malformed", 0)) @@ (<<".", "-">> :> Asked("malformed", 0))

MCIdentifiers == {"a", "b", "f", "open", "pattern", "none", "true", "quote", "_", "err", "a.b"}
MCDotted == "a.b" :> <<"a", "b">>

\* What programs begin with, and the tokens they go on with.
MCBeginnings ==
  ("Operators" :> <<"a">>) @@ ("Brackets" :> <<>>) @@ ("Names" :> <<>>) @@ ("Patterns" :> <<"(">>)
    @@ ("Functions" :> <<"f", "(", "a", ")", "=">>) @@ ("Blocks" :> <<"f", "=", "(", "a", ")", "->", "{">>)
    @@ ("Statements" :> <<"f", "(", ")", "=", "{", "a">>)
    @@ ("Clauses" :> <<"open", "f", "(", "a", ")", "=", "(", "b", ")">>)
    @@ ("Joined" :> <<"open", "f", "(", "a", ")", "=", "1", "f", "(", "b", ")">>)
MCPrograms ==
  ("Operators" :> {"a", "+", "*", "==", "<", "-", "|>", "(", ")"})
    @@ ("Brackets" :> {"a", "(", ")", "[", "]", "{", "}", "->", ",", "..", ":"})
    @@ ("Names" :> {"open", "pattern", "none", "true", "quote", "_", "a.b", "(", ")", "1", "=", ";"})
    @@ ("Patterns" :> {"a", "_", "err", "(", ")", "[", "]", "{", "}", ",", "..", "->"})
    @@ ("Functions" :> {"a", "(", ")", "->", "{", "}", "|", "?", ";", "'s'", "\n", "="})
    @@ ("Blocks" :> {"a", "(", ")", "->", "{", "}", "\n", ","})
    @@ ("Statements" :> {"a", "(", ")", "=", "->", "}", ";", "\n", "open"})
    @@ ("Clauses" :> {"a", "b", "f", "->", "|", "?", "("})
    @@ ("Joined" :> {"a", "b", "f", "=", "->", "?", ";", "("})

MCAlphabets ==
  MCPrograms @@ ("Bytes" :> {0, 127, 128, 143, 144, 159, 160, 191, 193, 194, 223, 224, 225, 237, 239, 240, 243, 244, 245, 255})
    @@ ("Integers" :> {"0", "1", "_", "+", "-", " ", "a"})
    @@ ("Structure" :> {"[", "]", "{", "}", ",", ":", "'a'", "'b'", "null", "0", " "})
    @@ ("Numbers" :> {"-", "0", "1", "6", ".", "e", "+", "["})
    @@ ("Strings" :> {"\"", "\\", "u", "n", "0041", "001f", High, Low, "a", "\n", "bad", "sur", "[", "]"})
MCMaxText ==
  ("Bytes" :> 4) @@ ("Integers" :> 5) @@ ("Structure" :> 6) @@ ("Numbers" :> 5) @@ ("Strings" :> 5)
    @@ ("Operators" :> 5) @@ ("Brackets" :> 4) @@ ("Names" :> 3) @@ ("Patterns" :> 5)
    @@ ("Functions" :> 9) @@ ("Blocks" :> 11) @@ ("Statements" :> 10) @@ ("Clauses" :> 13) @@ ("Joined" :> 14)
=============================================================================
