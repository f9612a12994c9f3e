-------------------------------- MODULE Meanings --------------------------------
(***************************************************************************)
(* What the values of the program mean, written over TLA+ integers and     *)
(* independently of how the code computes them: a number is a kind and a   *)
(* reduced fraction, a map the sequence of its entries in the order they   *)
(* were put there.  The calculator below is what the program's arithmetic, *)
(* conversions and maps promise.                                           *)
(***************************************************************************)
EXTENDS Json

Unsupported == <<"Unsupported">>
NotANumber == <<"NaN">>
Numeral(kind, n, d) ==
  LET RECURSIVE Common(_, _)
      Common(a, b) == IF b = 0 THEN a ELSE Common(b, a % b)
      g == Common(IF n < 0 THEN -n ELSE n, d)
  IN  <<kind, n \div g, d \div g>>

ExactKinds == {"Integer", "Decimal", "Rational"}
IsNumeral(m) == m[1] \in ExactKinds \cup {"Float64"}

-----------------------------------------------------------------------------
\* From values to meanings.

MagnitudeOf(a) == MapThenSumSet(LAMBDA i : a.limbs[i] * Base^(i - 1), DOMAIN a.limbs)
IntegerOf(a) == IF a.positive THEN MagnitudeOf(a) ELSE -MagnitudeOf(a)

\* All finite floats are multiples of 2^-MinScale.
FloatMultiple(v) ==
  (IF v.negative THEN -1 ELSE 1) * (IF v.biased = 0 THEN v.fraction ELSE (Hidden + v.fraction) * 2^(v.biased - 1))

MeaningOfFloat(v) ==
  IF v.biased = MaxBiased
  THEN IF v.fraction # 0 THEN NotANumber ELSE <<"Infinity", v.negative>>
  ELSE Numeral("Float64", FloatMultiple(v), 2^MinScale)

RECURSIVE MeaningOf(_)
MeaningOf(v) ==
  CASE v.kind = "Integer"     -> Numeral("Integer", IntegerOf(v.integer), 1)
    [] v.kind = "Rational"    -> Numeral("Rational", IntegerOf(v.numerator), IntegerOf(v.denominator))
    [] v.kind = "Decimal"     -> IF v.exponent >= 0 THEN Numeral("Decimal", IntegerOf(v.coefficient) * 10^v.exponent, 1)
                                 ELSE Numeral("Decimal", IntegerOf(v.coefficient), 10^(-v.exponent))
    [] v.kind = "Float64"     -> MeaningOfFloat(v)
    [] v.kind = "Boolean"     -> <<"Boolean", v.boolean>>
    [] v.kind = "String"      -> <<"String", v.text>>
    [] v.kind = "Outcome"     -> IF v.case = "None" THEN <<"None", v.value>> ELSE <<"Some", MeaningOf(v.value)>>
    [] v.kind = "List"        -> <<"List", [i \in DOMAIN v.items |-> MeaningOf(v.items[i])]>>
    [] v.kind = "Map"         -> <<"Map", [i \in DOMAIN v.map.entries |->
                                     <<MeaningOf(v.map.entries[i].key), MeaningOf(v.map.entries[i].value)>>]>>
    [] v.kind = "Represented" -> <<"Represented", MeaningOf(v.value)>>

-----------------------------------------------------------------------------
\* Exact arithmetic.

Order(a, b) ==
  LET x == a[2] * b[3]
      y == b[2] * a[3]
  IN  IF x < y THEN "Less" ELSE IF x > y THEN "Greater" ELSE "Equal"

RECURSIVE WithoutFactor(_, _)
WithoutFactor(d, p) == IF d % p = 0 THEN WithoutFactor(d \div p, p) ELSE d
TerminatesInTen(d) == WithoutFactor(WithoutFactor(d, 2), 5) = 1

\* The kind of an exact result: a rational operand makes it rational, and a
\* rational that is whole is an integer; a decimal operand makes it decimal.
KindOf(op, a, b, d) ==
  LET fraction == IF d = 1 THEN "Integer" ELSE "Rational"
  IN  IF "Rational" \in {a[1], b[1]} THEN fraction
      ELSE IF "Decimal" \in {a[1], b[1]} THEN IF TerminatesInTen(d) THEN "Decimal" ELSE "Rational"
      ELSE IF op = "/" THEN fraction ELSE "Integer"

Promised(op, a, b) ==
  LET sign == IF b[2] < 0 THEN -1 ELSE 1
      floor == (sign * a[2] * b[3]) \div (sign * b[2] * a[3])
      result ==
        CASE op = "+" -> Numeral("", a[2] * b[3] + b[2] * a[3], a[3] * b[3])
          [] op = "-" -> Numeral("", a[2] * b[3] - b[2] * a[3], a[3] * b[3])
          [] op = "*" -> Numeral("", a[2] * b[2], a[3] * b[3])
          [] op = "/" -> Numeral("", sign * a[2] * b[3], sign * b[2] * a[3])
          [] op = "%" -> Numeral("", a[2] * b[3] - floor * b[2] * a[3], a[3] * b[3])
  IN  IF op \in {"/", "%"} /\ b[2] = 0 THEN Unsupported
      ELSE <<KindOf(op, a, b, result[3]), result[2], result[3]>>

-----------------------------------------------------------------------------
\* The nearest float.

FiniteFloats == {Float64(FALSE, e, f) : e \in 0..(MaxBiased - 1), f \in 0..(Hidden - 1)}
Largest == Float64(FALSE, MaxBiased - 1, Hidden - 1)
Distance(f, n, d) == LET x == FloatMultiple(f) * d - n * 2^MinScale IN IF x < 0 THEN -x ELSE x

\* Of the magnitude n / d; the even one of two that are as near.
Nearest(n, d) ==
  LET least == Min({Distance(f, n, d) : f \in FiniteFloats})
      nearest == {f \in FiniteFloats : Distance(f, n, d) = least}
  IN  CHOOSE f \in nearest : Cardinality(nearest) > 1 => f.fraction % 2 = 0
IsBeyond(n, d) == n * 2^MinScale > FloatMultiple(Largest) * d

AsFloat(m) ==
  LET magnitude == IF m[2] < 0 THEN -m[2] ELSE m[2]
      sign == IF m[2] < 0 THEN -1 ELSE 1
  IN  IF m[1] = "Float64" THEN m
      ELSE IF IsBeyond(magnitude, m[3]) THEN Unsupported
      ELSE Numeral("Float64", sign * FloatMultiple(Nearest(magnitude, m[3])), 2^MinScale)

AsExact(m) == IF m[1] = "Float64" THEN <<"Decimal", m[2], m[3]>> ELSE m

-----------------------------------------------------------------------------
\* Keys, and maps as sequences of entries.

\* Numbers are the same key when they are the same number.
SameKey(a, b) == IF IsNumeral(a) /\ IsNumeral(b) THEN <<a[2], a[3]>> = <<b[2], b[3]>> ELSE a = b
IsKey(m) == IsNumeral(m) \/ m[1] \in {"Infinity", "Boolean", "String"}
Placed(entries, key) == SelectInSeq(entries, LAMBDA entry : SameKey(entry[1], key))

WithEntry(entries, key, m) ==
  LET at == Placed(entries, key)
  IN  IF at = 0 THEN Append(entries, <<key, m>>) ELSE [entries EXCEPT ![at] = <<key, m>>]
WithoutEntry(entries, key) == SelectSeq(entries, LAMBDA entry : ~SameKey(entry[1], key))

PromisedPut(m, key, x) == IF IsKey(key) THEN <<"Map", WithEntry(m[2], key, x)>> ELSE Unsupported
PromisedRemove(m, key) == IF IsKey(key) THEN <<"Map", WithoutEntry(m[2], key)>> ELSE Unsupported
PromisedHas(m, key) == IF IsKey(key) THEN <<"Boolean", Placed(m[2], key) # 0>> ELSE Unsupported
PromisedGet(m, key) ==
  LET at == Placed(m[2], key)
  IN  IF ~IsKey(key) THEN Unsupported ELSE IF at = 0 THEN <<"None", "missing-key">> ELSE <<"Some", m[2][at][2]>>

-----------------------------------------------------------------------------
\* The order of all numbers, and what a binary expression promises.

EndOf(m) == IF m[1] = "Infinity" THEN IF m[2] THEN -1 ELSE 1 ELSE 0

Compared(a, b) ==
  CASE NotANumber \in {a, b}  -> "Unordered"
    [] EndOf(a) < EndOf(b)    -> "Less"
    [] EndOf(a) > EndOf(b)    -> "Greater"
    [] EndOf(a) # 0           -> "Equal"
    [] OTHER                  -> Order(a, b)

Comparable(m) == IsNumeral(m) \/ m[1] \in {"NaN", "Infinity"}

\* Equal values, not in the sense of the host's records: none is not equal to
\* itself, and maps do not care for the order of their entries.
RECURSIVE Same(_, _)
Same(a, b) ==
  CASE Comparable(a) /\ Comparable(b) -> Compared(a, b) = "Equal"
    [] a[1] # b[1] \/ a[1] \notin {"Boolean", "String", "List", "Map"} -> FALSE
    [] a[1] = "List" -> Len(a[2]) = Len(b[2]) /\ \A i \in DOMAIN a[2] : Same(a[2][i], b[2][i])
    [] a[1] = "Map" ->
         /\ Len(a[2]) = Len(b[2])
         /\ \A i \in DOMAIN a[2] : \E j \in DOMAIN b[2] :
              SameKey(a[2][i][1], b[2][j][1]) /\ Same(a[2][i][2], b[2][j][2])
    [] OTHER -> a = b

PromisedMinus(m) ==
  CASE IsNumeral(m)        -> <<m[1], -m[2], m[3]>>
    [] m[1] = "Infinity"   -> <<"Infinity", ~m[2]>>
    [] m[1] = "NaN"        -> m
    [] OTHER               -> Unsupported

PromisedBinary(op, a, b) ==
  CASE op \in {"==", "!="} -> <<"Boolean", Same(a, b) <=> op = "==">>
    [] op \in DOMAIN Orders /\ Comparable(a) /\ Comparable(b) -> <<"Boolean", Compared(a, b) \in Orders[op]>>
    [] op = "+" /\ a[1] = "String" /\ b[1] = "String" -> <<"String", a[2] \o b[2]>>
    [] op \in DOMAIN Orders -> Unsupported
    [] a[1] \in ExactKinds /\ b[1] \in ExactKinds -> Promised(op, a, b)
    [] (a[1] \in ExactKinds /\ Comparable(b)) \/ (Comparable(a) /\ b[1] \in ExactKinds) -> <<"None", "type-error">>
    [] OTHER -> Unsupported

-----------------------------------------------------------------------------
\* What a value looks like in a format.  A format is a style and a number.

Abs(n) == IF n < 0 THEN -n ELSE n
Dash(n) == IF n < 0 THEN <<"-">> ELSE <<>>

RECURSIVE Numerals(_, _)
Numerals(n, least) == IF n = 0 /\ least <= 0 THEN <<>> ELSE Numerals(n \div 10, least - 1) \o <<Digit[(n % 10) + 1]>>

\* Thousands and the rest behind the point.
RECURSIVE InThousands(_)
InThousands(n) == IF n < 1000 THEN Numerals(n, 1) ELSE InThousands(n \div 1000) \o <<",">> \o Numerals(n % 1000, 3)

\* The decimal places of a terminating fraction, and its order of magnitude.
Places(d) == CHOOSE k \in 0..9 : 10^k % d = 0 /\ \A j \in 0..(k - 1) : 10^j % d # 0
IsOfOrder(n, d, e) ==
  IF e >= 0 THEN 10^e * d <= n /\ n \div d < 10^(e + 1) ELSE d <= n * 10^(-e) /\ n * 10^(-e - 1) < d
OrderOfMagnitude(n, d) == IF n = 0 THEN 0 ELSE CHOOSE e \in -3..5 : IsOfOrder(n, d, e)

IsPlain(m) == m[1] = "Integer" \/ (m[1] = "Decimal" /\ OrderOfMagnitude(Abs(m[2]), m[3]) \in PointFrom..PointTo)

\* The digits behind the point, of which a decimal has at least one.
FractionOf(m) ==
  IF m[1] = "Integer" THEN <<>>
  ELSE LET k == Max({1, Places(m[3])}) IN <<".">> \o Numerals(((Abs(m[2]) * 10^k) \div m[3]) % 10^k, k)
PlainOf(m, whole) == whole \o FractionOf(m)

ScientificOf(m) ==
  LET e == OrderOfMagnitude(Abs(m[2]), m[3])
      mantissa == Numeral("Decimal", IF e < 0 THEN Abs(m[2]) * 10^(-e) ELSE Abs(m[2]), IF e < 0 THEN m[3] ELSE m[3] * 10^e)
  IN  PlainOf(mantissa, Numerals(mantissa[2] \div mantissa[3], 1)) \o <<"e", IF e < 0 THEN "-" ELSE "+">> \o Numerals(Abs(e), 1)

Displayed(m) ==
  CASE m[1] = "String"   -> m[2]
    [] m[1] = "Boolean"  -> IF m[2] THEN <<"t", "r", "u", "e">> ELSE <<"f", "a", "l", "s", "e">>
    [] m[1] = "Rational" -> Dash(m[2]) \o Numerals(Abs(m[2]), 1) \o <<"/">> \o Numerals(m[3], 1)
    [] IsPlain(m)        -> Dash(m[2]) \o PlainOf(m, Numerals(Abs(m[2]) \div m[3], 1))
    [] OTHER             -> Dash(m[2]) \o ScientificOf(m)

\* In the middle of width places, or a little to the left of it.
Shift(style, spare) == CASE style = "left" -> 0 [] style = "right" -> spare [] style = "middle" -> spare \div 2
Laid(text, width, style) ==
  LET Placing(shift) == [i \in 1..Max({width, Len(text)}) |-> IF i - shift \in DOMAIN text THEN text[i - shift] ELSE " "]
  IN  Placing(Shift(style, Max({0, width - Len(text)})))

\* Half away from zero; a negative number keeps its sign when it rounds to zero.
Fixed(m, precision) ==
  LET hundreds == (2 * Abs(m[2]) * 10^precision + m[3]) \div (2 * m[3])
  IN  Dash(m[2]) \o Numerals(hundreds \div 10^precision, 1)
        \o (IF precision = 0 THEN <<>> ELSE <<".">> \o Numerals(hundreds % 10^precision, precision))

PromisedText(m, style, n) ==
  LET Text(t) == <<"String", t>>
  IN  CASE style \in {"left", "right", "middle"} -> Text(Laid(Displayed(m), n, style))
        [] style = "fixed" /\ m[1] = "String" -> Text([i \in 1..Min({n, Len(m[2])}) |-> m[2][i]])
        [] style = "fixed" /\ IsNumeral(m) -> Text(Fixed(m, n))
        [] style = "zeros" /\ IsPlain(m) ->
             Text(Dash(m[2]) \o PlainOf(m, Numerals(Abs(m[2]) \div m[3], Max({1, n - Len(Dash(m[2]) \o FractionOf(m))}))))
        [] style = "commas" /\ IsPlain(m) -> Text(Dash(m[2]) \o PlainOf(m, InThousands(Abs(m[2]) \div m[3])))
        [] OTHER -> Unsupported
=============================================================================
