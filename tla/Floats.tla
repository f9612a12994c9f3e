-------------------------------- MODULE Floats --------------------------------
(***************************************************************************)
(* Binary floats beside the exact numbers: the conversions between the two *)
(* domains, the order of all numbers, their identity as map keys, and the  *)
(* decimal texts of numbers.                                               *)
(*                                                                         *)
(* A float has a sign, a biased exponent of ExponentBits and a fraction of *)
(* FractionBits: 11 and 52 in the code.                                    *)
(***************************************************************************)
EXTENDS Numbers, SequencesExt

CONSTANTS
  FractionBits, ExponentBits,
  PointFrom, PointTo     \* decimals are written without an exponent from 10^PointFrom to 10^PointTo

ASSUME FloatAssumption ==
  /\ FractionBits \in Nat \ {0} /\ ExponentBits \in Nat \ {0, 1}
  /\ PointFrom \in Int /\ PointTo \in Int

Float64(negative, biased, fraction) ==
  [kind |-> "Float64", negative |-> negative, biased |-> biased, fraction |-> fraction]
IsFloat(v) == v.kind = "Float64"
IsNumeric(v) == IsExact(v) \/ IsFloat(v)

Hidden == 2^FractionBits               \* the leading bit of a normal significand
MaxBiased == 2^ExponentBits - 1        \* infinities and NaN
Bias == 2^(ExponentBits - 1) - 1
MinScale == Bias - 1 + FractionBits    \* the last bit of a subnormal is 2^-MinScale

IsNaN(v) == IsFloat(v) /\ v.biased = MaxBiased /\ v.fraction # 0
IsInfinite(v) == IsFloat(v) /\ v.biased = MaxBiased /\ v.fraction = 0

\* The last bit of a float weighs 2^LastBit.
Significand(v) == FromU64(IF v.biased = 0 THEN v.fraction ELSE Hidden + v.fraction)
LastBit(v) == IF v.biased = 0 THEN -MinScale ELSE v.biased - Bias - FractionBits
Signed(negative, a) == IF negative THEN Negate(a) ELSE a

\* The fraction a number stands for, whatever its domain.
Ratio(v) ==
  IF ~IsFloat(v) THEN Fraction(v)
  ELSE IF IsZero(Significand(v)) THEN Over(Zero, One)
  ELSE Over(Signed(v.negative, ShiftLeft(Significand(v), Max({0, LastBit(v)}))), ShiftLeft(One, Max({0, -LastBit(v)})))

-----------------------------------------------------------------------------
\* Rounding to the nearest float, to an even fraction when two are as near.

LargestFinite == ShiftLeft(FromU64(2 * Hidden - 1), Bias - FractionBits)

\* A fraction times a power of two.
Scaled(n, d, scale) == Over(ShiftLeft(n, Max({0, scale})), ShiftLeft(d, Max({0, -scale})))
IsBelow(fraction) == Compare(fraction.num, fraction.den) < 0

FloorLog2(n, d) ==
  LET From(e) == IF IsBelow(Scaled(n, d, -e)) THEN e - 1 ELSE e
  IN  From(BitLength(n) - BitLength(d))

Rounded(q, half) == IF half > 0 \/ (half = 0 /\ q % 2 = 1) THEN q + 1 ELSE q
RoundHalfEven(fraction) ==
  LET Of(division) == Rounded(The(ToU64(division.quotient)), Compare(ShiftLeft(division.remainder, 1), fraction.den))
  IN  Of(DivMod(fraction.num, fraction.den))

\* A significand that rounds up to the next power of two moves the exponent.
Encode64(negative, exponent, q) ==
  IF exponent < 1 - Bias
  THEN IF q >= Hidden THEN Float64(negative, 1, 0) ELSE Float64(negative, 0, q)
  ELSE IF q = 2 * Hidden THEN Float64(negative, exponent + 1 + Bias, 0)
  ELSE Float64(negative, exponent + Bias, q - Hidden)

\* Refused by exact magnitude, even where it would round to a finite float.
FractionToBinary64(n, d) ==
  LET Scale(exponent) == IF exponent >= 1 - Bias THEN FractionBits - exponent ELSE MinScale
      With(exponent) == Encode64(~n.positive, exponent, RoundHalfEven(Scaled(Absolute(n), d, Scale(exponent))))
  IN  IF IsZero(n) THEN Just(Float64(FALSE, 0, 0))
      ELSE IF Compare(Absolute(n), Mul(d, LargestFinite)) > 0 THEN Nothing
      ELSE Just(With(FloorLog2(Absolute(n), d)))

FromExact(v) ==
  IF IsFloat(v) THEN Just(v) ELSE FractionToBinary64(Fraction(v).num, Fraction(v).den)

\* Two to the minus k is five to the k at the k-th decimal place.
ToExact(v) ==
  LET last == LastBit(v)
      coefficient == IF last >= 0 THEN ShiftLeft(Significand(v), last) ELSE MulPower(Significand(v), Five, -last)
  IN  IF ~IsFloat(v) THEN Just(v)
      ELSE IF v.biased = MaxBiased THEN Nothing
      ELSE Just(CanonicalDecimal(Signed(v.negative, coefficient), Min({0, last})))

-----------------------------------------------------------------------------
\* One order and one identity for all numbers.

\* "Unordered" when a number is a NaN.
NumericCompare(a, b) ==
  LET Named(order) == IF order < 0 THEN "Less" ELSE IF order > 0 THEN "Greater" ELSE "Equal"
      Cross(x, y) == Compare(Mul(x.num, y.den), Mul(y.num, x.den))
  IN  CASE IsNaN(a) \/ IsNaN(b) -> "Unordered"
        [] IsInfinite(a) /\ a = b -> "Equal"
        [] IsInfinite(a) -> IF a.negative THEN "Less" ELSE "Greater"
        [] IsInfinite(b) -> IF b.negative THEN "Greater" ELSE "Less"
        [] OTHER -> Named(Cross(Ratio(a), Ratio(b)))

\* The reduced fraction, in digits; a NaN is no key.
NumericKey(v) ==
  LET Written(x) == <<"N", ToDecimalString(x.num), ToDecimalString(x.den)>>
  IN  IF IsNaN(v) THEN Nothing
      ELSE IF IsInfinite(v) THEN Just(IF v.negative THEN <<"N-inf">> ELSE <<"N+inf">>)
      ELSE Just(Written(ReduceFraction(Ratio(v).num, Ratio(v).den)))

-----------------------------------------------------------------------------
\* Decimal texts.

Repeat(c, n) == [i \in 1..n |-> c]

\* Digits with a point behind the first n, which may be before or behind all of them.
Pointed(digits, n) ==
  CASE n <= 0           -> <<"0", ".">> \o Repeat("0", -n) \o digits
    [] n >= Len(digits) -> digits \o Repeat("0", n - Len(digits)) \o <<".", "0">>
    [] OTHER            -> SubSeq(digits, 1, n) \o <<".">> \o SubSeq(digits, n + 1, Len(digits))

Scientific(digits, adjusted) ==
  Pointed(digits, 1) \o <<"e", IF adjusted >= 0 THEN "+" ELSE "-">>
    \o ToDecimalString(FromU64(IF adjusted >= 0 THEN adjusted ELSE -adjusted))

RenderDecimal(v) ==
  LET Rendered(digits, point) ==
        IF point - 1 \in PointFrom..PointTo THEN Pointed(digits, point) ELSE Scientific(digits, point - 1)
      Of(digits) == Rendered(digits, Len(digits) + v.exponent)
  IN  (IF v.coefficient.positive THEN <<>> ELSE <<"-">>) \o Of(ToDecimalString(Absolute(v.coefficient)))

\* A fixed number of decimals, half away from zero.
PrecisionText(v, precision) ==
  LET x == Ratio(v)
      HalfAway(scaled) ==
        IF Compare(ShiftLeft(scaled.remainder, 1), x.den) >= 0 THEN Add(scaled.quotient, One) ELSE scaled.quotient
      Led(plain) == Repeat("0", precision + 1 - Len(plain)) \o plain
      Split(digits, n) == SubSeq(digits, 1, n) \o (IF precision = 0 THEN <<>> ELSE <<".">>) \o SubSeq(digits, n + 1, Len(digits))
      Text(digits) == (IF x.num.positive THEN <<>> ELSE <<"-">>) \o Split(digits, Len(digits) - precision)
  IN  Text(Led(ToDecimalString(HalfAway(DivMod(MulPower(Absolute(x.num), Ten, precision), x.den)))))
=============================================================================
