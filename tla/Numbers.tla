------------------------------- MODULE Numbers -------------------------------
(***************************************************************************)
(* The exact numbers of the language: integers, decimals, coefficient *    *)
(* 10^exponent, and rationals, with their canonical forms and arithmetic.  *)
(***************************************************************************)
EXTENDS Bignum

Integer(n) == [kind |-> "Integer", integer |-> n]
Decimal(c, e) == [kind |-> "Decimal", coefficient |-> c, exponent |-> e]
Rational(n, d) == [kind |-> "Rational", numerator |-> n, denominator |-> d]

IsExact(v) == v.kind \in {"Integer", "Decimal", "Rational"}

RECURSIVE MulPower(_, _, _)
MulPower(a, factor, n) == IF n <= 0 THEN a ELSE Mul(MulPower(a, factor, n - 1), factor)

\* How often a divisor goes into a number, and what it leaves.
RECURSIVE DivideOut(_, _)
DivideOut(a, divisor) ==
  LET divided == ExactDivide(a, divisor)
  IN  IF HasValue(divided) THEN [DivideOut(The(divided), divisor) EXCEPT !.times = @ + 1] ELSE [rest |-> a, times |-> 0]

\* Without trailing zeros; zero has exponent zero.
CanonicalDecimal(coefficient, exponent) ==
  IF IsZero(coefficient) THEN Decimal(Zero, 0)
  ELSE LET out == DivideOut(coefficient, Ten) IN Decimal(out.rest, exponent + out.times)

-----------------------------------------------------------------------------
\* The exact family as fractions with a positive denominator.

Over(n, d) == [num |-> n, den |-> d]

Fraction(v) ==
  CASE v.kind = "Integer"  -> Over(v.integer, One)
    [] v.kind = "Rational" -> Over(v.numerator, v.denominator)
    [] v.kind = "Decimal"  -> Over(MulPower(v.coefficient, Ten, v.exponent), MulPower(One, Ten, -v.exponent))

PositiveDenominator(n, d) == IF d.positive THEN Over(n, d) ELSE Over(Negate(n), Negate(d))
DividedBy(divisor, n, d) == PositiveDenominator(The(ExactDivide(n, divisor)), The(ExactDivide(d, divisor)))
ReduceFraction(n, d) == DividedBy(Gcd(n, d), n, d)

Simplest(reduced) == IF reduced.den = One THEN Integer(reduced.num) ELSE Rational(reduced.num, reduced.den)
ConstructRational(n, d) == IF IsZero(d) THEN Nothing ELSE Just(Simplest(ReduceFraction(n, d)))

Two == FromU64(2)
Five == FromU64(5)

\* No prime factor but 2 and 5.
Terminates(denominator) == DivideOut(DivideOut(denominator, Two).rest, Five).rest = One

DecimalFromTerminating(n, denominator) ==
  LET twos == DivideOut(denominator, Two).times
      fives == DivideOut(denominator, Five).times
  IN  CanonicalDecimal(MulPower(MulPower(n, Two, fives), Five, twos), -(twos + fives))

\* An integer is a decimal with exponent zero.
CommonForm(v) == IF v.kind = "Integer" THEN Decimal(v.integer, 0) ELSE v

AddOrSub(a, b, subtract) == IF subtract THEN Sub(a, b) ELSE Add(a, b)

DecimalAddSub(a, b, subtract) ==
  LET x == CommonForm(a)
      y == CommonForm(b)
      e == Min({x.exponent, y.exponent})
  IN  CanonicalDecimal(AddOrSub(MulPower(x.coefficient, Ten, x.exponent - e),
                                MulPower(y.coefficient, Ten, y.exponent - e), subtract), e)

DecimalMul(a, b) ==
  LET x == CommonForm(a)
      y == CommonForm(b)
  IN  CanonicalDecimal(Mul(x.coefficient, y.coefficient), x.exponent + y.exponent)

RationalAddSub(a, b, subtract) ==
  LET x == Fraction(a)
      y == Fraction(b)
  IN  ConstructRational(AddOrSub(Mul(x.num, y.den), Mul(y.num, x.den), subtract), Mul(x.den, y.den))

RationalMul(a, b) ==
  LET x == Fraction(a)
      y == Fraction(b)
  IN  ConstructRational(Mul(x.num, y.num), Mul(x.den, y.den))

\* Which member of the family a result belongs to.
AnyRational(a, b) == "Rational" \in {a.kind, b.kind}
BothInteger(a, b) == a.kind = "Integer" /\ b.kind = "Integer"

AddSub(a, b, subtract) ==
  CASE BothInteger(a, b) -> Just(Integer(AddOrSub(a.integer, b.integer, subtract)))
    [] AnyRational(a, b) -> RationalAddSub(a, b, subtract)
    [] OTHER             -> Just(DecimalAddSub(a, b, subtract))

Times(a, b) ==
  CASE BothInteger(a, b) -> Just(Integer(Mul(a.integer, b.integer)))
    [] AnyRational(a, b) -> RationalMul(a, b)
    [] OTHER             -> Just(DecimalMul(a, b))

\* Decimals stay decimal while the quotient terminates.
Quotient(q, rational) ==
  IF rational \/ ~Terminates(q.den) THEN ConstructRational(q.num, q.den) ELSE Just(DecimalFromTerminating(q.num, q.den))
Divide(a, b) ==
  LET x == Fraction(a)
      y == Fraction(b)
  IN  IF IsZero(y.num) THEN Nothing
      ELSE Quotient(ReduceFraction(Mul(x.num, y.den), Mul(y.num, x.den)), AnyRational(a, b) \/ BothInteger(a, b))

\* a - floor(a / b) * b.
FlooredQuotient(n, d) == The(ExactDivide(Sub(n, The(FloorRemainder(n, d))), d))
Remainder(a, b) ==
  LET x == Fraction(a)
      y == Fraction(b)
      From(n, d, den) == ReduceFraction(Sub(n, Mul(FlooredQuotient(n, d), d)), den)
      InFamily(r) ==
        CASE AnyRational(a, b) -> ConstructRational(r.num, r.den)
          [] BothInteger(a, b) -> Just(Integer(r.num))
          [] OTHER             -> Just(DecimalFromTerminating(r.num, r.den))
  IN  IF IsZero(y.num) THEN Nothing
      ELSE InFamily(From(Mul(x.num, y.den), Mul(y.num, x.den), Mul(x.den, y.den)))

\* A binary expression over the exact family; the two domains do not mix.
Arithmetic(op, a, b) ==
  CASE op \in {"+", "-"} -> AddSub(a, b, op = "-")
    [] op = "*" -> Times(a, b)
    [] op = "/" -> Divide(a, b)
    [] op = "%" -> Remainder(a, b)
=============================================================================
