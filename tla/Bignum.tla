------------------------------- MODULE Bignum -------------------------------
(***************************************************************************)
(* Integers of any size: a sign and a sequence of limbs, the least         *)
(* significant first, without leading zero limbs; zero has no limb and is  *)
(* positive.  LimbBits is 32 and ChunkDigits 9 in the code, where a limb   *)
(* times a limb plus two limbs is still below 2^64: no step of a ripple    *)
(* overflows.  Results the code may not have are sequences of at most one  *)
(* element.  TLA+ integers appear as limbs, small operands and counts.     *)
(***************************************************************************)
EXTENDS Integers, Sequences, FiniteSetsExt

CONSTANTS LimbBits, ChunkDigits
ASSUME BignumAssumption ==
  /\ LimbBits \in Nat \ {0} /\ ChunkDigits \in Nat \ {0}
  /\ 10^ChunkDigits < 2^LimbBits

Base == 2^LimbBits
Chunk == 10^ChunkDigits

Nothing == <<>>
Just(x) == <<x>>
HasValue(option) == option # Nothing
The(option) == Head(option)

RECURSIVE WithoutLeadingZeros(_)
WithoutLeadingZeros(limbs) ==
  IF limbs = <<>> \/ limbs[Len(limbs)] # 0 THEN limbs ELSE WithoutLeadingZeros(SubSeq(limbs, 1, Len(limbs) - 1))

WithSign(limbs, positive) == [limbs |-> limbs, positive |-> limbs = <<>> \/ positive]
Normalize(limbs, positive) == WithSign(WithoutLeadingZeros(limbs), positive)

Zero == [limbs |-> <<>>, positive |-> TRUE]
IsZero(a) == a.limbs = <<>>
Limb(a, i) == IF i <= Len(a.limbs) THEN a.limbs[i] ELSE 0
Size(a) == Len(a.limbs)

FromU64(n) == Normalize(<<n % Base, n \div Base>>, TRUE)
One == FromU64(1)
Ten == FromU64(10)

\* A limb per term, the rest of it carried on; a negative rest is a borrow.
Ripple(terms) ==
  LET RECURSIVE From(_, _)
      From(i, carry) ==
        IF i > Len(terms) THEN <<>>
        ELSE <<(terms[i] + carry) % Base>> \o From(i + 1, (terms[i] + carry) \div Base)
  IN  From(1, 0)

Absolute(a) == [a EXCEPT !.positive = TRUE]
Negate(a) == [a EXCEPT !.positive = IsZero(a) \/ ~a.positive]

OrderOf(m, n) == IF m < n THEN -1 ELSE IF m > n THEN 1 ELSE 0

\* From the top limb down to the first that differs.
RECURSIVE CompareFrom(_, _, _)
CompareFrom(a, b, i) ==
  IF i = 0 THEN 0
  ELSE IF Limb(a, i) # Limb(b, i) THEN OrderOf(Limb(a, i), Limb(b, i)) ELSE CompareFrom(a, b, i - 1)

CompareMagnitude(a, b) == IF Size(a) # Size(b) THEN OrderOf(Size(a), Size(b)) ELSE CompareFrom(a, b, Size(a))

Compare(a, b) ==
  IF a.positive # b.positive
  THEN IF a.positive THEN 1 ELSE -1
  ELSE IF a.positive THEN CompareMagnitude(a, b) ELSE -CompareMagnitude(a, b)

AddMagnitude(a, b) ==
  Normalize(Ripple([i \in 1..(Max({Size(a), Size(b)}) + 1) |-> Limb(a, i) + Limb(b, i)]), TRUE)

\* Needs |a| >= |b|.
SubMagnitude(a, b) == Normalize(Ripple([i \in 1..Size(a) |-> Limb(a, i) - Limb(b, i)]), TRUE)

Add(a, b) ==
  IF a.positive = b.positive THEN WithSign(AddMagnitude(a, b).limbs, a.positive)
  ELSE IF CompareMagnitude(a, b) >= 0
  THEN WithSign(SubMagnitude(a, b).limbs, a.positive)
  ELSE WithSign(SubMagnitude(b, a).limbs, b.positive)

Sub(a, b) == Add(a, Negate(b))

\* Row i adds limb i of a times b to the rows before it.
Mul(a, b) ==
  LET RECURSIVE Rows(_)
      Rows(i) ==
        IF i = 0 THEN [k \in 1..(Size(a) + Size(b)) |-> 0]
        ELSE LET before == Rows(i - 1)
             IN  Ripple([k \in 1..(Size(a) + Size(b)) |->
                           before[k] + (IF k >= i THEN a.limbs[i] * Limb(b, k - i + 1) ELSE 0)])
  IN  Normalize(Rows(Size(a)), a.positive = b.positive)

MulU32(a, n) == Normalize(Ripple([i \in 1..(Size(a) + 1) |-> Limb(a, i) * n]), a.positive)

ShiftLeftOneBit(a) == Normalize(Ripple([i \in 1..(Size(a) + 1) |-> 2 * Limb(a, i)]), TRUE)

RECURSIVE ShiftLeft(_, _)
ShiftLeft(a, bits) ==
  IF bits = 0 THEN a
  ELSE LET half == ShiftLeft(a, bits - 1) IN [ShiftLeftOneBit(half) EXCEPT !.positive = half.positive]

BitLength(a) ==
  IF IsZero(a) THEN 0
  ELSE (Size(a) - 1) * LimbBits + (CHOOSE n \in 1..LimbBits : 2^(n - 1) <= a.limbs[Size(a)] /\ a.limbs[Size(a)] < 2^n)

ToU64(a) == IF a.positive /\ Size(a) <= 2 THEN Just(Limb(a, 1) + Base * Limb(a, 2)) ELSE Nothing

\* Bit by bit from the top: the remainder so far is doubled, takes the next
\* bit, and gives up the divisor when it holds it.  Magnitudes only.
DivMod(a, b) ==
  LET Bit(k) == (a.limbs[k \div LimbBits + 1] \div 2^(k % LimbBits)) % 2
      RECURSIVE Down(_, _, _)
      Step(k, next, quotient) ==
        IF CompareMagnitude(next, b) < 0 THEN Down(k - 1, next, quotient)
        ELSE Down(k - 1, SubMagnitude(next, b), [quotient EXCEPT ![k \div LimbBits + 1] = @ + 2^(k % LimbBits)])
      Down(k, current, quotient) ==
        IF k < 0 THEN [quotient |-> Normalize(quotient, TRUE), remainder |-> current]
        ELSE Step(k, IF Bit(k) = 1 THEN AddMagnitude(ShiftLeftOneBit(current), One) ELSE ShiftLeftOneBit(current), quotient)
  IN  IF CompareMagnitude(a, b) < 0 THEN [quotient |-> Zero, remainder |-> Absolute(a)]
      ELSE Down(Size(a) * LimbBits - 1, Zero, [i \in 1..Size(a) |-> 0])

\* mutant: the remainder takes the sign of the dividend.
TruncatingRemainder(a, b) ==
  IF IsZero(b) THEN Nothing ELSE Just(WithSign(DivMod(a, b).remainder.limbs, a.positive))

\* The remainder takes the sign of the divisor.
FloorRemainder(a, b) ==
  LET Floored(truncating) ==
        IF IsZero(truncating) \/ a.positive = b.positive THEN truncating ELSE Add(truncating, b)
  IN  IF IsZero(b) THEN Nothing ELSE Just(Floored(WithSign(DivMod(a, b).remainder.limbs, a.positive)))

ExactDivide(a, b) ==
  LET Whole(division) ==
        IF IsZero(division.remainder) THEN Just(WithSign(division.quotient.limbs, a.positive = b.positive)) ELSE Nothing
  IN  IF IsZero(b) THEN Nothing ELSE Whole(DivMod(a, b))

RECURSIVE Gcd(_, _)
Gcd(a, b) ==
  IF IsZero(b) THEN Absolute(a)
  ELSE Gcd(Absolute(b), The(FloorRemainder(Absolute(a), Absolute(b))))

-----------------------------------------------------------------------------
\* Decimal digits, the most significant first.

Digit == <<"0", "1", "2", "3", "4", "5", "6", "7", "8", "9">>
Digits == {Digit[d] : d \in DOMAIN Digit}
DigitValue(c) == (CHOOSE d \in DOMAIN Digit : Digit[d] = c) - 1

RECURSIVE ChunkValue(_)
ChunkValue(digits) ==
  IF digits = <<>> THEN 0
  ELSE 10 * ChunkValue(SubSeq(digits, 1, Len(digits) - 1)) + DigitValue(digits[Len(digits)])

\* Whole chunks from the right; the first may be shorter.
RECURSIVE FromUnsignedDecimal(_)
FromUnsignedDecimal(digits) ==
  IF Len(digits) <= ChunkDigits THEN FromU64(ChunkValue(digits))
  ELSE LET n == Len(digits) - ChunkDigits
       IN  AddMagnitude(MulU32(FromUnsignedDecimal(SubSeq(digits, 1, n)), Chunk),
                        FromU64(ChunkValue(SubSeq(digits, n + 1, Len(digits)))))

\* All ChunkDigits digits of a chunk.
Padded(n) == [i \in 1..ChunkDigits |-> Digit[((n \div 10^(ChunkDigits - i)) % 10) + 1]]
Unpadded(n) ==
  LET all == Padded(n)
  IN  SubSeq(all, Min({ChunkDigits} \cup {i \in DOMAIN all : all[i] # "0"}), ChunkDigits)

\* Long division of the limbs by a chunk, from the top.
ByChunk(limbs) ==
  LET RECURSIVE Down(_, _, _)
      Down(i, remainder, quotient) ==
        IF i = 0 THEN [rest |-> Normalize(quotient, TRUE).limbs, chunk |-> remainder]
        ELSE LET current == remainder * Base + limbs[i]
             IN  Down(i - 1, current % Chunk, [quotient EXCEPT ![i] = current \div Chunk])
  IN  Down(Len(limbs), 0, limbs)

\* Only the first chunk is written without its leading zeros.
RECURSIVE ChunkDigitsOf(_)
ChunkDigitsOf(limbs) ==
  LET by == ByChunk(limbs)
  IN  IF by.rest = <<>> THEN Unpadded(by.chunk) ELSE ChunkDigitsOf(by.rest) \o Padded(by.chunk)

ToDecimalString(a) ==
  IF IsZero(a) THEN <<"0">>
  ELSE (IF a.positive THEN <<>> ELSE <<"-">>) \o ChunkDigitsOf(a.limbs)
=============================================================================
