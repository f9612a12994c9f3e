-------------------------------- MODULE Formats --------------------------------
(***************************************************************************)
(* The format of a template field, such as >5, .2, 05 or a comma: what it  *)
(* makes of a value, and nothing when it is refused.                       *)
(***************************************************************************)
EXTENDS Values

CONSTANT MaxCount     \* 1000000 in the code
ASSUME FormatAssumption == MaxCount \in Nat

ParseCount(digits) ==
  IF (\A i \in DOMAIN digits : digits[i] \in Digits) /\ ChunkValue(digits) <= MaxCount
  THEN Just(ChunkValue(digits)) ELSE Nothing

\* The text of a float is the C++ library's, between float64( and ).
DisplayText(v) ==
  CASE v.kind = "Integer"  -> ToDecimalString(v.integer)
    [] v.kind = "Decimal"  -> RenderDecimal(v)
    [] v.kind = "Rational" -> ToDecimalString(v.numerator) \o <<"/">> \o ToDecimalString(v.denominator)
    [] v.kind = "Float64"  -> <<"float64(", ")">>
    [] v.kind = "Boolean"  -> IF v.boolean THEN <<"t", "r", "u", "e">> ELSE <<"f", "a", "l", "s", "e">>
    [] v.kind = "String"   -> v.text

\* A text without its sign, and how many digits it starts with.
IsSigned(text) == text # <<>> /\ text[1] = "-"
Unsigned(text) == IF IsSigned(text) THEN Tail(text) ELSE text
Sign(text) == IF IsSigned(text) THEN <<"-">> ELSE <<>>
WholeDigits(text) == Min({Len(text) + 1} \cup {i \in DOMAIN text : text[i] \notin Digits}) - 1

\* Digits, and behind a point digits again.
IsPlainNumeral(text) ==
  LET Plain(body, whole) ==
        /\ whole > 0
        /\ \/ whole = Len(body)
           \/ /\ body[whole + 1] = "." /\ Len(body) > whole + 1
              /\ \A i \in (whole + 2)..Len(body) : body[i] \in Digits
  IN  Plain(Unsigned(text), WholeDigits(Unsigned(text)))

Missing(text, width) == Max({0, width - Len(text)})

Aligned(side, text, width) ==
  LET Spaced(left, right) == Repeat(" ", left) \o text \o Repeat(" ", right)
      With(padding) ==
        CASE side = "<" -> Spaced(0, padding)
          [] side = ">" -> Spaced(padding, 0)
          [] side = "^" -> Spaced(padding \div 2, padding - padding \div 2)
  IN  With(Missing(text, width))

\* Presentations that only a plain numeral has.
ZeroFilled(text, width) ==
  IF IsPlainNumeral(text) THEN Just(Sign(text) \o Repeat("0", Missing(text, width)) \o Unsigned(text)) ELSE Nothing
Grouped(body, whole) ==
  FlattenSeq([i \in DOMAIN body |-> IF i \in 2..whole /\ (whole - i + 1) % 3 = 0 THEN <<",", body[i]>> ELSE <<body[i]>>])
WithCommas(text) ==
  IF IsPlainNumeral(text) THEN Just(Sign(text) \o Grouped(Unsigned(text), WholeDigits(Unsigned(text)))) ELSE Nothing

\* Of a string the first characters; the precision of a number is exact.
WithPrecision(v, precision) ==
  CASE v.kind = "String" -> Just(SubSeq(v.text, 1, Min({precision, Len(v.text)})))
    [] IsNumeric(v) /\ ~IsNaN(v) /\ ~IsInfinite(v) -> Just(PrecisionText(v, precision))
    [] OTHER -> Nothing

Counted(v, style, count) ==
  CASE style = "." -> WithPrecision(v, count)
    [] style = "0" -> IF IsNumeric(v) THEN ZeroFilled(DisplayText(v), count) ELSE Nothing
    [] OTHER       -> Just(Aligned(style, DisplayText(v), count))

ApplySpec(v, spec) ==
  LET With(count) == IF HasValue(count) THEN Counted(v, spec[1], The(count)) ELSE Nothing
  IN  CASE spec = <<",">> -> IF IsNumeric(v) THEN WithCommas(DisplayText(v)) ELSE Nothing
        [] Len(spec) < 2 -> Nothing
        [] spec[1] \in {"<", ">", "^", "."} -> With(ParseCount(Tail(spec)))
        [] \A i \in DOMAIN spec : spec[i] \in Digits /\ spec[1] = "0" -> With(ParseCount(spec))
        [] OTHER -> Nothing
=============================================================================
