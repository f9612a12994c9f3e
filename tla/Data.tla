---------------------------------- MODULE Data ----------------------------------
(***************************************************************************)
(* A program that computes with data: it writes a value down or decodes a  *)
(* text, and then applies operators and native functions to what it has,   *)
(* one after the other.  Meaning is a history variable: what the program   *)
(* should have by then, computed over TLA+ integers and never from value.  *)
(***************************************************************************)
EXTENDS Grammars, Unicode, Formats, Readings

CONSTANTS
  Operands,    \* values that are written in a program, by step: the first for the start,
               \* the next for the first operation, and so on
  Binaries,    \* the operators that are applied
  Specs,       \* the formats that are applied, and what they ask for: a style and a number
  Alphabets,   \* sets of items a text is typed from
  MaxText,     \* the length of a text, by alphabet
  MaxValue,    \* the numerators and denominators the next operation may start from
  Beginnings   \* and the tokens a program begins with, by alphabet

\* A text of bytes has nothing else in it and is no program.
ASSUME BytesAssumption ==
  "Bytes" \notin DOMAIN Beginnings /\ ("Bytes" \in DOMAIN Alphabets => Alphabets["Bytes"] \subseteq Byte)

VARIABLES value, meaning, spent
vars == <<text, alphabet, value, meaning, spent>>

\* Before a text is read and after a call that does not apply, there is no value.
MeaningOfOption(option) == IF HasValue(option) THEN MeaningOf(The(option)) ELSE Unsupported

IsProgram(a) == a \in DOMAIN Beginnings

Init ==
  /\ text = <<>> /\ spent = 0
  /\ \/ alphabet \in DOMAIN Alphabets /\ value = Nothing
     \/ /\ alphabet = ""
        /\ value \in {Just(v) : v \in Operands[1]} \cup {Just(Map(EmptyMap))}
  /\ meaning = IF IsProgram(alphabet) THEN NothingRead ELSE MeaningOfOption(value)

-----------------------------------------------------------------------------
\* Texts.

IsJson == ~IsProgram(alphabet) /\ alphabet \notin {"", "Bytes", "Integers"}

\* An empty block for the body of a lambda.
HasEmptyBlock == <<")", "->", "{", "}">> \in SubSeqs(SelectSeq(text, LAMBDA item : item # "\n"))

\* What a text may go on with; one that nothing can mend is not continued.
Continuations ==
  LET Begun == IsProgram(alphabet) /\ (text # <<>> \/ Beginnings[alphabet] = <<>>)
      CanGoOn ==
        CASE IsProgram(alphabet) -> HasEmptyBlock \/ meaning.viable
          [] IsJson              -> ~IsRefused(text)
          [] OTHER               -> TRUE
      Awaits(c) == alphabet = "Bytes" /\ Awaited(text, TRUE) = TooLate => IsContinuation(c)
  IN  CASE alphabet = "" -> {}
        [] IsProgram(alphabet) /\ ~Begun -> {Beginnings[alphabet]}
        [] Len(text) < MaxText[alphabet] /\ CanGoOn -> {<<c>> : c \in {a \in Alphabets[alphabet] : Awaits(a)}}
        [] OTHER -> {}

\* The meaning of a program is how the grammar reads it.
Type(items) ==
  /\ text' = text \o items
  /\ meaning' = IF IsProgram(alphabet) THEN ReadText(text') ELSE meaning
  /\ UNCHANGED <<alphabet, value, spent>>

JsonDecode ==
  LET AsJson(decoded) == IF decoded.ok THEN Just(Represented("json", decoded.value)) ELSE Nothing
      Promise(outcome) == IF outcome.mode = "wrong" THEN Unsupported ELSE <<"Represented", Top(outcome).items[1]>>
  IN  /\ IsJson
      /\ value' = AsJson(Decode(text))
      /\ meaning' = Promise(Outcome(text))
      /\ text' = <<>> /\ alphabet' = ""
      /\ UNCHANGED spent

ReadInteger ==
  /\ alphabet = "Integers"
  /\ value' = Just(ParseInt(text))
  /\ meaning' = IntegerIn(text)
  /\ text' = <<>> /\ alphabet' = ""
  /\ UNCHANGED spent

-----------------------------------------------------------------------------
\* Operations on the value.

AtHand == IF spent + 2 \in DOMAIN Operands THEN Operands[spent + 2] ELSE {}

Computed(result, promised) ==
  /\ spent + 2 \in DOMAIN Operands
  /\ spent' = spent + 1
  /\ value' = result
  /\ meaning' = promised
  /\ UNCHANGED <<text, alphabet>>

IsSmall(m) == IsNumeral(m) => \A i \in {2, 3} : m[i] \in -MaxValue[spent + 1]..MaxValue[spent + 1]

Binary(op, v, swapped) ==
  LET a == IF swapped THEN v ELSE The(value)
      b == IF swapped THEN The(value) ELSE v
      x == IF swapped THEN MeaningOf(v) ELSE meaning
      y == IF swapped THEN meaning ELSE MeaningOf(v)
  IN  /\ HasValue(value)
      /\ IsSmall(meaning)
      /\ ~(IsFloat(a) /\ IsFloat(b) /\ op \in {"+", "-", "*", "/", "%"})
      /\ Computed(EvalBinary(op, a, b), PromisedBinary(op, x, y))

Minus == HasValue(value) /\ Computed(EvalMinus(The(value)), PromisedMinus(meaning))

ToFloat64 ==
  /\ HasValue(value) /\ IsNumeric(The(value)) /\ IsSmall(meaning)
  /\ Computed(FromExact(The(value)), IF Comparable(meaning) /\ ~IsNumeral(meaning) THEN meaning ELSE AsFloat(meaning))

FromFloat64 ==
  /\ HasValue(value) /\ IsNumeric(The(value))
  /\ Computed(ToExact(The(value)), IF IsNumeral(meaning) THEN AsExact(meaning) ELSE Unsupported)

RationalFrom(v) ==
  /\ HasValue(value) /\ IsNumeric(The(value)) /\ IsSmall(meaning)
  /\ Computed(RationalOf(The(value), v),
              IF <<meaning[1], MeaningOf(v)[1]>> # <<"Integer", "Integer">> THEN Unsupported
              ELSE PromisedBinary("/", meaning, MeaningOf(v)))

\* The text of a float is the C++ library's and not laid out here.
Format(spec) ==
  /\ HasValue(value) /\ IsSmall(meaning)
  /\ The(value).kind \in {"Integer", "Decimal", "Rational", "Float64", "String", "Boolean"}
  /\ IsFloat(The(value)) => Specs[spec].style \notin {"left", "right", "middle"}
  /\ LET Shown(formatted) == IF HasValue(formatted) THEN Just(String(The(formatted))) ELSE Nothing
     IN  Computed(Shown(ApplySpec(The(value), spec)), PromisedText(meaning, Specs[spec].style, Specs[spec].n))

\* A map takes the number of the step with a key.
Entry == Integer(FromU64(spent))
PutKey(key) ==
  /\ HasValue(value) /\ The(value).kind = "Map"
  /\ Computed(MapPut(The(value), key, Entry), PromisedPut(meaning, MeaningOf(key), MeaningOf(Entry)))
RemoveKey(key) ==
  /\ HasValue(value) /\ The(value).kind = "Map"
  /\ Computed(MapRemove(The(value), key), PromisedRemove(meaning, MeaningOf(key)))
HasKey(key) ==
  /\ HasValue(value) /\ The(value).kind = "Map"
  /\ Computed(MapHas(The(value), key), PromisedHas(meaning, MeaningOf(key)))
LookUp(key) ==
  /\ HasValue(value) /\ The(value).kind = "Map"
  /\ Computed(GetFrom(key, The(value)), PromisedGet(meaning, MeaningOf(key)))

Items ==
  /\ HasValue(value) /\ The(value).kind = "Map"
  /\ Computed(Just(MapItems(The(value))), <<"List", [i \in DOMAIN meaning[2] |-> <<"List", meaning[2][i]>>]>>)
Count ==
  /\ HasValue(value) /\ The(value).kind = "Map"
  /\ Computed(Just(MapCount(The(value))), <<"Integer", Len(meaning[2]), 1>>)

Item(n) ==
  LET at == IntegerOf(n.integer) + 1
  IN  /\ HasValue(value) /\ The(value).kind = "List"
      /\ Computed(Nth(n, The(value)),
                  IF at \in DOMAIN meaning[2] THEN <<"Some", meaning[2][at]>> ELSE <<"None", "index-out-of-bounds">>)

Total ==
  /\ HasValue(value) /\ The(value).kind = "List"
  /\ Computed(Sum(The(value)),
              IF \E i \in DOMAIN meaning[2] : meaning[2][i][1] # "Integer" THEN Unsupported
              ELSE <<"Integer", MapThenSumSet(LAMBDA i : meaning[2][i][2], DOMAIN meaning[2]), 1>>)

Unwrap ==
  /\ HasValue(value) /\ The(value).kind = "Outcome"
  /\ Computed(UnwrapOr(Null, The(value)), IF meaning[1] = "Some" THEN meaning[2] ELSE Unsupported)
Matched ==
  /\ HasValue(value) /\ The(value).kind = "Represented"
  /\ Computed(Just(RepresentationMatch("json", The(value))), <<"Some", meaning[2]>>)

Next ==
  \/ \E items \in Continuations : Type(items)
  \/ JsonDecode \/ ReadInteger
  \/ \E op \in Binaries, v \in AtHand, swapped \in BOOLEAN : Binary(op, v, swapped)
  \/ Minus \/ ToFloat64 \/ FromFloat64
  \/ \E v \in AtHand : RationalFrom(v)
  \/ \E spec \in DOMAIN Specs : Format(spec)
  \/ \E key \in AtHand : PutKey(key) \/ RemoveKey(key) \/ HasKey(key) \/ LookUp(key)
  \/ Items \/ Count
  \/ \E n \in AtHand : n.kind = "Integer" /\ Item(n)
  \/ Total \/ Unwrap \/ Matched

Spec == Init /\ [][Next]_vars

-----------------------------------------------------------------------------
\* Properties.

\* No sequence of operators, conversions and operations on maps and lists
\* loses or invents anything: what the program has is exactly what arithmetic
\* over the integers, rounding to the nearest float and a list of map entries
\* promise, in the kind the promotion of numbers gives it, and it is refused
\* exactly when it should be.
ComputedExactly == alphabet = "" => MeaningOfOption(value) = meaning

\* The one representation a number has: no leading zero limbs and no negative
\* zero, no trailing zero of a coefficient, no rational that could be reduced.
CanonicalInteger(a) ==
  /\ \A i \in DOMAIN a.limbs : a.limbs[i] \in 0..(Base - 1)
  /\ a.limbs # <<>> => Last(a.limbs) # 0
  /\ a.limbs = <<>> => a.positive
Canonical(v) ==
  CASE v.kind = "Integer" -> CanonicalInteger(v.integer)
    [] v.kind = "Decimal" ->
         /\ CanonicalInteger(v.coefficient)
         /\ IF v.coefficient.limbs = <<>> THEN v.exponent = 0 ELSE IntegerOf(v.coefficient) % 10 # 0
    [] v.kind = "Rational" ->
         /\ CanonicalInteger(v.numerator) /\ CanonicalInteger(v.denominator)
         /\ MeaningOf(v) = <<"Rational", IntegerOf(v.numerator), IntegerOf(v.denominator)>>
         /\ v.denominator # One
    [] OTHER -> TRUE

\* Equality, order and the identity of map keys are one relation, whatever the
\* kinds of the numbers: two keys are the same exactly when their values are
\* equal, which is when neither is less.
OneRelation(a, b) ==
  LET x == MeaningOf(a)
      y == MeaningOf(b)
  IN  /\ Comparable(x) /\ Comparable(y) => NumericCompare(a, b) = Compared(x, y)
      /\ StructuralEqual(a, b) = Same(x, y)
      /\ HasValue(MapKey(a)) = IsKey(x)
      /\ IsKey(x) /\ IsKey(y) => ((MapKey(a) = MapKey(b)) = SameKey(x, y))

\* The index of a map names the entry of every key and nothing else, and the
\* order of the entries is no part of the value: a map is as equal to itself
\* with an entry moved to the end as it is to itself (one that holds an outcome
\* is not).
IndexOfMap(m) ==
  /\ \A i \in DOMAIN m.map.entries : m.map.index[The(MapKey(m.map.entries[i].key))] = i
  /\ Cardinality(DOMAIN m.map.index) = Len(m.map.entries)
  /\ \A i \in DOMAIN m.map.entries :
       LET entry == m.map.entries[i]
           moved == The(MapPut(The(MapRemove(m, entry.key)), entry.key, entry.value))
       IN  StructuralEqual(m, moved) = Same(MeaningOf(m), MeaningOf(m))

EqualityCoherent ==
  HasValue(value) =>
    LET v == The(value)
    IN  /\ Canonical(v)
        /\ IsSmall(meaning) => \A o \in Operands[spent + 1] : OneRelation(v, o)
        /\ v.kind = "Map" => IndexOfMap(v)

\* The decoder finds the document the grammar finds, with the same value, and
\* in a text that is none the same first error at the same place.
Agree(decoded, outcome) ==
  /\ decoded.ok = (outcome.mode = "after")
  /\ decoded.ok => MeaningOf(decoded.value) = Top(outcome).items[1]
  /\ ~decoded.ok => <<decoded.error, decoded.at>> = <<outcome.error, outcome.at>>
DecoderMatchesGrammar == IsJson => Agree(Decode(text), Outcome(text))

\* A text is accepted exactly when the grammar has one reading of it, and parsed
\* as that reading; whatever else has a reading is refused ("Any token or
\* arrangement outside this grammar makes the whole source unrepresentable in
\* this slice").
Agreed(read, parsed) == read.ok = parsed.ok /\ (read.ok => read.program = parsed.tree)
NothingGuessed == IsProgram(alphabet) => Agreed(meaning, ParseProgram(text))

\* So are all programs without an empty block for the body of a lambda.
ParsedAsWritten == IsProgram(alphabet) /\ ~HasEmptyBlock => NothingGuessed

\* What is left of a meaning in JSON: the reason of a none is lost, a rational
\* and a float become the decimal they are written as.
RECURSIVE InJson(_)
InJson(m) ==
  CASE IsNumeral(m) -> <<"Number", m[2], m[3]>>
    [] m[1] = "None" -> <<"None">>
    [] m[1] = "List" -> <<"List", [i \in DOMAIN m[2] |-> InJson(m[2][i])]>>
    [] m[1] = "Map" -> <<"Map", {<<m[2][i][1], InJson(m[2][i][2])>> : i \in DOMAIN m[2]}>>
    [] OTHER -> m

\* Whatever is encoded decodes to the same value, and a value that was decoded
\* can always be encoded; the order of the keys in a text is that of their bytes.
Unwrapped(v) == IF v.kind = "Represented" THEN v.value ELSE v
ReadsBack(v, decoded) ==
  /\ decoded.ok
  /\ IF IsFloat(v) THEN FromExact(decoded.value) = Just([v EXCEPT !.negative = @ /\ MeaningOf(v)[2] # 0])
     ELSE InJson(MeaningOf(decoded.value)) = InJson(MeaningOf(v))
RoundTrip(v, encoded) ==
  /\ v.kind = "Represented" => encoded.ok
  /\ encoded.ok => ReadsBack(Unwrapped(v), Decode(encoded.text))
JsonRoundTrip == HasValue(value) => RoundTrip(The(value), Encode(The(value)))
=============================================================================
