--------------------------------- MODULE Json ---------------------------------
(***************************************************************************)
(* The strict JSON decoder and encoder.  A text is a sequence of items:    *)
(* characters, the literals true, false and null, the four hex digits of an *)
(* escape, and strings written as one item where their inside does not     *)
(* matter.  An item of a string stands for a code point: "ctl" for a       *)
(* control character, "sur" for an encoded surrogate, "bad" for bytes that *)
(* are no character.  The position of an item stands for line and column.  *)
(***************************************************************************)
EXTENDS Values

CONSTANTS
  MaxNesting,       \* 128 in the code
  MaxExponent,      \* 1000000 in the code
  Shortest(_),      \* the shortest decimal that reads back as a float, from the C++ library
  Quoted            \* whole strings: from an item to its text

ASSUME JsonAssumption == MaxNesting \in Nat /\ MaxExponent \in Nat

Spaces == {" ", "\n"}
Controls == {"\n", "ctl"}
Literals == ("true" :> Boolean(TRUE)) @@ ("false" :> Boolean(FALSE)) @@ ("null" :> Null)
Escapes == ("\"" :> "\"") @@ ("\\" :> "\\") @@ ("n" :> "\n")
\* Hex digits by the code point they write, and the halves of a pair.
Scalars == ("0041" :> "A") @@ ("001f" :> "ctl")
High == "d83d"
Low == "de00"
Pair == "pair"
HexUnits == DOMAIN Scalars \cup {High, Low}
\* In the order of their bytes.
CodePoints == <<"ctl", "\n", " ", "\"", "A", "\\", "a", "b", "sur", Pair>>

Done(v, next) == [ok |-> TRUE, value |-> v, next |-> next]
Fail(error, at) == [ok |-> FALSE, error |-> error, at |-> at]
Invalid(at) == Fail("InvalidJson", at)
Unplaced(error) == Fail(error, 0)      \* reported without line and column

At(t, p) == IF p \in DOMAIN t THEN t[p] ELSE "end"
After(t, p, skipped) == Min({q \in p..(Len(t) + 1) : At(t, q) \notin skipped})
SkipWs(t, p) == After(t, p, Spaces)

-----------------------------------------------------------------------------
\* Numbers.

SafeBound == FromU64(2^(FractionBits + 1) - 1)
SafeInteger(a) == Compare(a, SafeBound) <= 0 /\ Compare(a, Negate(SafeBound)) >= 0

\* The shortest decimal of a float, by magnitude and with its sign.
ShortestMagnitude(f) == Shortest([f EXCEPT !.negative = FALSE])
ShortestDecimal(f) == [ShortestMagnitude(f) EXCEPT !.coefficient = Signed(f.negative, @)]

\* The decimal survives the way through a float and its shortest text.
StableDecimal(v) ==
  LET Survives(f) ==
        /\ IsZero(v.coefficient) \/ ~IsZero(Significand(f))
        /\ NumericCompare(v, ShortestDecimal(f)) = "Equal"
      Through(converted) == HasValue(converted) /\ Survives(The(converted))
  IN  Through(FromExact(v))

\* The decimal of a token with a fraction or an exponent.
DecimalToken(negative, whole, fraction, exponentNegative, exponent) ==
  LET coefficient == FromUnsignedDecimal(whole \o fraction)
      e == ChunkValue(exponent)
  IN  IF e > MaxExponent THEN Nothing
      ELSE Just(CanonicalDecimal(Signed(negative, coefficient), (IF exponentNegative THEN -e ELSE e) - Len(fraction)))

\* mutant: leading zeros are read.
WholeOfAnyDigits(t, p) == After(t, p, Digits)

\* Where the parts of a number end that starts, behind its sign, at p.
WholeEnd(t, p) == IF At(t, p) = "0" THEN p + 1 ELSE After(t, p, Digits)

FractionEnd(t, whole) == IF At(t, whole) = "." THEN After(t, whole + 1, Digits) ELSE whole
ExponentStart(t, e) == IF At(t, e + 1) \in {"+", "-"} THEN e + 2 ELSE e + 1

Ranged(v, inRange, next) == IF inRange THEN Done(v, next) ELSE Unplaced("NumberOutOfRange")
RangedInteger(a, next) == Ranged(Integer(a), SafeInteger(a), next)
RangedDecimal(decimal, open, next) ==
  IF HasValue(decimal) THEN Ranged(The(decimal), StableDecimal(The(decimal)), next) ELSE Invalid(open)

ParseNumber(t, p) ==
  LET negative == t[p] = "-"
      start == IF negative THEN p + 1 ELSE p
      whole == WholeEnd(t, start)
      fraction == FractionEnd(t, whole)
      scaled == At(t, fraction) = "e"
      exponent == IF scaled THEN ExponentStart(t, fraction) ELSE fraction + 1
      end == IF scaled THEN After(t, exponent, Digits) ELSE fraction
      first == SubSeq(t, start, whole - 1)
  IN  CASE whole = start \/ fraction = whole + 1 \/ end = exponent -> Invalid(p)
        [] end = whole -> RangedInteger(Signed(negative, FromUnsignedDecimal(first)), end)
        [] OTHER -> RangedDecimal(DecimalToken(negative, first, SubSeq(t, whole + 1, fraction - 1),
                                               At(t, fraction + 1) = "-", SubSeq(t, exponent, end - 1)), p, end)

-----------------------------------------------------------------------------
\* Strings.

\* A high half takes a low one that follows it at once; if none does, the
\* text is read on from behind the high half, which is refused.
ParseUnit(t, p) ==
  LET unit == At(t, p + 2)
      paired == unit = High /\ At(t, p + 3) = "\\" /\ At(t, p + 4) = "u" /\ At(t, p + 5) = Low
  IN  CASE unit \notin HexUnits -> Invalid(p)
        [] paired               -> Done(Pair, p + 6)
        [] unit \in {High, Low} -> Unplaced("InvalidUnicode")
        [] OTHER                -> Done(Scalars[unit], p + 3)

\* One code point of a string, escaped or as it is.
ParseScalar(t, p) ==
  CASE t[p] = "\\" ->
         CASE At(t, p + 1) = "u"              -> ParseUnit(t, p)
           [] At(t, p + 1) \in DOMAIN Escapes -> Done(Escapes[t[p + 1]], p + 2)
           [] OTHER                           -> Invalid(p)
    [] t[p] \in Controls \cup {"bad"} -> Invalid(p)
    [] t[p] = "sur"                   -> Unplaced("InvalidUnicode")
    [] OTHER                          -> Done(t[p], p + 1)

\* An open string is reported where it was opened.
ParseString(t, open) ==
  LET RECURSIVE From(_, _)
      From(p, out) ==
        IF p > Len(t) THEN Invalid(open)
        ELSE IF t[p] = "\"" THEN Done(String(out), p + 1)
        ELSE LET scalar == ParseScalar(t, p)
             IN  IF scalar.ok THEN From(scalar.next, Append(out, scalar.value)) ELSE scalar
  IN  IF t[open] \in DOMAIN Quoted THEN Done(String(Quoted[t[open]]), open + 1)
      ELSE From(open + 1, <<>>)

IsString(t, p) == At(t, p) \in {"\""} \cup DOMAIN Quoted

-----------------------------------------------------------------------------
\* Values.

RECURSIVE ParseValue(_, _, _)

\* After an item comes a comma, and then another item, or the end.
ParseArray(t, open, depth) ==
  LET RECURSIVE Items(_, _)
      AfterItem(next, items) ==
        CASE At(t, next) = "," -> Items(SkipWs(t, next + 1), items)
          [] At(t, next) = "]" -> Done(List(items), next + 1)
          [] OTHER             -> Invalid(next)
      WithItem(item, items) == IF item.ok THEN AfterItem(SkipWs(t, item.next), Append(items, item.value)) ELSE item
      Items(p, items) == WithItem(ParseValue(t, p, depth), items)
      first == SkipWs(t, open + 1)
  IN  IF At(t, first) = "]" THEN Done(List(<<>>), first + 1) ELSE Items(first, <<>>)

\* The keys are compared only when the object is closed.
FinishObject(pairs, next) ==
  LET RECURSIVE From(_, _)
      From(i, map) ==
        LET id == IdOfString(pairs[i].key.text)
        IN  IF i > Len(pairs) THEN Done(Map(map), next)
            ELSE IF Has(map, id) THEN Unplaced("DuplicateKey")
            ELSE From(i + 1, Put(map, id, pairs[i].key, pairs[i].value))
  IN  From(1, EmptyMap)

ParseObject(t, open, depth) ==
  LET RECURSIVE Members(_, _)
      \* Behind a key, and behind the value of it.
      AfterMember(next, pairs) ==
        CASE At(t, next) = "," -> Members(next + 1, pairs)
          [] At(t, next) = "}" -> FinishObject(pairs, next + 1)
          [] OTHER             -> Invalid(next)
      WithMember(key, member, pairs) ==
        IF ~member.ok THEN member
        ELSE AfterMember(SkipWs(t, member.next), Append(pairs, [key |-> key, value |-> member.value]))
      AfterKey(key, colon, pairs) ==
        IF At(t, colon) # ":" THEN Invalid(colon) ELSE WithMember(key, ParseValue(t, colon + 1, depth), pairs)
      WithKey(key, pairs) == IF ~key.ok THEN key ELSE AfterKey(key.value, SkipWs(t, key.next), pairs)
      Members(p, pairs) ==
        LET start == SkipWs(t, p)
        IN  IF IsString(t, start) THEN WithKey(ParseString(t, start), pairs) ELSE Invalid(start)
      first == SkipWs(t, open + 1)
  IN  IF At(t, first) = "}" THEN FinishObject(<<>>, first + 1) ELSE Members(first, <<>>)

\* A bracket too deep is refused before anything inside it is read.
ParseContainer(t, p, depth) ==
  IF depth > MaxNesting THEN Unplaced("NestingTooDeep")
  ELSE IF t[p] = "[" THEN ParseArray(t, p, depth)
  ELSE ParseObject(t, p, depth)

ParseValue(t, from, depth) ==
  LET p == SkipWs(t, from)
      c == At(t, p)
  IN  CASE c \in {"[", "{"}          -> ParseContainer(t, p, depth + 1)
        [] IsString(t, p)            -> ParseString(t, p)
        [] c \in DOMAIN Literals     -> Done(Literals[c], p + 1)
        [] c \in {"-"} \cup Digits   -> ParseNumber(t, p)
        [] OTHER                     -> Invalid(p)

Decode(t) ==
  LET Whole(document) == IF document.ok /\ SkipWs(t, document.next) <= Len(t) THEN Invalid(SkipWs(t, document.next)) ELSE document
  IN  Whole(ParseValue(t, 1, 0))

-----------------------------------------------------------------------------
\* Encoding.

Written(text) == [ok |-> TRUE, text |-> text]
Refused(error) == [ok |-> FALSE, error |-> error]

\* mutant: a backslash is written as it is.
EscapeQuotes(text) ==
  LET Escaped(c) == CASE c = "\"" -> <<"\\", c>> [] c = "\n" -> <<"\\", "n">> [] c = "ctl" -> <<"\\", "u", "001f">> [] OTHER -> <<c>>
  IN  <<"\"">> \o FlattenSeq([i \in DOMAIN text |-> Escaped(text[i])]) \o <<"\"">>

EscapeString(text) ==
  LET Escaped(c) ==
        CASE c \in {"\"", "\\"} -> <<"\\", c>>
          [] c = "\n"           -> <<"\\", "n">>
          [] c = "ctl"          -> <<"\\", "u", "001f">>
          [] OTHER              -> <<c>>
  IN  <<"\"">> \o FlattenSeq([i \in DOMAIN text |-> Escaped(text[i])]) \o <<"\"">>

\* One line per item; the indentation is left out.
Container(open, lines, close) ==
  IF lines = <<>> THEN <<open, close>>
  ELSE <<open, "\n">>
       \o FlattenSeq([i \in DOMAIN lines |-> lines[i] \o (IF i = Len(lines) THEN <<"\n">> ELSE <<",", "\n">>)])
       \o <<close>>

Rank(c) == CHOOSE i \in DOMAIN CodePoints : CodePoints[i] = c
Before(s, t) ==
  \/ IsStrictPrefix(s, t)
  \/ \E i \in DOMAIN s \cap DOMAIN t :
       /\ SubSeq(s, 1, i - 1) = SubSeq(t, 1, i - 1)
       /\ Rank(s[i]) < Rank(t[i])

EncodeDecimal(v) == IF StableDecimal(v) THEN Written(RenderDecimal(v)) ELSE Refused("NumberOutOfRange")

EncodeNumber(v) ==
  CASE v.kind = "Integer" ->
         IF SafeInteger(v.integer) THEN Written(ToDecimalString(v.integer)) ELSE Refused("NumberOutOfRange")
    [] v.kind = "Rational" /\ ~Terminates(v.denominator) -> Refused("UnsupportedValue")
    [] IsFloat(v) ->
         IF v.biased = MaxBiased THEN Refused("NumberOutOfRange")
         ELSE Written((IF v.negative THEN <<"-">> ELSE <<>>) \o RenderDecimal(ShortestMagnitude(v)))
    [] OTHER -> EncodeDecimal(IF v.kind = "Decimal" THEN v ELSE DecimalFromTerminating(v.numerator, v.denominator))

\* The first part that is refused, if one is.
FirstRefused(parts) == SelectInSeq(parts, LAMBDA part : ~part.ok)

RECURSIVE EncodeAt(_, _)

EncodeList(v, depth) ==
  LET Of(lines) == IF FirstRefused(lines) # 0 THEN lines[FirstRefused(lines)]
                   ELSE Written(Container("[", [i \in DOMAIN lines |-> lines[i].text], "]"))
  IN  Of([i \in DOMAIN v.items |-> EncodeAt(v.items[i], depth)])

\* Keys in the order of their bytes, whatever the order of insertion.
EncodeMap(v, depth) ==
  LET entries == v.map.entries
      Sorted(lines, sorted) ==
        Written(Container("{", [i \in DOMAIN sorted |->
          EscapeString(entries[sorted[i]].key.text) \o <<":", " ">> \o lines[sorted[i]].text], "}"))
      Of(lines) ==
        IF FirstRefused(lines) # 0 THEN lines[FirstRefused(lines)]
        ELSE Sorted(lines, SetToSortSeq(DOMAIN entries, LAMBDA i, j : Before(entries[i].key.text, entries[j].key.text)))
  IN  Of([i \in DOMAIN entries |->
            IF entries[i].key.kind = "String" THEN EncodeAt(entries[i].value, depth) ELSE Refused("UnsupportedValue")])

EncodeAt(v, depth) ==
  CASE IsNumeric(v)       -> EncodeNumber(v)
    [] v.kind = "Boolean" -> Written(<<IF v.boolean THEN "true" ELSE "false">>)
    [] v.kind = "String"  -> Written(EscapeString(v.text))
    [] v.kind = "Outcome" /\ v.case = "None" -> Written(<<"null">>)
    [] v.kind \in {"List", "Map"} /\ depth = MaxNesting -> Refused("NestingTooDeep")
    [] v.kind = "List"    -> EncodeList(v, depth + 1)
    [] v.kind = "Map"     -> EncodeMap(v, depth + 1)
    [] OTHER              -> Refused("UnsupportedValue")

\* One layer that stands for JSON is taken off, at the top only.
Encode(v) ==
  IF v.kind = "Represented" /\ v.facet # "json" THEN Refused("UnsupportedValue")
  ELSE EncodeAt(IF v.kind = "Represented" THEN v.value ELSE v, 0)
=============================================================================
