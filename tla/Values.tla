-------------------------------- MODULE Values --------------------------------
(***************************************************************************)
(* The values JSON is made of, their equality, and the ordered map: a      *)
(* sequence of entries beside an index from key identities to positions,   *)
(* which the native functions on maps copy and change.                     *)
(***************************************************************************)
EXTENDS Floats

Boolean(b) == [kind |-> "Boolean", boolean |-> b]
String(text) == [kind |-> "String", text |-> text]
List(items) == [kind |-> "List", items |-> items]
Map(map) == [kind |-> "Map", map |-> map]
None(reason) == [kind |-> "Outcome", case |-> "None", value |-> reason]
Some(v) == [kind |-> "Outcome", case |-> "Some", value |-> v]
Null == None("nil")
Represented(facet, v) == [kind |-> "Represented", facet |-> facet, value |-> v]

EmptyMap == [entries |-> <<>>, index |-> <<>>]

\* Numbers by value, a truth value and a text apart from them.
IdOfString(text) == <<"S", text>>
MapKey(v) ==
  CASE IsNumeric(v)       -> NumericKey(v)
    [] v.kind = "Boolean" -> Just(<<"B", v.boolean>>)
    [] v.kind = "String"  -> Just(IdOfString(v.text))
    [] OTHER              -> Nothing

Has(map, id) == id \in DOMAIN map.index
Get(map, id) == map.entries[map.index[id]].value

\* An entry that is there takes the new key as well, and keeps its place.
Put(map, id, key, v) ==
  LET entry == [key |-> key, value |-> v]
  IN  IF Has(map, id) THEN [map EXCEPT !.entries[map.index[id]] = entry]
      ELSE [entries |-> Append(map.entries, entry), index |-> map.index @@ (id :> Len(map.entries) + 1)]

\* mutant: the index stays as it was.
EraseEntryOnly(map, id) ==
  IF ~Has(map, id) THEN map
  ELSE [entries |-> RemoveAt(map.entries, map.index[id]), index |-> [i \in DOMAIN map.index \ {id} |-> map.index[i]]]

\* The entries behind the removed one move up, and the index with them.
Erase(map, id) ==
  LET at == map.index[id]
  IN  IF ~Has(map, id) THEN map
      ELSE [entries |-> RemoveAt(map.entries, at),
            index |-> [i \in DOMAIN map.index \ {id} |-> IF map.index[i] > at THEN map.index[i] - 1 ELSE map.index[i]]]

RECURSIVE StructuralEqual(_, _)
StructuralEqual(a, b) ==
  CASE IsNumeric(a) /\ IsNumeric(b) -> NumericCompare(a, b) = "Equal"
    [] a.kind # b.kind -> FALSE
    [] a.kind = "Boolean" -> a.boolean = b.boolean
    [] a.kind = "String" -> a.text = b.text
    [] a.kind = "List" ->
         /\ Len(a.items) = Len(b.items)
         /\ \A i \in DOMAIN a.items : StructuralEqual(a.items[i], b.items[i])
    [] a.kind = "Map" ->
         /\ Len(a.map.entries) = Len(b.map.entries)
         /\ \A i \in DOMAIN a.map.entries :
              LET In(id) == Has(b.map, id) /\ StructuralEqual(a.map.entries[i].value, Get(b.map, id))
              IN  In(The(MapKey(a.map.entries[i].key)))
    [] OTHER -> FALSE

-----------------------------------------------------------------------------
\* Expressions.  Arithmetic on two floats is the processor's.

EvalMinus(v) ==
  CASE v.kind = "Integer"  -> Just(Integer(Negate(v.integer)))
    [] v.kind = "Decimal"  -> Just(Decimal(Negate(v.coefficient), v.exponent))
    [] v.kind = "Rational" -> Just(Rational(Negate(v.numerator), v.denominator))
    [] v.kind = "Float64"  -> Just([v EXCEPT !.negative = ~@])
    [] OTHER               -> Nothing

Orders == ("<" :> {"Less"}) @@ ("<=" :> {"Less", "Equal"}) @@ (">" :> {"Greater"}) @@ (">=" :> {"Greater", "Equal"})
Operators == {"+", "-", "*", "/", "%", "==", "!="} \cup DOMAIN Orders

EvalBinary(op, a, b) ==
  CASE op \in {"==", "!="} -> Just(Boolean(StructuralEqual(a, b) <=> op = "=="))
    [] op = "+" /\ a.kind = "String" /\ b.kind = "String" -> Just(String(a.text \o b.text))
    [] op \in DOMAIN Orders /\ IsNumeric(a) /\ IsNumeric(b) -> Just(Boolean(NumericCompare(a, b) \in Orders[op]))
    [] (IsFloat(a) /\ IsExact(b)) \/ (IsExact(a) /\ IsFloat(b)) -> Just(None("type-error"))
    [] op \notin DOMAIN Orders /\ IsExact(a) /\ IsExact(b) -> Arithmetic(op, a, b)
    [] OTHER -> Nothing

-----------------------------------------------------------------------------
\* The native functions on maps and lists; nothing when they do not apply.

Applies(m, key) == m.kind = "Map" /\ HasValue(MapKey(key))
Id(key) == The(MapKey(key))
Found(m, id) == IF Has(m.map, id) THEN Some(Get(m.map, id)) ELSE None("missing-key")

MapPut(m, key, v) == IF Applies(m, key) THEN Just(Map(Put(m.map, Id(key), key, v))) ELSE Nothing
MapRemove(m, key) == IF Applies(m, key) THEN Just(Map(Erase(m.map, Id(key)))) ELSE Nothing
MapHas(m, key) == IF Applies(m, key) THEN Just(Boolean(Has(m.map, Id(key)))) ELSE Nothing
GetFrom(key, m) == IF Applies(m, key) THEN Just(Found(m, Id(key))) ELSE Nothing

MapCount(m) == Integer(FromU64(Len(m.map.entries)))
MapItems(m) == List([i \in DOMAIN m.map.entries |-> List(<<m.map.entries[i].key, m.map.entries[i].value>>)])

\* The index counts from zero.
Nth(n, v) ==
  LET index == ToU64(n.integer)
  IN  IF n.kind # "Integer" \/ v.kind # "List" THEN Nothing
      ELSE IF HasValue(index) /\ The(index) < Len(v.items) THEN Just(Some(v.items[The(index) + 1]))
      ELSE Just(None("index-out-of-bounds"))

Sum(v) ==
  IF \E i \in DOMAIN v.items : v.items[i].kind # "Integer" THEN Nothing
  ELSE Just(Integer(FoldLeft(LAMBDA total, item : Add(total, item.integer), Zero, v.items)))

UnwrapOr(default, v) == IF v.kind = "Outcome" /\ v.case = "Some" THEN Just(v.value) ELSE Nothing

RepresentationMatch(facet, v) ==
  IF v.kind = "Represented" /\ v.facet = facet THEN Some(v.value) ELSE None("representation-mismatch")

RationalOf(n, d) ==
  IF n.kind = "Integer" /\ d.kind = "Integer" THEN ConstructRational(n.integer, d.integer) ELSE Nothing

\* A whole number in a text: blanks around it, a sign, and digits with single
\* underscores between them.
Blanks == {" ", "\n"}
ParseInt(text) ==
  LET first == Min({Len(text) + 1} \cup {i \in DOMAIN text : text[i] \notin Blanks})
      last == Max({0} \cup {i \in DOMAIN text : text[i] \notin Blanks})
      signed == first <= last /\ text[first] \in {"+", "-"}
      body == SubSeq(text, IF signed THEN first + 1 ELSE first, last)
      magnitude == FromUnsignedDecimal(SelectSeq(body, LAMBDA c : c # "_"))
      IsDigitAt(i) == i \in DOMAIN body /\ body[i] \in Digits
  IN  IF /\ body # <<>>
         /\ \A i \in DOMAIN body : IsDigitAt(i) \/ (body[i] = "_" /\ IsDigitAt(i - 1) /\ IsDigitAt(i + 1))
      THEN Some(Integer(IF signed /\ text[first] = "-" THEN Negate(magnitude) ELSE magnitude))
      ELSE None("parse-error")
=============================================================================
