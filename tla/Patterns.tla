------------------------------ MODULE Patterns ------------------------------
(***************************************************************************)
(* Clauses: a pattern for the arguments and perhaps a guard.  Matching,    *)
(* the evaluation of guards, and the dispatch key by which an open group   *)
(* tells its clauses apart.                                                *)
(*                                                                         *)
(* Values, patterns and expressions are trees of any depth up to Depth,    *)
(* built level by level.  What recurs over them is a recursive function    *)
(* rather than a recursive operator, so that it can be proved about.       *)
(***************************************************************************)
EXTENDS Integers, Sequences, SequencesExt

CONSTANTS
  Idents,      \* the identifiers of a program
  Depth        \* how deep a value, a pattern or an expression may nest

ASSUME PatternsAssumption == "" \notin Idents /\ Depth \in Nat

-----------------------------------------------------------------------------
\* Values, patterns and expressions.

Integer(n) == [kind |-> "Integer", n |-> n]
Boolean(b) == [kind |-> "Boolean", b |-> b]
ListValue(items) == [kind |-> "List", items |-> items]

Atoms ==
  [kind : {"Integer", "Decimal"}, n : Int]
    \cup [kind : {"Boolean"}, b : BOOLEAN]
    \cup [kind : {"String"}, text : STRING]

\* A map holds each key once.
Maps(V) == {m \in SUBSET (STRING \X V) : \A a, b \in m : a[1] = b[1] => a = b}

\* Some and Err have two parts, the value or reason and the context.
ValuesOver(V) ==
  Atoms
    \cup [kind : {"List"}, items : Seq(V)]
    \cup [kind : {"Map"}, map : Maps(V)]
    \cup [kind : {"Outcome"}, case : {"Some", "Err"}, parts : {s \in Seq(V) : Len(s) = 2}]
    \cup [kind : {"Outcome"}, case : {"None"}, parts : {<<>>}]

\* A literal is a value and the leading zeros it is written with.
Literals == [zeros : Nat, value : Atoms]
NoLiteral == [zeros |-> 0, value |-> Boolean(FALSE)]

Compound == {"List", "Map", "Tuple", "Err", "Some"}

\* A Rest without a name drops what it takes; the parser allows a Rest only at
\* the end of a list.
PatternsOver(P) ==
  {p \in [kind : {"Bind", "Rest", "Wildcard", "Literal"} \cup Compound, name : Idents \cup {""},
          literal : Literals, keys : Seq(STRING), items : Seq(P)] :
     /\ p.kind = "Bind" => p.name # ""
     /\ p.kind \notin {"Bind", "Rest"} => p.name = ""
     /\ p.kind # "Literal" => p.literal = NoLiteral
     /\ p.kind \notin Compound => p.items = <<>>
     /\ p.kind \in {"Err", "Some"} => Len(p.items) = 2
     /\ Len(p.keys) = IF p.kind = "Map" THEN Len(p.items) ELSE 0
     /\ p.kind = "List" => \A i \in DOMAIN p.items : p.items[i].kind = "Rest" => i = Len(p.items)}

\* A lambda is applied where it stands.
ExpressionsOver(E, P) ==
  [kind : {"Var"}, name : Idents]
    \cup [kind : {"Literal"}, literal : Literals]
    \cup [kind : {"Binary"}, op : {"==", ">"}, left : E, right : E]
    \cup [kind : {"Apply"}, param : P, body : E, arg : E]

\* One level more.
TermsOver(t) ==
  [values |-> ValuesOver(t.values),
   patterns |-> PatternsOver(t.patterns),
   expressions |-> ExpressionsOver(t.expressions, t.patterns)]

NoTerms == [values |-> {}, patterns |-> {}, expressions |-> {}]

Terms[d \in 0..Depth] == IF d = 0 THEN NoTerms ELSE TermsOver(Terms[d - 1])

Subjects == Terms[Depth].values
Patterns == Terms[Depth].patterns
Expressions == Terms[Depth].expressions

Bindings == Seq(Idents \X Subjects)

\* A single pattern counts as a tuple of one.
AsTuple(p) ==
  IF p.kind = "Tuple"
  THEN p
  ELSE [kind |-> "Tuple", name |-> "", literal |-> NoLiteral, keys |-> <<>>, items |-> <<p>>]

NoGuard == <<>>
Clause(pattern, guard) == [pattern |-> pattern, guard |-> guard]
ClauseRecords ==
  [pattern : {p \in Patterns : AsTuple(p) \in Patterns}, guard : {g \in Seq(Expressions) : Len(g) <= 1}]

-----------------------------------------------------------------------------
\* Matching.

\* Numbers are equal by value; an outcome equals nothing, not even itself.
Equals[v \in Subjects] ==
  {w \in Subjects :
     CASE v.kind \in {"Integer", "Decimal"} -> w.kind \in {"Integer", "Decimal"} /\ v.n = w.n
       [] v.kind \in {"Boolean", "String"} -> v = w
       [] v.kind = "List" ->
            /\ w.kind = "List" /\ Len(v.items) = Len(w.items)
            /\ \A i \in DOMAIN v.items : w.items[i] \in Equals[v.items[i]]
       [] v.kind = "Map" ->
            /\ w.kind = "Map" /\ {a[1] : a \in v.map} = {b[1] : b \in w.map}
            /\ \A a \in v.map, b \in w.map : a[1] = b[1] => b[2] \in Equals[a[2]]
       [] v.kind = "Outcome" -> FALSE}

\* A match is a set of at most one sequence of bindings <<name, value>>.
NoMatch == {}
Matched(bindings) == {bindings}

\* A name may be bound again, to an equal value.
Compatible(into, from) ==
  \A i \in DOMAIN into, j \in DOMAIN from : into[i][1] = from[j][1] => from[j][2] \in Equals[into[i][2]]

Joined(into, from) ==
  {ab[1] \o ab[2] : ab \in {ab \in into \X from : Compatible(ab[1], ab[2])}}

Merged(results) ==
  LET upto[i \in 0..Len(results)] == IF i = 0 THEN Matched(<<>>) ELSE Joined(upto[i - 1], results[i])
  IN  upto[Len(results)]

\* A list is taken apart element by element; a Rest at the end takes what is left.
Elements(items, elements) ==
  LET n == Len(items)
  IN  IF n > 0 /\ items[n].kind = "Rest"
      THEN IF Len(elements) < n - 1
           THEN {}
           ELSE {Append(SubSeq(elements, 1, n - 1), ListValue(SubSeq(elements, n, Len(elements))))}
      ELSE IF Len(elements) = n THEN {elements} ELSE {}

\* The keys of a map pattern must be there; others may be.
Found(keys, map) ==
  IF \A i \in DOMAIN keys : \E entry \in map : entry[1] = keys[i]
  THEN {[i \in DOMAIN keys |-> (CHOOSE entry \in map : entry[1] = keys[i])[2]]}
  ELSE {}

\* What the items of p are matched against, if v has the shape of p.  A tuple
\* is never inside another pattern.
Parts(p, v) ==
  CASE p.kind = "List" /\ v.kind = "List" -> Elements(p.items, v.items)
    [] p.kind = "Map" /\ v.kind = "Map" -> Found(p.keys, v.map)
    [] p.kind \in {"Err", "Some"} /\ v.kind = "Outcome" -> IF v.case = p.kind THEN {v.parts} ELSE {}
    [] OTHER -> {}

MatchAtom[p \in Patterns] ==
  [v \in Subjects |->
     CASE p.kind = "Wildcard" -> Matched(<<>>)
       [] p.kind \in {"Bind", "Rest"} -> Matched(IF p.name = "" THEN <<>> ELSE << <<p.name, v>> >>)
       [] p.kind = "Literal" -> IF v \in Equals[p.literal.value] THEN Matched(<<>>) ELSE NoMatch
       [] OTHER ->
            UNION {Merged([i \in DOMAIN p.items |-> MatchAtom[p.items[i]][parts[i]]]) : parts \in Parts(p, v)}]

\* A tuple takes as many arguments as it has items, any other pattern one.
Match(p, args) ==
  LET items == AsTuple(p).items
  IN  IF Len(items) = Len(args)
      THEN Merged([i \in DOMAIN items |-> MatchAtom[items[i]][args[i]]])
      ELSE NoMatch

-----------------------------------------------------------------------------
\* Guards.

\* The places of a name that no later one shadows: one, or none.
Latest(name, names) ==
  {k \in DOMAIN names : names[k] = name /\ \A j \in DOMAIN names : names[j] = name => j <= k}

NamesOf(bindings) == [k \in DOMAIN bindings |-> bindings[k][1]]

Lookup(name, scope) == {scope[k][2] : k \in Latest(name, NamesOf(scope))}

Fails(why) == [kind |-> "fails", why |-> why]

\* A decimal is true, zero or not.
Truthy(v) ==
  CASE v.kind = "Integer" -> v.n # 0
    [] v.kind = "Boolean" -> v.b
    [] v.kind = "String" -> v.text # ""
    [] v.kind = "List" -> v.items # <<>>
    [] v.kind = "Outcome" -> v.case # "None"
    [] v.kind \in {"Decimal", "Map"} -> TRUE

Operate(op, l, r) ==
  CASE l.kind = "fails" -> l
    [] l.kind # "fails" /\ r.kind = "fails" -> r
    [] OTHER -> CASE op = "==" -> Boolean(r \in Equals[l])
                  [] op = ">" -> IF {l.kind, r.kind} \subseteq {"Integer", "Decimal"}
                                 THEN Boolean(l.n > r.n)
                                 ELSE Fails("unsupported")

Eval[e \in Expressions] ==
  [scope \in Bindings |->
     CASE e.kind = "Var" ->
            IF Lookup(e.name, scope) = {} THEN Fails("error") ELSE CHOOSE v \in Lookup(e.name, scope) : TRUE
       [] e.kind = "Literal" -> e.literal.value
       [] e.kind = "Binary" -> Operate(e.op, Eval[e.left][scope], Eval[e.right][scope])
       [] OTHER ->
            LET arg == Eval[e.arg][scope]
                bindings == MatchAtom[e.param][arg]
            IN  IF arg.kind = "fails" THEN arg
                ELSE IF bindings = NoMatch THEN Fails("unsupported")
                ELSE Eval[e.body][scope \o CHOOSE b \in bindings : TRUE]]

\* Whether the clause takes these arguments, where globals is bound around it.
\* A guard that fails ends the search.
Takes(clause, args, globals) ==
  LET bindings == Match(clause.pattern, args)
      value == Eval[clause.guard[1]][globals \o CHOOSE b \in bindings : TRUE]
  IN  CASE bindings = NoMatch -> "no"
        [] bindings # NoMatch /\ clause.guard = NoGuard -> "yes"
        [] OTHER -> IF value.kind = "fails" THEN value.why ELSE IF Truthy(value) THEN "yes" ELSE "no"

-----------------------------------------------------------------------------
\* Dispatch keys.

\* Each step adds the names it is the first to bind.
Walk(steps, seen) ==
  LET after[i \in 0..Len(steps)] == IF i = 0 THEN seen ELSE steps[i][after[i - 1]]
  IN  after[Len(steps)]

Binders[p \in Patterns] ==
  [seen \in Seq(Idents) |->
     IF p.name \in Idents \ ToSet(seen)
     THEN Append(seen, p.name)
     ELSE Walk([i \in DOMAIN p.items |-> Binders[p.items[i]]], seen)]

Bound(p) == ToSet(Binders[p][<<>>])

\* mutant: a binder counts as a binder, whatever its name.
SlotsAlike(name, scope) == IF name \in ToSet(scope) THEN {1} ELSE {}

\* The slot of a name is its place in the scope.
Slots(name, scope) == Latest(name, scope)

\* mutant: a literal is keyed as it is written.
SpellingAsWritten(literal) == literal

Spelling(literal) == literal.value

PatternKey[p \in Patterns] ==
  [scope \in Seq(Idents) |->
     [kind |-> p.kind, slot |-> Slots(p.name, scope), literal |-> Spelling(p.literal), keys |-> p.keys,
      items |-> [i \in DOMAIN p.items |-> PatternKey[p.items[i]][scope]]]]

Reference(name, scope) ==
  [slot |-> Slots(name, scope), free |-> IF Slots(name, scope) = {} THEN {name} ELSE {}]

\* The names a lambda binds get slots of their own, above those in scope.
LambdaScope(param, scope) == scope \o Binders[param][<<>>]

ExpressionKey[e \in Expressions] ==
  [scope \in Seq(Idents) |->
     CASE e.kind = "Var" -> [kind |-> e.kind, name |-> Reference(e.name, scope)]
       [] e.kind = "Literal" -> [kind |-> e.kind, literal |-> Spelling(e.literal)]
       [] e.kind = "Binary" ->
            [kind |-> e.kind, op |-> e.op, left |-> ExpressionKey[e.left][scope],
             right |-> ExpressionKey[e.right][scope]]
       [] OTHER ->
            LET inner == LambdaScope(e.param, scope)
            IN  [kind |-> e.kind, param |-> PatternKey[e.param][inner], body |-> ExpressionKey[e.body][inner],
                 arg |-> ExpressionKey[e.arg][scope]]]

ClauseKey(clause) ==
  LET tuple == AsTuple(clause.pattern)
      scope == LambdaScope(tuple, <<>>)
  IN  [pattern |-> PatternKey[tuple][scope],
       guard |-> [i \in DOMAIN clause.guard |-> ExpressionKey[clause.guard[i]][scope]]]

-----------------------------------------------------------------------------
\* The reference for keys: the same clause up to the names it binds.

\* The names of one clause, each with its name in the other.
Pairings == {pairs \in SUBSET (Idents \X Idents) : \A a, b \in pairs : a[1] = b[1] <=> a[2] = b[2]}

SameLiteral(k, l) == [k EXCEPT !.zeros = 0] = [l EXCEPT !.zeros = 0]

\* The pairings under which q is p.
LikePattern[p \in Patterns] ==
  [q \in Patterns |->
     {pairs \in Pairings :
        /\ p.kind = q.kind /\ p.keys = q.keys /\ Len(p.items) = Len(q.items)
        /\ SameLiteral(p.literal, q.literal)
        /\ (p.name = "" /\ q.name = "") \/ <<p.name, q.name>> \in pairs
        /\ \A i \in DOMAIN p.items : pairs \in LikePattern[p.items[i]][q.items[i]]}]

\* The pairing of just the names that p and q bind.
Renames(pairs, p, q) == pairs \in LikePattern[p][q] /\ pairs \subseteq Bound(p) \X Bound(q)

Mentions(pairs, n, m) == \E a \in pairs : a[1] = n \/ a[2] = m

\* Of the pairings around two names, innermost last, the innermost that mentions
\* either of them pairs them; names that none mentions are free, and the same.
Related(n, m, layers) ==
  \/ \E k \in DOMAIN layers :
       <<n, m>> \in layers[k] /\ \A j \in DOMAIN layers : j > k => ~Mentions(layers[j], n, m)
  \/ n = m /\ \A j \in DOMAIN layers : ~Mentions(layers[j], n, m)

\* The layers of pairings under which f is e.
LikeExpression[e \in Expressions] ==
  [f \in Expressions |->
     {layers \in Seq(Pairings) :
        /\ e.kind = f.kind
        /\ CASE e.kind = "Var" -> Related(e.name, f.name, layers)
             [] e.kind = "Literal" -> SameLiteral(e.literal, f.literal)
             [] e.kind = "Binary" ->
                  /\ e.op = f.op
                  /\ layers \in LikeExpression[e.left][f.left]
                  /\ layers \in LikeExpression[e.right][f.right]
             [] OTHER ->
                  /\ \E pairs \in Pairings : /\ Renames(pairs, e.param, f.param)
                                             /\ Append(layers, pairs) \in LikeExpression[e.body][f.body]
                  /\ layers \in LikeExpression[e.arg][f.arg]}]

SameUpToNames(c, d) ==
  \E pairs \in Pairings :
    /\ Renames(pairs, AsTuple(c.pattern), AsTuple(d.pattern))
    /\ Len(c.guard) = Len(d.guard)
    /\ \A i \in DOMAIN c.guard : <<pairs>> \in LikeExpression[c.guard[i]][d.guard[i]]
=============================================================================
