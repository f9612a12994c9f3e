------------------------------ MODULE MCSession ------------------------------
(* Scripts and sources over a few names, with concrete clauses and arguments. *)
EXTENDS Dispatch

Pattern(kind) == [kind |-> kind, name |-> "", literal |-> NoLiteral, keys |-> <<>>, items |-> <<>>]
Bind(n) == [Pattern("Bind") EXCEPT !.name = n]
Rest(n) == [Pattern("Rest") EXCEPT !.name = n]
Wild == Pattern("Wildcard")
Lit(kind, zeros, n) == [Pattern("Literal") EXCEPT !.literal = [zeros |-> zeros, value |-> [kind |-> kind, n |-> n]]]
Tuple(items) == [Pattern("Tuple") EXCEPT !.items = items]
ListOf(items) == [Pattern("List") EXCEPT !.items = items]
MapOf(key, p) == [Pattern("Map") EXCEPT !.keys = <<key>>, !.items = <<p>>]
SomeOf(p) == [Pattern("Some") EXCEPT !.items = <<p, Wild>>]
Var(n) == [kind |-> "Var", name |-> n]
Num(n) == [kind |-> "Literal", literal |-> [zeros |-> 0, value |-> Integer(n)]]
Binary(op, l, r) == [kind |-> "Binary", op |-> op, left |-> l, right |-> r]
Apply(p, body, arg) == [kind |-> "Apply", param |-> p, body |-> body, arg |-> arg]

One(p) == Clause(Tuple(<<p>>), NoGuard)
When(p, guard) == Clause(Tuple(<<p>>), <<guard>>)

AllTable == [
  x         |-> One(Bind("x")),
  y         |-> One(Bind("y")),
  any       |-> One(Wild),
  single    |-> Clause(Bind("x"), NoGuard),
  zero      |-> One(Lit("Integer", 0, 0)),
  zeros     |-> One(Lit("Integer", 2, 0)),
  decimal   |-> One(Lit("Decimal", 0, 0)),
  xx        |-> One(ListOf(<<Bind("x"), Bind("x")>>)),
  yy        |-> One(ListOf(<<Bind("y"), Bind("y")>>)),
  xy        |-> One(ListOf(<<Bind("x"), Bind("y")>>)),
  rest      |-> One(ListOf(<<Bind("x"), Rest("y")>>)),
  restless  |-> One(ListOf(<<Bind("x"), Rest("")>>)),
  map       |-> One(MapOf("k", Bind("x"))),
  some      |-> One(SomeOf(Bind("x"))),
  none      |-> Clause(Tuple(<<>>), NoGuard),
  pair      |-> Clause(Tuple(<<Bind("x"), Bind("y")>>), NoGuard),
  same      |-> Clause(Tuple(<<Bind("x"), Bind("x")>>), NoGuard),
  above     |-> When(Bind("x"), Binary(">", Var("x"), Num(0))),
  aboveY    |-> When(Bind("y"), Binary(">", Var("y"), Num(0))),
  limit     |-> When(Bind("x"), Binary(">", Var("x"), Var("limit"))),
  ownLimit  |-> When(Bind("limit"), Binary(">", Var("limit"), Var("limit"))),
  missing   |-> When(Bind("x"), Binary("==", Var("missing"), Var("x"))),
  lambda    |-> When(Bind("x"), Apply(Bind("y"), Binary("==", Var("y"), Var("x")), Num(1))),
  lambdaY   |-> When(Bind("y"), Apply(Bind("x"), Binary("==", Var("x"), Var("y")), Num(1))),
  shadow    |-> When(Bind("x"), Apply(Bind("x"), Binary("==", Var("x"), Var("x")), Num(1)))]

AllClauses == DOMAIN AllTable
AllIdents == {"x", "y", "limit", "missing"}
AllGlobals == << <<"limit", Integer(1)>> >>

AllArgs == {
  <<>>, <<Integer(0)>>, <<Integer(1)>>, <<Integer(2)>>,
  <<Integer(1), Integer(1)>>, <<Integer(0), Integer(1)>>,
  <<ListValue(<<Integer(1)>>)>>,
  <<ListValue(<<Integer(1), Integer(1)>>)>>,
  <<ListValue(<<Integer(0), Integer(1)>>)>>,
  <<[kind |-> "Map", map |-> {<<"k", Integer(0)>>}]>>,
  <<[kind |-> "Outcome", case |-> "Some", parts |-> <<Integer(1), Boolean(FALSE)>>]>>}

\* Computed once.
Keys == [c \in AllClauses |-> ClauseKey(AllTable[c])]
Verdicts == [c \in AllClauses |-> [args \in AllArgs |-> Takes(AllTable[c], args, AllGlobals)]]

KeyOf(c) == Keys[c]
VerdictOf(c, args) == Verdicts[c][args]

AllPrelude == <<Ordinary("sum", NoDoc, [arity |-> 1, clauses |-> <<"x">>])>>

-----------------------------------------------------------------------------
Fn(n, arity, clauses, doc) ==
  [kind |-> "function", name |-> n, plain |-> TRUE, arity |-> arity, clauses |-> clauses, doc |-> doc]
OpenFn(n, clauses) == [kind |-> "open", name |-> n, clauses |-> clauses]
More(n, clauses) == [Fn(n, 1, clauses, NoDoc) EXCEPT !.plain = FALSE]
Header(n) == [Fn(n, 1, <<"x">>, NoDoc) EXCEPT !.kind = "header"]
Alias(n, from) == [kind |-> "alias", name |-> n, from |-> from]
Assign(n, outcome) == [kind |-> "assign", name |-> n, outcome |-> outcome]
Call(n, args) == [kind |-> "call", name |-> n, args |-> args]
Expr(outcome) == [kind |-> "expression", outcome |-> outcome]
Stray == [kind |-> "stray"]

\* A definition is not shown: its line ends in an expression.
Shown(s) == <<s, Expr("value")>>

AllLines ==
  {Shown(s) : s \in
     {OpenFn("f", <<c>>) : c \in AllClauses}
       \cup {Fn("f", 1, <<"x">>, NoDoc), Fn("f", 2, <<"pair">>, "d1"), Fn("f", 1, <<"zero", "above">>, "d2"),
             Fn("g", 2, <<"pair">>, NoDoc), Fn("sum", 2, <<"pair">>, NoDoc), Fn("sum", 1, <<"y">>, NoDoc),
             OpenFn("f", <<"zero", "x", "zeros">>), OpenFn("g", <<"y">>), OpenFn("sum", <<"any">>),
             Alias("g", "f"), Alias("f", "g"), Assign("f", "value"), Assign("g", "flow")}}
    \cup {<<>>, <<Header("f")>>, <<Stray>>, <<Expr("value")>>, <<Expr("error")>>, <<Expr("flow")>>,
          <<OpenFn("f", <<"zero">>), More("f", <<"x">>), Expr("value")>>,
          <<OpenFn("f", <<"zero">>), Expr("value"), Fn("f", 1, <<"x">>, NoDoc), Expr("nil")>>,
          <<More("f", <<"x">>)>>}
    \cup {<<Call("f", args)>> : args \in {<<Integer(0)>>, <<Integer(0), Integer(1)>>}}

AllSources == {
  <<>>, <<Stray>>, <<Header("main")>>,
  <<Fn("main", 0, <<"none">>, NoDoc)>>,
  <<Fn("main", 0, <<"none">>, NoDoc), Fn("main", 1, <<"x">>, NoDoc)>>,
  <<Fn("main", 1, <<"xx">>, NoDoc), Fn("main", 0, <<"none">>, NoDoc)>>,
  <<OpenFn("main", <<"none">>), Expr("value")>>,
  <<OpenFn("f", <<"zero">>), Expr("value"), More("f", <<"zeros">>), Expr("value")>>,
  <<OpenFn("f", <<"zero">>), OpenFn("f", <<"x">>)>>,
  <<Alias("main", "sum"), Expr("nil")>>,
  <<Assign("g", "value"), Call("g", <<>>)>>,
  <<Fn("f", 1, <<"limit">>, "d1"), Alias("g", "f"), Fn("f", 2, <<"pair">>, "d2")>>,
  <<Expr("flow"), Expr("value")>>}

ArgvList == <<ListValue(<<Integer(1)>>)>>
EmptyArgs == <<>>

=============================================================================
