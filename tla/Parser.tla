-------------------------------- MODULE Parser --------------------------------
(***************************************************************************)
(* The recursive-descent parser.  A text is a sequence of items: a token   *)
(* each, by its text, and line ends.  A position is an index into the      *)
(* tokens; d is the nesting around it.                                     *)
(***************************************************************************)
EXTENDS Naturals, SequencesExt

CONSTANTS
  Identifiers,   \* the tokens that are identifiers, the words below among them
  Integers,
  Strings,
  Dotted,        \* identifiers with one dot in them: from the token to its two parts
  MaxDepth       \* kMaxNestingDepth, 300 in the code

ASSUME ParserAssumption == MaxDepth \in Nat

Forbidden == {"pattern", "extend", "use"}           \* at the start of a statement
Reserved == {"none", "some", "nil", "import", "quote", "delay", "quasiquote", "unquote", "unquote_splicing"}

\* The tokens of a text; a token has its line.
Tokenize(text) ==
  LET Line(i) == Cardinality({j \in 1..(i - 1) : text[j] = "\n"})
  IN  SelectSeq([i \in DOMAIN text |-> [text |-> text[i], line |-> Line(i)]], LAMBDA token : token.text # "\n")

\* A parser t has tokens and the names of the open functions it has parsed.
Peek(t, p) == IF p \in DOMAIN t.tokens THEN t.tokens[p].text ELSE "end"
IsIdent(t, p) == Peek(t, p) \in Identifiers

\* What a production gives: a tree and the position behind it, or nothing.
\* One that did not commit itself leaves the position where it was.
Parsed(tree, next) == [ok |-> TRUE, tree |-> tree, next |-> next, committed |-> TRUE]
Unparsed == [ok |-> FALSE, committed |-> TRUE]
Restored == [ok |-> FALSE, committed |-> FALSE]

Then(r, Rest(_, _)) == IF r.ok THEN Rest(r.tree, r.next) ELSE Unparsed
ElseIf(r, other) == IF r.ok THEN r ELSE other
Unless(r, other) == IF r.committed THEN r ELSE other
Expect(t, p, token, r) == IF Peek(t, p) = token THEN r ELSE Unparsed

\* Items with commas between them, behind an open bracket.  The lists of
\* arguments and of list items may end in a comma.
ListOf(t, p, close, trailing, Item(_)) ==
  LET RECURSIVE From(_, _)
      After(items, next) ==
        CASE Peek(t, next) = close -> Parsed(items, next + 1)
          [] Peek(t, next) # ","   -> Unparsed
          [] trailing /\ Peek(t, next + 1) = close -> Parsed(items, next + 2)
          [] OTHER                 -> From(next + 1, items)
      From(q, items) == Then(Item(q), LAMBDA item, next : After(Append(items, item), next))
  IN  IF Peek(t, p) = close THEN Parsed(<<>>, p + 1) ELSE From(p, <<>>)

-----------------------------------------------------------------------------
\* Patterns.

RECURSIVE Parse(_, _, _, _)

Patterns(t, p, close, d) == ListOf(t, p, close, FALSE, LAMBDA q : Parse("Pattern", t, q, d))

\* err(reason, context) and some(value, context).
OutcomePattern(t, p, d) ==
  Then(Patterns(t, p + 2, ")", d),
       LAMBDA items, next : IF Len(items) = 2 THEN Parsed(<<Peek(t, p), items>>, next) ELSE Unparsed)

\* The name of a rest is optional, and "_" is none.
RestPattern(t, p) ==
  CASE Peek(t, p + 1) = "_" -> Parsed(<<"rest", "">>, p + 2)
    [] IsIdent(t, p + 1)    -> Parsed(<<"rest", Peek(t, p + 1)>>, p + 2)
    [] OTHER                -> Parsed(<<"rest", "">>, p + 1)

ListPattern(t, p, d) ==
  LET Item(q) == IF Peek(t, q) = ".." THEN RestPattern(t, q) ELSE Parse("Pattern", t, q, d)
  IN  Then(ListOf(t, p + 1, "]", FALSE, Item),
           LAMBDA items, next : IF \A i \in DOMAIN items : items[i][1] = "rest" => i = Len(items)
                                THEN Parsed(<<"list", items>>, next) ELSE Unparsed)

MapPattern(t, p, d) ==
  LET Entry(q) ==
        CASE ~IsIdent(t, q)        -> Unparsed
          [] Peek(t, q + 1) = ":" -> Then(Parse("Pattern", t, q + 2, d), LAMBDA value, next : Parsed(<<Peek(t, q), value>>, next))
          [] OTHER                 -> Parsed(<<Peek(t, q), <<"bind", Peek(t, q)>>>>, q + 1)
  IN  Then(ListOf(t, p + 1, "}", FALSE, Entry), LAMBDA entries, next : Parsed(<<"map", entries>>, next))

ParsePattern(t, p, around) ==
  LET d == around + 1
      c == Peek(t, p)
  IN  CASE d > MaxDepth                  -> Unparsed
        [] c \in Strings \cup Integers   -> Parsed(<<"literal", c>>, p + 1)
        [] c = "_"                       -> Parsed(<<"wildcard">>, p + 1)
        [] c \in {"err", "some"} /\ Peek(t, p + 1) = "(" -> OutcomePattern(t, p, d)
        [] c \in Identifiers             -> Parsed(<<"bind", c>>, p + 1)
        [] c = "["                       -> ListPattern(t, p, d)
        [] c = "{"                       -> MapPattern(t, p, d)
        [] OTHER                         -> Unparsed

CasePattern(t, p, d) ==
  IF Peek(t, p) = "(" THEN Then(Patterns(t, p + 1, ")", d), LAMBDA items, next : Parsed(<<"tuple", items>>, next))
  ELSE Parse("Pattern", t, p, d)

LooksLikeCase(t, p, d) ==
  Then(Parse("CasePattern", t, p, d), LAMBDA pattern, next : IF Peek(t, next) \in {"->", "?"} THEN Parsed(pattern, next) ELSE Unparsed).ok

-----------------------------------------------------------------------------
\* Expressions, the level that binds loosest first.

RECURSIVE ParseBinary(_, _, _, _)

\* A call of anything but a name is not supported.
ParseFactorChecked(t, p, d) ==
  Then(Parse("Factor", t, p, d), LAMBDA tree, next : IF Peek(t, next) = "(" THEN Unparsed ELSE Parsed(tree, next))

\* mutant: equality binds as tightly as addition.
LevelsWithoutEquality == <<{"|>"}, {}, {"<", "<=", ">", ">="}, {"+", "-", "==", "!="}, {"*", "/", "%"}>>

\* The operators of a pipeline, an expression, a comparison, a sum and a term.
Levels == <<{"|>"}, {"==", "!="}, {"<", "<=", ">", ">="}, {"+", "-"}, {"*", "/", "%"}>>

\* Operands with operators of one level between them; left is what stands before
\* the operator in front of q, if there is one.
ParseBinary(t, p, d, level) ==
  LET RECURSIVE From(_, _)
      Applied(left, q, right) == IF left = <<>> THEN right ELSE <<"binary", Peek(t, q - 1), left, right>>
      More(tree, next) == IF Peek(t, next) \in Levels[level] THEN From(tree, next + 1) ELSE Parsed(tree, next)
      From(left, q) == Then(ParseBinary(t, q, d, level + 1), LAMBDA right, next : More(Applied(left, q, right), next))
  IN  IF level > Len(Levels) THEN ParseFactorChecked(t, p, d) ELSE From(<<>>, p)

ParseListItem(t, p, d) ==
  IF Peek(t, p) = ".." THEN Then(Parse("Expr", t, p + 1, d), LAMBDA tree, next : Parsed(<<"spread", tree>>, next))
  ELSE Parse("Expr", t, p, d)

ParseMapLiteral(t, p, d) ==
  LET Entry(q) ==
        IF Peek(t, q) \in Identifiers \cup Strings
        THEN Expect(t, q + 1, ":", Then(Parse("Expr", t, q + 2, d), LAMBDA tree, next : Parsed(<<Peek(t, q), tree>>, next)))
        ELSE Unparsed
  IN  Then(ListOf(t, p + 1, "}", FALSE, Entry), LAMBDA entries, next : Parsed(<<"map", entries>>, next))

\* Expressions up to a closing brace.
LambdaBlock(t, p, d) ==
  LET RECURSIVE From(_, _)
      From(q, trees) ==
        IF Peek(t, q) = "}" THEN Parsed(trees, q + 1)
        ELSE Then(Parse("Expr", t, q, d), LAMBDA tree, next : From(next, Append(trees, tree)))
  IN  From(p, <<>>)

\* An expression may follow an empty block.
LambdaBody(t, p, d) ==
  IF Peek(t, p) # "{" THEN Parse("Expr", t, p, d)
  ELSE Then(LambdaBlock(t, p + 1, d),
            LAMBDA trees, next : IF trees = <<>> THEN Parse("Expr", t, next, d) ELSE Parsed(<<"block", trees>>, next))

TryLambda(t, p, d) ==
  Then(Patterns(t, p + 1, ")", d),
       LAMBDA params, arrow :
         Expect(t, arrow, "->", Then(LambdaBody(t, arrow + 1, d), LAMBDA tree, next : Parsed(<<"lambda", params, tree>>, next))))

Group(t, p, d) == Then(Parse("Pipeline", t, p + 1, d), LAMBDA tree, close : Expect(t, close, ")", Parsed(tree, close + 1)))

LambdaOrGroup(t, p, d) == ElseIf(TryLambda(t, p, d), Group(t, p, d))

\* Only a number is quoted.
Quote(t, p, d) ==
  Then(Parse("Expr", t, p + 2, d),
       LAMBDA tree, close : Expect(t, close, ")", IF tree[1] = "literal" THEN Parsed(<<Peek(t, p), tree>>, close + 1) ELSE Unparsed))

Call(t, p, d) ==
  Then(ListOf(t, p + 2, ")", TRUE, LAMBDA q : Parse("Expr", t, q, d)), LAMBDA args, next : Parsed(<<"call", Peek(t, p), args>>, next))

Name(t, p, d) ==
  LET c == Peek(t, p)
      called == Peek(t, p + 1) = "("
  IN  CASE c \in {"true", "false"}                         -> Parsed(<<"boolean", c>>, p + 1)
        [] c \in {"quote", "quasiquote"} /\ called         -> Quote(t, p, d)
        [] c \in Reserved /\ ~(c = "none" /\ called)       -> Unparsed
        [] called                                          -> Call(t, p, d)
        [] c \in DOMAIN Dotted                             -> Parsed(<<"access", Dotted[c]>>, p + 1)
        [] OTHER                                           -> Parsed(<<"var", c>>, p + 1)

ParseFactor(t, p, around) ==
  LET d == around + 1
      c == Peek(t, p)
  IN  CASE d > MaxDepth       -> Unparsed
        [] c = "-"            -> Then(Parse("Factor", t, p + 1, d), LAMBDA tree, next : Parsed(<<"unary", tree>>, next))
        [] c \in Integers     -> Parsed(<<"literal", c>>, p + 1)
        [] c \in Strings      -> Parsed(<<"string", c>>, p + 1)
        [] c = "["            -> Then(ListOf(t, p + 1, "]", TRUE, LAMBDA q : ParseListItem(t, q, d)),
                                      LAMBDA items, next : Parsed(<<"list", items>>, next))
        [] c = "{"            -> ParseMapLiteral(t, p, d)
        [] c = "("            -> LambdaOrGroup(t, p, d)
        [] c \in Identifiers  -> Name(t, p, d)
        [] OTHER              -> Unparsed

-----------------------------------------------------------------------------
\* Clauses: a pattern, a guard and a result.

NoGuard == <<>>
Guard(t, p, d) == IF Peek(t, p) = "?" THEN Parse("Pipeline", t, p + 1, d) ELSE Parsed(NoGuard, p)

ParseCases(t, p, d) ==
  LET RECURSIVE From(_, _)
      Clause(q) ==
        Then(Parse("CasePattern", t, q, d), LAMBDA pattern, behind :
          Then(Guard(t, behind, d), LAMBDA guard, arrow :
            Expect(t, arrow, "->", Then(Parse("Pipeline", t, arrow + 1, d), LAMBDA result, next :
              Parsed(<<pattern, guard, result>>, next)))))
      From(q, clauses) ==
        Then(Clause(q), LAMBDA clause, next :
          IF Peek(t, next) = "|" THEN From(next + 1, Append(clauses, clause)) ELSE Parsed(Append(clauses, clause), next))
  IN  From(p, <<>>)

-----------------------------------------------------------------------------
\* Header capture: a result that refers to a name of the header.

RECURSIVE BoundNames(_)
BoundNames(pattern) ==
  CASE pattern[1] \in {"bind", "rest"} -> {pattern[2]} \ {""}
    [] pattern[1] = "map" -> UNION {BoundNames(pattern[2][i][2]) : i \in DOMAIN pattern[2]}
    [] pattern[1] \in {"list", "tuple", "err", "some"} -> UNION {BoundNames(pattern[2][i]) : i \in DOMAIN pattern[2]}
    [] OTHER -> {}

RECURSIVE HasFreeReference(_, _, _)
HasFreeReference(tree, watched, bound) ==
  LET Refers(name) == name \in watched \ bound
      AnyOf(trees) == \E i \in DOMAIN trees : HasFreeReference(trees[i], watched, bound)
  IN  CASE tree[1] = "var"    -> Refers(tree[2])
        [] tree[1] = "call"   -> Refers(tree[2]) \/ AnyOf(tree[3])
        [] tree[1] = "binary" -> AnyOf(<<tree[3], tree[4]>>)
        [] tree[1] = "access" -> \E i \in {1, 2} : Refers(tree[2][i])
        [] tree[1] \in {"unary", "spread"} -> AnyOf(<<tree[2]>>)
        [] tree[1] \in {"list", "block"} -> AnyOf(tree[2])
        [] tree[1] = "map"    -> \E i \in DOMAIN tree[2] : AnyOf(<<tree[2][i][2]>>)
        [] tree[1] = "lambda" ->
             HasFreeReference(tree[3], watched, bound \cup UNION {BoundNames(tree[2][i]) : i \in DOMAIN tree[2]})
        [] OTHER -> FALSE

CapturesHeader(header, pattern, tree) ==
  LET watched == {header[i][2] : i \in {j \in DOMAIN header : header[j][1] = "bind"}} \ BoundNames(pattern)
  IN  tree # NoGuard /\ HasFreeReference(tree, watched, {})

-----------------------------------------------------------------------------
\* Statements.

\* A block holds no definitions.
FunctionBlock(t, p, around) ==
  LET d == around + 1
      RECURSIVE From(_, _)
      From(q, trees) ==
        CASE Peek(t, q) = "}" -> IF trees = <<>> THEN Unparsed ELSE Parsed(<<"block", trees>>, q + 1)
          [] Peek(t, q) = ";" -> From(q + 1, trees)
          [] Peek(t, q) \in {"end", "open"} -> Unparsed
          [] OTHER -> Then(Parse("Statement", t, q, d), LAMBDA tree, next :
                        IF tree[1] \in {"function", "open"} THEN Unparsed ELSE From(next, Append(trees, tree)))
  IN  IF d > MaxDepth THEN Unparsed ELSE From(p + 1, <<>>)

FunctionBody(t, p, d) ==
  CASE LooksLikeCase(t, p, d) -> Then(ParseCases(t, p, d), LAMBDA clauses, next : Parsed(<<"cases", clauses>>, next))
    [] Peek(t, p) = "{" /\ Peek(t, p + 1) # "}" /\ Peek(t, p + 2) # ":" -> FunctionBlock(t, p, d)
    [] OTHER -> Parse("Pipeline", t, p, d)

\* A string in front of a body on the same line documents the function.
IsDocstring(t, p, d) ==
  /\ Peek(t, p) \in Strings /\ p + 1 \in DOMAIN t.tokens
  /\ Peek(t, p + 1) \in Identifiers \cup Integers \cup Strings \cup {"(", "[", "{"}
  /\ t.tokens[p].line = t.tokens[p + 1].line
  /\ ~LooksLikeCase(t, p, d)

\* What stands behind the parameters.
Function(name, params, doc, r) == Then(r, LAMBDA body, next : Parsed(<<"function", name, params, doc, body>>, next))
Equation(t, p, d, name, params, documented) ==
  Function(name, params, IF documented THEN Peek(t, p) ELSE "", FunctionBody(t, IF documented THEN p + 1 ELSE p, d))
Declared(t, p, d, name, params) ==
  CASE Peek(t, p) = "->" -> Function(name, params, "", Parse("Pipeline", t, p + 1, d))
    [] Peek(t, p) = "="  -> Equation(t, p + 1, d, name, params, IsDocstring(t, p + 1, d))
    [] OTHER             -> Restored

Names(t, p) == ListOf(t, p, ")", FALSE, LAMBDA q : IF IsIdent(t, q) THEN Parsed(Peek(t, q), q + 1) ELSE Unparsed)

TryFunction(t, p, d) ==
  LET header == Names(t, p + 2)
  IN  IF IsIdent(t, p) /\ Peek(t, p + 1) = "(" /\ header.ok THEN Declared(t, header.next, d, Peek(t, p), header.tree) ELSE Restored

\* The clauses behind the name of an open function.
OpenClauses(t, p, d) ==
  LET Arms(header, guard, r) ==
        Then(r, LAMBDA arms, next :
          IF guard # NoGuard \/ \E i \in DOMAIN arms : \E k \in {2, 3} : CapturesHeader(header, arms[i][1], arms[i][k])
          THEN Unparsed ELSE Parsed(arms, next))
      Single(header, guard, r) == Then(r, LAMBDA body, next : Parsed(<<<<<<"tuple", header>>, guard, body>>>>, next))
  IN  Then(Patterns(t, p + 1, ")", d), LAMBDA header, behind :
        Then(Guard(t, behind, d), LAMBDA guard, equals :
          Expect(t, equals, "=",
            IF LooksLikeCase(t, equals + 1, d) THEN Arms(header, guard, ParseCases(t, equals + 1, d))
            ELSE Single(header, guard, Parse("Pipeline", t, equals + 1, d)))))

\* Behind the bracket that closes the one at p comes a body or a guard.
LooksLikeOpenClause(t, p) ==
  LET RECURSIVE Closed(_, _)
      Closed(q, depth) ==
        CASE depth = 0          -> q
          [] Peek(t, q) = "end" -> q
          [] OTHER              -> Closed(q + 1, CASE Peek(t, q) = "(" -> depth + 1 [] Peek(t, q) = ")" -> depth - 1 [] OTHER -> depth)
  IN  Peek(t, Closed(p + 1, 1)) \in {"=", "?"}

TryOpen(t, p, d) ==
  LET Open(name, q) == Then(OpenClauses(t, q, d), LAMBDA clauses, next : Parsed(<<"open", name, clauses>>, next))
  IN  CASE Peek(t, p) = "open" ->
             CASE ~(IsIdent(t, p + 1) /\ Peek(t, p + 2) = "(") -> Restored
               [] Peek(t, p + 1) \in t.open                    -> Unparsed
               [] OTHER                                        -> Open(Peek(t, p + 1), p + 2)
        [] Peek(t, p) \in t.open /\ Peek(t, p + 1) = "(" /\ LooksLikeOpenClause(t, p + 1) -> Open(Peek(t, p), p + 1)
        [] OTHER -> Restored

\* Declarations are tried first; one that was begun is not read as anything else.
ParseStatement(t, p, d) ==
  LET Simple == IF IsIdent(t, p) /\ Peek(t, p + 1) = "="
                THEN Then(Parse("Pipeline", t, p + 2, d), LAMBDA tree, next : Parsed(<<"assign", Peek(t, p), tree>>, next))
                ELSE Parse("Pipeline", t, p, d)
  IN  IF Peek(t, p) \in Forbidden THEN Unparsed ELSE Unless(TryOpen(t, p, d), Unless(TryFunction(t, p, d), Simple))

\* The productions by what they read, for those that come before.
Parse(symbol, t, p, d) ==
  CASE symbol = "Pattern"     -> ParsePattern(t, p, d)
    [] symbol = "CasePattern" -> CasePattern(t, p, d)
    [] symbol = "Factor"      -> ParseFactor(t, p, d)
    [] symbol = "Expr"        -> ParseBinary(t, p, d, 2)
    [] symbol = "Pipeline"    -> ParseBinary(t, p, d, 1)
    [] symbol = "Statement"   -> ParseStatement(t, p, d)

-----------------------------------------------------------------------------
\* Programs.

\* A clause behind one of the same open function joins it.
Joined(program, tree) ==
  IF tree[1] = "open" /\ program # <<>> /\ Last(program)[1] = "open" /\ Last(program)[2] = tree[2]
  THEN [program EXCEPT ![Len(program)][3] = @ \o tree[3]]
  ELSE Append(program, tree)

RECURSIVE ProgramFrom(_, _, _)
ProgramFrom(t, p, program) ==
  CASE Peek(t, p) = "end" -> Parsed(program, p)
    [] Peek(t, p) = ";"   -> ProgramFrom(t, p + 1, program)
    [] OTHER -> Then(Parse("Statement", t, p, 0), LAMBDA tree, next :
                  ProgramFrom(IF tree[1] = "open" THEN [t EXCEPT !.open = @ \cup {tree[2]}] ELSE t, next, Joined(program, tree)))

ParseProgram(text) == ProgramFrom([tokens |-> Tokenize(text), open |-> {}], 1, <<>>)
=============================================================================
