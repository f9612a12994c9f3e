------------------------------- MODULE Readings -------------------------------
(***************************************************************************)
(* How the grammar reads a text: a reference for the parser.  Rules is the *)
(* grammar at the head of the parser's source with what comments there     *)
(* add.  It is ambiguous by itself; Selected has the few rules by which    *)
(* one of several readings is meant.  All readings of every symbol from    *)
(* every token are in a chart, filled from the last token to the first.    *)
(*                                                                         *)
(* Behind the last token a text goes on with whatever is expected; such a  *)
(* reading is unfinished.                                                  *)
(***************************************************************************)
EXTENDS Parser

Words == Reserved \cup {"true", "false"}
Classes ==
  ("NAME" :> Identifiers) @@ ("BINDER" :> Identifiers \ {"_"}) @@ ("INTEGER" :> Integers) @@ ("STRING" :> Strings)
    @@ ("BOOLEAN" :> {"true", "false"}) @@ ("QUOTE" :> {"quote", "quasiquote"}) @@ ("DOTTED" :> DOMAIN Dotted)
    @@ ("CALLEE" :> Identifiers \ (Words \ {"none"})) @@ ("VARIABLE" :> Identifiers \ (Words \cup DOMAIN Dotted))
    @@ ("MUL" :> {"*", "/", "%"}) @@ ("ADD" :> {"+", "-"}) @@ ("LESS" :> {"<", "<=", ">", ">="}) @@ ("EQUAL" :> {"==", "!="})

\* A rule is a symbol and its productions, by what they build; what a rule
\* begins with has its own rule before it.
Optional(symbol, some) == <<symbol, {<<"none", <<>>>>, <<"first", <<some>>>>}>>
Listed(symbol, item) == <<symbol, {<<"one", <<item>>>>, <<"more", <<item, ",", symbol>>>>}>>
Trailing(symbol, item) == <<symbol, {<<"one", <<item>>>>, <<"one", <<item, ",">>>>, <<"more", <<item, ",", symbol>>>>}>>
Steps(symbol, operator, operand) == <<symbol, {<<"none", <<>>>>, <<"step", <<operator, operand, symbol>>>>}>>
Level(symbol, operand, tail) == <<symbol, {<<"chain", <<operand, tail>>>>}>>

PatternRules == <<
  <<"Pattern", {<<"literal", <<"STRING">>>>, <<"literal", <<"INTEGER">>>>, <<"wildcard", <<"_">>>>, <<"bind", <<"BINDER">>>>,
                <<"outcome", <<"err", "(", "Pattern", ",", "Pattern", ")">>>>,
                <<"outcome", <<"some", "(", "Pattern", ",", "Pattern", ")">>>>,
                <<"list", <<"[", "PatternItems?", "]">>>>, <<"map", <<"{", "PatternEntries?", "}">>>>}>>,
  <<"PatternItems", {<<"one", <<"Pattern">>>>, <<"rest", <<"..">>>>, <<"named", <<"..", "NAME">>>>,
                     <<"more", <<"Pattern", ",", "PatternItems">>>>}>>,
  Optional("PatternItems?", "PatternItems"),
  <<"PatternEntry", {<<"short", <<"NAME">>>>, <<"entry", <<"NAME", ":", "Pattern">>>>}>>,
  Listed("PatternEntries", "PatternEntry"), Optional("PatternEntries?", "PatternEntries"),
  Listed("Patterns", "Pattern"), Optional("Patterns?", "Patterns"),
  <<"CasePattern", {<<"tuple", <<"(", "Patterns?", ")">>>>, <<"first", <<"Pattern">>>>}>>,
  <<"CaseStart", {<<"first", <<"CasePattern", "->">>>>, <<"first", <<"CasePattern", "?">>>>}>> >>

ExpressionRules == <<
  <<"Lambda", {<<"lambda", <<"(", "Patterns?", ")", "->", "LambdaBody">>>>}>>,
  <<"Group", {<<"second", <<"(", "Pipeline", ")">>>>}>>,
  <<"LambdaOrGroup", {}>>,
  <<"Quotable", {<<"literal", <<"INTEGER">>>>, <<"second", <<"(", "Quotable", ")">>>>}>>,
  <<"Factor", {<<"literal", <<"INTEGER">>>>, <<"string", <<"STRING">>>>, <<"boolean", <<"BOOLEAN">>>>, <<"var", <<"VARIABLE">>>>,
               <<"access", <<"DOTTED">>>>, <<"call", <<"CALLEE", "(", "Arguments?", ")">>>>,
               <<"quote", <<"QUOTE", "(", "Quotable", ")">>>>, <<"unary", <<"-", "Factor">>>>,
               <<"list", <<"[", "Items?", "]">>>>, <<"map", <<"{", "Entries?", "}">>>>, <<"first", <<"LambdaOrGroup">>>>}>>,
  <<"Operand", {<<"first", <<"Factor">>>>}>>,
  Steps("Terms", "MUL", "Operand"), Level("Term", "Operand", "Terms"),
  Steps("Additives", "ADD", "Term"), Level("Additive", "Term", "Additives"),
  Steps("Comparisons", "LESS", "Additive"), Level("Comparison", "Additive", "Comparisons"),
  Steps("Equalities", "EQUAL", "Comparison"), Level("Expr", "Comparison", "Equalities"),
  Steps("Pipes", "|>", "Expr"), Level("Pipeline", "Expr", "Pipes"),
  Trailing("Arguments", "Expr"), Optional("Arguments?", "Arguments"),
  <<"Item", {<<"first", <<"Expr">>>>, <<"spread", <<"..", "Expr">>>>}>>,
  Trailing("Items", "Item"), Optional("Items?", "Items"),
  <<"Entry", {<<"entry", <<"NAME", ":", "Expr">>>>, <<"entry", <<"STRING", ":", "Expr">>>>}>>,
  Listed("Entries", "Entry"), Optional("Entries?", "Entries"),
  <<"LongExpr", {<<"first", <<"Expr">>>>}>>,
  <<"Exprs", {<<"one", <<"LongExpr">>>>, <<"next", <<"LongExpr", "Exprs">>>>}>>,
  <<"LambdaBlock", {<<"block", <<"{", "Exprs", "}">>>>}>>,
  <<"LambdaBody", {}>> >>

StatementRules == <<
  <<"Guard", {<<"none", <<>>>>, <<"second", <<"?", "Pipeline">>>>}>>,
  <<"Clause", {<<"clause", <<"CasePattern", "Guard", "->", "Pipeline">>>>}>>,
  <<"Clauses", {<<"one", <<"Clause">>>>, <<"more", <<"Clause", "|", "Clauses">>>>}>>,
  <<"Cases", {<<"cases", <<"Clauses">>>>}>>,
  <<"Simple", {<<"assign", <<"NAME", "=", "Pipeline">>>>, <<"first", <<"Pipeline">>>>}>>,
  <<"Within", {<<"first", <<"Simple">>>>}>>,
  <<"Withins", {<<"none", <<>>>>, <<"next", <<"Within", "Withins">>>>, <<"second", <<";", "Withins">>>>}>>,
  <<"Block", {<<"block", <<"{", "Withins", "}">>>>}>>,
  <<"Plain", {<<"first", <<"Pipeline">>>>, <<"first", <<"Block">>>>}>>,
  <<"Body", {}>>, <<"OpenBody", {}>>,
  <<"Docstring", {<<"first", <<"STRING">>>>}>>,
  Listed("Names", "NAME"), Optional("Names?", "Names"),
  <<"Arrow", {<<"function", <<"NAME", "(", "Names?", ")", "->", "Pipeline">>>>}>>,
  <<"Equation", {<<"function", <<"NAME", "(", "Names?", ")", "=", "Body">>>>,
                 <<"documented", <<"NAME", "(", "Names?", ")", "=", "Docstring", "Body">>>>}>>,
  <<"Rule", {<<"open", <<"NAME", "(", "Patterns?", ")", "Guard", "=", "OpenBody">>>>}>>,
  <<"Open", {<<"second", <<"open", "Rule">>>>}>> >>

Rules == PatternRules \o ExpressionRules \o StatementRules
RuleOf == [symbol \in {Rules[k][1] : k \in DOMAIN Rules} |-> CHOOSE k \in DOMAIN Rules : Rules[k][1] = symbol]

\* The productions with their symbols as the number of a rule, or the tokens.
Symbol(s) ==
  CASE s \in DOMAIN RuleOf  -> <<RuleOf[s], {}>>
    [] s \in DOMAIN Classes -> <<0, Classes[s]>>
    [] OTHER                -> <<0, {s}>>
Prepared(production) ==
  LET symbols[k \in 0..Len(production[2])] == IF k = 0 THEN <<>> ELSE Append(symbols[k - 1], Symbol(production[2][k]))
  IN  <<production[1], symbols[Len(production[2])]>>
Productions ==
  LET all[k \in 0..Len(Rules)] == IF k = 0 THEN <<>> ELSE Append(all[k - 1], {Prepared(production) : production \in Rules[k][2]})
  IN  all[Len(Rules)]
Symbols == [k \in DOMAIN Rules |-> Rules[k][1]]

\* A text with the grammar it is read by.
Source(text) == [tokens |-> Tokenize(text), productions |-> Productions, symbols |-> Symbols, rule |-> RuleOf]

\* The symbols a reading of which is one level of nesting.
Nested == {"Pattern", "Factor", "Quotable", "Block"}

-----------------------------------------------------------------------------
\* What a production builds from its parts.

LeftToRight(first, steps) ==
  LET tree[k \in 0..Len(steps)] == IF k = 0 THEN first ELSE <<"binary", steps[k][1], tree[k - 1], steps[k][2]>>
  IN  tree[Len(steps)]

Build(what, x) ==
  CASE what = "none"       -> <<>>
    [] what = "first"      -> x[1]
    [] what = "second"     -> x[2]
    [] what = "one"        -> <<x[1]>>
    [] what = "more"       -> <<x[1]>> \o x[3]
    [] what = "next"       -> <<x[1]>> \o x[2]
    [] what = "rest"       -> <<<<"rest", "">>>>
    [] what = "named"      -> <<<<"rest", IF x[2] = "_" THEN "" ELSE x[2]>>>>
    [] what = "step"       -> <<<<x[1], x[2]>>>> \o x[3]
    [] what = "chain"      -> LeftToRight(x[1], x[2])
    [] what = "wildcard"   -> <<"wildcard">>
    [] what = "outcome"    -> <<x[1], <<x[3], x[5]>>>>
    [] what = "short"      -> <<x[1], <<"bind", x[1]>>>>
    [] what = "entry"      -> <<x[1], x[3]>>
    [] what = "access"     -> <<"access", Dotted[x[1]]>>
    [] what = "call"       -> <<"call", x[1], x[3]>>
    [] what = "quote"      -> <<x[1], x[3]>>
    [] what = "lambda"     -> <<"lambda", x[2], x[5]>>
    [] what = "clause"     -> <<x[1], x[2], x[4]>>
    [] what = "assign"     -> <<"assign", x[1], x[3]>>
    [] what = "function"   -> <<"function", x[1], x[3], "", x[6]>>
    [] what = "documented" -> <<"function", x[1], x[3], x[6], x[7]>>
    [] what = "open"       -> <<"open", x[1], x[3], x[5], x[7]>>
    [] what \in {"list", "map", "tuple", "block", "unary", "spread"} -> <<what, x[2]>>
    [] OTHER               -> <<what, x[1]>>

-----------------------------------------------------------------------------
\* Names that are free in a tree.

RECURSIVE NamesOf(_)
NamesOf(pattern) ==
  CASE pattern[1] = "bind" -> {pattern[2]}
    [] pattern[1] = "rest" -> {pattern[2]} \ {""}
    [] pattern[1] \in {"wildcard", "literal"} -> {}
    [] pattern[1] = "map" -> UNION {NamesOf(entry[2]) : entry \in Range(pattern[2])}
    [] OTHER -> UNION {NamesOf(item) : item \in Range(pattern[2])}

RECURSIVE FreeNames(_)
FreeNames(tree) ==
  LET OfAll(trees) == UNION {FreeNames(part) : part \in trees}
  IN  CASE tree = NoGuard -> {}
        [] tree[1] = "var" -> {tree[2]}
        [] tree[1] = "access" -> Range(tree[2])
        [] tree[1] = "call" -> {tree[2]} \cup OfAll(Range(tree[3]))
        [] tree[1] = "lambda" -> FreeNames(tree[3]) \ UNION {NamesOf(param) : param \in Range(tree[2])}
        [] tree[1] = "binary" -> OfAll({tree[3], tree[4]})
        [] tree[1] \in {"unary", "spread"} -> FreeNames(tree[2])
        [] tree[1] = "map" -> OfAll({entry[2] : entry \in Range(tree[2])})
        [] tree[1] \in {"list", "block"} -> OfAll(Range(tree[2]))
        [] OTHER -> {}

\* The arms of an open clause have guards of their own, and none that means a
\* name of the header, which is not bound, has a meaning.
ArmsStandAlone(rule) ==
  LET header == {item[2] : item \in {h \in Range(rule[3]) : h[1] = "bind"}}
      Meant(arm) == (FreeNames(arm[2]) \cup FreeNames(arm[3])) \cap (header \ NamesOf(arm[1]))
  IN  rule[5][1] = "cases" => rule[4] = NoGuard /\ \A arm \in Range(rule[5][2]) : Meant(arm) = {}

-----------------------------------------------------------------------------
\* The chart.

End(t) == Len(t.tokens) + 1
Beyond(t) == Len(t.tokens) + 2
TokenAt(t, i) == IF i < End(t) THEN t.tokens[i].text ELSE "end"

\* A reading has an end, a depth of nesting, and a tree.
Reading(end, deep, tree) == <<end, deep, tree>>
EndingOf(r) == r[1]
DepthOf(r) == r[2]
TreeOf(r) == r[3]

Unfinished(t) == Reading(Beyond(t), 0, <<>>)
Finished(t, readings) == {r \in readings : EndingOf(r) <= End(t)}
Longest(t, readings) ==
  {r \in readings : EndingOf(r) > End(t) \/ \A s \in Finished(t, readings) : EndingOf(s) <= EndingOf(r)}
Deeper(m, n) == IF m > n THEN m ELSE n

Readings(t, chart, i, symbol) ==
  CASE i = Beyond(t)               -> {Unfinished(t)}
    [] symbol[1] # 0               -> chart[End(t) + 1 - i][symbol[1]]
    [] i = End(t)                  -> {Unfinished(t)}
    [] TokenAt(t, i) \in symbol[2] -> {Reading(i + 1, 0, TokenAt(t, i))}
    [] OTHER                       -> {}

ReadingsOf(t, chart, i, s) == Readings(t, chart, i, <<t.rule[s], {}>>)

\* The ways to read a sequence of symbols from i.
Produced(t, chart, i, what, symbols) ==
  LET RECURSIVE From(_, _)
      From(j, k) ==
        IF k > Len(symbols) THEN {Reading(j, 0, <<>>)}
        ELSE UNION {{Reading(EndingOf(s), Deeper(DepthOf(r), DepthOf(s)), <<TreeOf(r)>> \o TreeOf(s)) : s \in From(EndingOf(r), k + 1)}
                    : r \in Finished(t, Readings(t, chart, j, symbols[k]))}
             \cup (Readings(t, chart, j, symbols[k]) \cap {Unfinished(t)})
  IN  {IF EndingOf(s) > End(t) THEN Unfinished(t) ELSE Reading(EndingOf(s), DepthOf(s), Build(what, TreeOf(s))) : s \in From(i, 1)}

\* What is meant when there are several readings, or when a first look decides.
Selected(t, chart, i, symbol, readings) ==
  LET Of(s) == ReadingsOf(t, chart, i, s)
      Choice(decided, taken, otherwise) == IF decided THEN taken ELSE otherwise \cup (taken \cap {Unfinished(t)})
      Starts(s) == Finished(t, Of(s)) # {}
      Opens == TokenAt(t, i) \in Forbidden \cup {"open"}
      SameLine == i + 1 \in DOMAIN t.tokens /\ t.tokens[i].line = t.tokens[i + 1].line /\ TokenAt(t, i + 1) # "-"
  IN  CASE symbol = "LambdaOrGroup" -> Choice(Starts("Lambda"), Of("Lambda"), Of("Group"))       \* what can be a lambda is no group
        [] symbol = "LambdaBody" -> Longest(t, Choice(TokenAt(t, i) = "{", Of("LambdaBlock"), Of("Expr")))
        [] symbol = "Body"       -> Choice(Starts("CaseStart"), Of("Cases"), Of("Plain"))
        [] symbol = "OpenBody"   -> Choice(Starts("CaseStart"), Of("Cases"), Of("Pipeline"))
        [] symbol = "LongExpr"   -> Longest(t, readings)
        [] symbol = "Operand"    -> {r \in readings : TokenAt(t, EndingOf(r)) # "("}        \* only a name is called
        [] symbol = "Within"     -> IF Opens THEN {} ELSE Longest(t, readings)
        [] symbol = "Block"      -> {r \in readings : EndingOf(r) > End(t) \/ TreeOf(r)[2] # <<>>}
        [] symbol = "Docstring"  -> {r \in readings : SameLine}
        [] symbol = "Rule"       -> {r \in readings : EndingOf(r) > End(t) \/ ArmsStandAlone(TreeOf(r))}
        [] OTHER                 -> readings

\* The readings of all symbols from the token before those in the chart.
Column(t, chart) ==
  LET i == End(t) - Len(chart)
      Deepened(r) == IF EndingOf(r) <= End(t) THEN Reading(EndingOf(r), DepthOf(r) + 1, TreeOf(r)) ELSE r
      Known(symbol, productions, known) ==
        LET readings == UNION {Produced(t, known, i, production[1], production[2]) : production \in productions}
        IN  Selected(t, known, i, symbol, IF symbol \in Nested THEN {Deepened(r) : r \in readings} ELSE readings)
      column[k \in 0..Len(t.symbols)] ==
        IF k = 0 THEN <<>>
        ELSE LET before == column[k - 1]
             IN  Append(before, Known(t.symbols[k], t.productions[k], Append(chart, before)))
  IN  column[Len(t.symbols)]

Chart(t) ==
  LET chart[n \in 0..End(t)] ==
        IF n = 0 THEN <<>>
        ELSE LET known == chart[n - 1] IN IF Len(known) = n - 1 THEN Append(known, Column(t, known)) ELSE <<>>
  IN  chart[End(t)]

-----------------------------------------------------------------------------
\* Programs.

\* The readings of a statement, as long as they can be; open functions are
\* those of the statements before it.
Statements(t, chart, i, open) ==
  LET c(s) == ReadingsOf(t, chart, i, s)
      begun == TokenAt(t, i) = "open" /\ TokenAt(t, i + 1) \in Identifiers /\ TokenAt(t, i + 2) = "("
  IN  CASE TokenAt(t, i) \in Forbidden             -> {}
        [] begun /\ TokenAt(t, i + 1) \in open     -> {}
        [] begun                                -> Longest(t, c("Open"))
        [] ~begun /\ TokenAt(t, i) \in open        -> Longest(t, c("Rule") \cup c("Arrow") \cup c("Simple"))
        [] OTHER                                -> Longest(t, c("Equation") \cup c("Arrow") \cup c("Simple"))

Clauses(rule) == IF rule[5][1] = "cases" THEN rule[5][2] ELSE <<<<<<"tuple", rule[3]>>, rule[4], rule[5]>>>>

\* One after the other; the clauses of an open function that stand together
\* are one definition.
Extended(program, tree) ==
  IF tree[1] # "open" THEN Append(program, tree)
  ELSE IF program # <<>> /\ SubSeq(Last(program), 1, 2) = SubSeq(tree, 1, 2)
  THEN Append(Front(program), <<"open", tree[2], Last(program)[3] \o Clauses(tree)>>)
  ELSE Append(program, <<"open", tree[2], Clauses(tree)>>)

\* What is read in a text without a token.
NothingRead == [ok |-> TRUE, viable |-> TRUE, program |-> <<>>]

\* How a text is read: as a program or not at all, and whether it may go on.
RECURSIVE ReadFrom(_, _, _, _, _)
ReadNext(t, chart, program, open, readings) ==
  CASE readings = {} -> [ok |-> FALSE, viable |-> FALSE, program |-> <<>>]
    [] \E r \in readings : readings \ {r} \subseteq {Unfinished(t)} /\ Finished(t, {r}) # {} ->
         LET r == CHOOSE x \in readings : EndingOf(x) <= End(t)
             opened == IF TreeOf(r)[1] = "open" THEN {TreeOf(r)[2]} ELSE {}
         IN  [ReadFrom(t, chart, EndingOf(r), Extended(program, TreeOf(r)), open \cup opened)
                EXCEPT !.viable = @ \/ Unfinished(t) \in readings, !.ok = @ /\ DepthOf(r) <= MaxDepth]
    [] OTHER -> [ok |-> FALSE, viable |-> readings = {Unfinished(t)}, program |-> <<"ambiguous">>]
ReadFrom(t, chart, i, program, open) ==
  CASE i = End(t)          -> [NothingRead EXCEPT !.program = program]
    [] TokenAt(t, i) = ";" -> ReadFrom(t, chart, i + 1, program, open)
    [] OTHER               -> ReadNext(t, chart, program, open, Statements(t, chart, i, open))

ReadSource(t) == ReadFrom(t, Chart(t), 1, <<>>, {})
ReadText(text) == ReadSource(Source(text))
=============================================================================
