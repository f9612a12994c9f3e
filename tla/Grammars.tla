-------------------------------- MODULE Grammars --------------------------------
(***************************************************************************)
(* What texts mean, read from left to right by automata: the references    *)
(* the decoders of the program are compared with.  For JSON, an automaton  *)
(* with a stack says which texts are documents, what they mean, and of a   *)
(* text that is none which error it has and where.                         *)
(*                                                                         *)
(* A frame of the stack is a container that is open, the document itself   *)
(* the first: what is in it so far and, of an object, the keys.            *)
(***************************************************************************)
EXTENDS Meanings

Frame(bracket) == [bracket |-> bracket, items |-> <<>>, keys |-> <<>>]
Fresh == [negative |-> FALSE, coefficient |-> 0, scale |-> 0, down |-> FALSE, exponent |-> 0]

\* The mode says what may come next; open is where the token began that is
\* being read, token what a string holds so far, number the same of a number.
Start == [mode |-> "value", stack |-> <<Frame("document")>>, open |-> 0, token |-> <<>>, key |-> FALSE,
          number |-> Fresh, error |-> "", at |-> 0]

Top(g) == g.stack[Len(g.stack)]
Go(g, mode) == [g EXCEPT !.mode = mode]
Wrong(g, error, at) == [g EXCEPT !.mode = "wrong", !.error = error, !.at = at]
Malformed(g, at) == Wrong(g, "InvalidJson", at)

\* A value is complete: it goes into the container that is open.
Complete(g, m) == [g EXCEPT !.mode = "after", !.stack[Len(g.stack)].items = Append(@, m)]

OpenContainer(g, bracket) ==
  IF Len(g.stack) > MaxNesting THEN Wrong(g, "NestingTooDeep", 0)
  ELSE [g EXCEPT !.mode = IF bracket = "[" THEN "value or ]" ELSE "key or }", !.stack = Append(@, Frame(bracket))]

CloseContainer(g) ==
  LET frame == Top(g)
      below == [g EXCEPT !.stack = SubSeq(@, 1, Len(@) - 1)]
  IN  IF frame.bracket = "[" THEN Complete(below, <<"List", frame.items>>)
      ELSE IF ~IsInjective(frame.keys) THEN Wrong(g, "DuplicateKey", 0)
      ELSE Complete(below, <<"Map", [i \in DOMAIN frame.keys |-> <<<<"String", frame.keys[i]>>, frame.items[i]>>]>>)

CompleteString(g, text) ==
  IF g.key THEN [g EXCEPT !.mode = "colon", !.key = FALSE, !.stack[Len(g.stack)].keys = Append(@, text)]
  ELSE Complete(g, <<"String", text>>)

BeginString(g, c, p, key) ==
  IF c = "\"" THEN [g EXCEPT !.mode = "string", !.open = p, !.token = <<>>, !.key = key]
  ELSE CompleteString([g EXCEPT !.key = key], Quoted[c])

-----------------------------------------------------------------------------
\* Numbers: only some modes may end one.

Ending == {"zero", "whole", "fraction", "exponent"}

\* Within the range of whole numbers a float has room for; other numbers are
\* kept when the shortest text of the nearest float is the number itself.
InRange(integral, m) ==
  IF integral THEN -2 * Hidden < m[2] /\ m[2] < 2 * Hidden
  ELSE LET magnitude == IF m[2] < 0 THEN -m[2] ELSE m[2]
           f == Nearest(magnitude, m[3])
       IN  \/ m[2] = 0
           \/ /\ ~IsBeyond(magnitude, m[3])
              /\ FloatMultiple(f) # 0
              /\ Tail(MeaningOf(Shortest(f))) = <<magnitude, m[3]>>

EndNumber(g) ==
  LET n == g.number
      integral == g.mode \in {"zero", "whole"}
      e == (IF n.down THEN -n.exponent ELSE n.exponent) - n.scale
      c == IF n.negative THEN -n.coefficient ELSE n.coefficient
      m == Numeral(IF integral THEN "Integer" ELSE "Decimal",
                   IF e > 0 THEN c * 10^e ELSE c, IF e > 0 THEN 1 ELSE 10^(-e))
  IN  IF g.mode \notin Ending \/ n.exponent > MaxExponent THEN Malformed(g, g.open)
      ELSE IF InRange(integral, m) THEN Complete(g, m)
      ELSE Wrong(g, "NumberOutOfRange", 0)

Digested(g, c, mode) ==
  [g EXCEPT !.mode = mode,
            !.number.coefficient = IF mode = "exponent" THEN @ ELSE 10 * @ + DigitValue(c),
            !.number.scale = IF mode = "fraction" THEN @ + 1 ELSE @,
            !.number.exponent = IF mode = "exponent" THEN 10 * @ + DigitValue(c) ELSE @]

BeginNumber(g, c, p) ==
  LET begun == [g EXCEPT !.open = p, !.number = [Fresh EXCEPT !.negative = c = "-"]]
  IN  IF c = "-" THEN Go(begun, "minus") ELSE Digested(begun, c, IF c = "0" THEN "zero" ELSE "whole")

\* The mode an item of a number leads to, or none when the number ends before it.
NumberMode(mode, c) ==
  CASE mode = "minus" /\ c = "0"                                     -> "zero"
    [] mode \in {"minus", "whole"} /\ c \in Digits                   -> "whole"
    [] mode \in {"zero", "whole"} /\ c = "."                         -> "point"
    [] mode \in {"point", "fraction"} /\ c \in Digits                -> "fraction"
    [] mode \in {"zero", "whole", "fraction"} /\ c = "e"             -> "e"
    [] mode = "e" /\ c \in {"+", "-"}                                -> "sign"
    [] mode \in {"e", "sign", "exponent"} /\ c \in Digits            -> "exponent"
    [] OTHER                                                         -> "ended"
NumberModes == {"minus", "zero", "whole", "point", "fraction", "e", "sign", "exponent"}

-----------------------------------------------------------------------------
\* Strings.

InString(g, c, p) ==
  CASE c = "\""                    -> CompleteString(g, g.token)
    [] c = "\\"                    -> [Go(g, "escape") EXCEPT !.at = p]
    [] c \in Controls \cup {"bad"} -> Malformed(g, p)
    [] c = "sur"                   -> Wrong(g, "InvalidUnicode", 0)
    [] OTHER                       -> [g EXCEPT !.token = Append(@, c)]

InEscape(g, c) ==
  LET Holds(d) == [Go(g, "string") EXCEPT !.token = Append(@, d)]
  IN  CASE g.mode = "escape" /\ c = "u" -> Go(g, "unit")
        [] g.mode = "escape" /\ c \in DOMAIN Escapes -> Holds(Escapes[c])
        [] g.mode = "unit" /\ c \in DOMAIN Scalars -> Holds(Scalars[c])
        [] g.mode = "unit" /\ c = High -> Go(g, "high")
        [] g.mode = "unit" /\ c = Low -> Wrong(g, "InvalidUnicode", 0)
        [] OTHER -> Malformed(g, g.at)

\* Behind a high half only the escape of a low one will do.
InPair(g, c) ==
  CASE g.mode = "high" /\ c = "\\" -> Go(g, "high\\")
    [] g.mode = "high\\" /\ c = "u" -> Go(g, "high\\u")
    [] g.mode = "high\\u" /\ c = Low -> [Go(g, "string") EXCEPT !.token = Append(@, Pair)]
    [] OTHER -> Wrong(g, "InvalidUnicode", 0)

-----------------------------------------------------------------------------
\* The document.

AtValue(g, c, p) ==
  CASE c \in {"[", "{"}                   -> OpenContainer(g, c)
    [] c = "]" /\ g.mode = "value or ]"   -> CloseContainer(g)
    [] c \in {"\""} \cup DOMAIN Quoted    -> BeginString(g, c, p, FALSE)
    [] c \in DOMAIN Literals              -> Complete(g, MeaningOf(Literals[c]))
    [] c \in {"-"} \cup Digits            -> BeginNumber(g, c, p)
    [] OTHER                              -> Malformed(g, p)

AtKey(g, c, p) ==
  CASE c = "}" /\ g.mode = "key or }"  -> CloseContainer(g)
    [] c \in {"\""} \cup DOMAIN Quoted -> BeginString(g, c, p, TRUE)
    [] OTHER                           -> Malformed(g, p)

AfterValue(g, c, p) ==
  CASE c = "," /\ Top(g).bracket = "[" -> Go(g, "value")
    [] c = "," /\ Top(g).bracket = "{" -> Go(g, "key")
    [] <<Top(g).bracket, c>> \in {<<"[", "]">>, <<"{", "}">>} -> CloseContainer(g)
    [] OTHER -> Malformed(g, p)

Between(g, c, p) ==
  CASE c \in Spaces                        -> g
    [] g.mode \in {"value", "value or ]"}  -> AtValue(g, c, p)
    [] g.mode \in {"key", "key or }"}      -> AtKey(g, c, p)
    [] g.mode = "colon"                    -> IF c = ":" THEN Go(g, "value") ELSE Malformed(g, p)
    [] g.mode = "after"                    -> AfterValue(g, c, p)

StepOf(g, c, p) ==
  CASE g.mode = "wrong"                       -> g
    [] g.mode = "string"                      -> InString(g, c, p)
    [] g.mode \in {"escape", "unit"}          -> InEscape(g, c)
    [] g.mode \in {"high", "high\\", "high\\u"} -> InPair(g, c)
    [] g.mode \in NumberModes ->
         LET next == NumberMode(g.mode, c)
             ended == EndNumber(g)
         IN  CASE next = "ended" -> IF ended.mode = "wrong" THEN ended ELSE Between(ended, c, p)
               [] c \in Digits   -> Digested(g, c, next)
               [] OTHER          -> [Go(g, next) EXCEPT !.number.down = c = "-"]
    [] OTHER -> Between(g, c, p)

\* The end of the text is one more step.
Finish(g, p) ==
  CASE g.mode = "wrong"                          -> g
    [] g.mode = "string"                         -> Malformed(g, g.open)
    [] g.mode \in {"escape", "unit"}             -> Malformed(g, g.at)
    [] g.mode \in {"high", "high\\", "high\\u"}  -> Wrong(g, "InvalidUnicode", 0)
    [] g.mode \in NumberModes                    -> LET ended == EndNumber(g)
                                                    IN  IF ended.mode = "wrong" \/ Len(ended.stack) = 1 THEN ended
                                                        ELSE Malformed(ended, p)
    [] g.mode = "after" /\ Len(g.stack) = 1      -> g
    [] OTHER                                     -> Malformed(g, p)

Run(text) == FoldLeftDomain(LAMBDA g, p : StepOf(g, text[p], p), Start, text)
IsRefused(text) == Run(text).mode = "wrong"
Outcome(text) == Finish(Run(text), Len(text) + 1)

-----------------------------------------------------------------------------
\* Whole numbers with underscores.

\* Where a text is: before the number, behind its sign, a digit or an underscore,
\* behind the number, or nowhere.
IntegerStep(g, c) ==
  LET digit == [g EXCEPT !.mode = "digit", !.n = 10 * @ + DigitValue(c)]
  IN  CASE g.mode = "before" /\ c \in Blanks            -> g
        [] g.mode = "before" /\ c \in {"+", "-"}        -> [g EXCEPT !.mode = "sign", !.negative = c = "-"]
        [] g.mode \notin {"behind", "nowhere"} /\ c \in Digits -> digit
        [] g.mode = "digit" /\ c = "_"                  -> [g EXCEPT !.mode = "underscore"]
        [] g.mode \in {"digit", "behind"} /\ c \in Blanks -> [g EXCEPT !.mode = "behind"]
        [] OTHER                                       -> [g EXCEPT !.mode = "nowhere"]

IntegerIn(t) ==
  LET g == FoldLeft(IntegerStep, [mode |-> "before", negative |-> FALSE, n |-> 0], t)
  IN  IF g.mode \in {"digit", "behind"} THEN <<"Some", <<"Integer", IF g.negative THEN -g.n ELSE g.n, 1>>>>
      ELSE <<"None", "parse-error">>
=============================================================================
