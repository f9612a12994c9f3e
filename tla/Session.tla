------------------------------ MODULE Session -------------------------------
(***************************************************************************)
(* The two drivers of the evaluator.  A scripted REPL reads line after     *)
(* line, submits the accumulated text as soon as it parses and goes on     *)
(* with the next; a file or command run evaluates one source, then calls   *)
(* main.  Both run the statements of a program one after the other in one  *)
(* environment and stop at the first that fails.                           *)
(*                                                                         *)
(* A line is a sequence of phrases as the parser meets them: a function    *)
(* definition (plain: its header names are identifiers), an open           *)
(* declaration, an assignment, a call, any other expression, a header      *)
(* whose body has not come yet, and a stray token.                         *)
(***************************************************************************)
EXTENDS Groups, SequencesExt

CONSTANTS
  Lines,       \* the lines of a script
  Sources,     \* the sources of file and command runs
  MaxLines,    \* lines of a script
  Main,        \* the name main
  Argv,        \* the argument list of main/1
  NoArgs       \* the argument list of main/0

ASSUME MainAssumption == Main \in Names /\ {Argv, NoArgs} \subseteq ArgLists

Phrases == UNION {ToSet(line) : line \in Lines}

ASSUME LinesAssumption == Lines \subseteq Seq(Phrases)

VARIABLES
  mode,        \* "repl" or "file"
  pending,     \* the phrases read and not yet submitted
  todo,        \* the statements of the running program
  phase,       \* "reading", "running", "main" or "over"
  result,      \* how the run ended: "none", "ok", "failed" or "unsupported"
  echoes,      \* values shown
  errors,      \* error messages written
  read,        \* lines read
  phrases,     \* ghost: phrases read
  submitted,   \* ghost: phrases submitted
  programs     \* ghost: submissions that had statements

sessionVars == <<mode, pending, todo, phase, result, echoes, errors, read, phrases, submitted, programs>>
vars == <<groupVars, sessionVars>>

-----------------------------------------------------------------------------
\* The parser.

\* What is parsed so far: the statements, the names declared open, and the
\* header that waits for its body.
NoHeader == [kind |-> "none"]
Start == [ok |-> TRUE, opens |-> {}, header |-> NoHeader, out |-> <<>>]
Failed == [Start EXCEPT !.ok = FALSE]

Statement(acc, s) == [acc EXCEPT !.out = Append(@, s)]

\* Clauses of one open function that follow each other are one definition.
OpenClauses(acc, s) ==
  LET last == acc.out[Len(acc.out)]
  IN  IF acc.out # <<>> /\ last.kind = "open" /\ last.name = s.name
      THEN [acc EXCEPT !.out[Len(acc.out)].clauses = @ \o s.clauses]
      ELSE Statement(acc, [kind |-> "open", name |-> s.name, clauses |-> s.clauses])

Declaration(acc, s) ==
  IF s.name \in acc.opens THEN Failed ELSE OpenClauses([acc EXCEPT !.opens = @ \cup {s.name}], s)

Function(acc, s) ==
  IF s.name \in acc.opens THEN OpenClauses(acc, s)
  ELSE IF s.plain THEN Statement(acc, s)
  ELSE Failed

\* Only an expression can be the body a header waits for.
Phrase(acc, s) ==
  CASE ~acc.ok \/ s.kind = "stray" -> Failed
    [] acc.ok /\ acc.header # NoHeader ->
         IF s.kind \in {"call", "expression"}
         THEN Function([acc EXCEPT !.header = NoHeader], [acc.header EXCEPT !.kind = "function"])
         ELSE Failed
    [] acc.ok /\ acc.header = NoHeader ->
         CASE s.kind = "open" -> Declaration(acc, s)
           [] s.kind = "function" -> Function(acc, s)
           [] s.kind = "header" -> [acc EXCEPT !.header = s]
           [] s.kind \in {"alias", "assign", "call", "expression"} -> Statement(acc, s)
           [] s.kind = "stray" -> Failed

Parsed(text) == FoldLeft(Phrase, Start, text)
Parses(text) == Parsed(text).ok /\ Parsed(text).header = NoHeader

-----------------------------------------------------------------------------
SessionInit ==
  /\ mode \in {"repl", "file"}
  /\ phase = "reading"
  /\ pending = <<>> /\ todo = <<>>
  /\ result = "none"
  /\ echoes = 0 /\ errors = 0 /\ read = 0
  /\ phrases = 0 /\ submitted = 0 /\ programs = 0

Init == GroupsInit /\ SessionInit

\* A line of a script: the accumulated text is submitted when it parses.
ReadLine(line) ==
  /\ mode = "repl" /\ phase = "reading" /\ read < MaxLines
  /\ read' = read + 1
  /\ phrases' = phrases + Len(line)
  /\ LET text == pending \o line
     IN  IF Parses(text)
         THEN /\ pending' = <<>>
              /\ todo' = Parsed(text).out
              /\ submitted' = submitted + Len(text)
              /\ phase' = IF todo' = <<>> THEN "reading" ELSE "running"
              /\ programs' = IF todo' = <<>> THEN programs ELSE programs + 1
         ELSE /\ pending' = text
              /\ UNCHANGED <<todo, submitted, phase, programs>>
  /\ UNCHANGED <<groupVars, mode, result, echoes, errors>>

\* Text that never became a program is left alone.
EndOfScript ==
  /\ mode = "repl" /\ phase = "reading"
  /\ phase' = "over" /\ result' = "ok"
  /\ UNCHANGED <<groupVars, mode, pending, todo, echoes, errors, read, phrases, submitted, programs>>

\* A source that does not parse, or is empty, is unsupported.
ReadSource(source) ==
  /\ mode = "file" /\ phase = "reading"
  /\ IF Parses(source) /\ source # <<>>
     THEN /\ todo' = Parsed(source).out /\ phase' = "running" /\ programs' = 1
          /\ UNCHANGED result
     ELSE /\ phase' = "over" /\ result' = "unsupported"
          /\ UNCHANGED <<todo, programs>>
  /\ UNCHANGED <<groupVars, mode, pending, echoes, errors, read, phrases, submitted>>

\* What the evaluator can run.
Statements ==
  [kind : {"function"}, name : Names, plain : BOOLEAN, arity : Nat, clauses : Seq(Clauses), doc : Docs \cup {NoDoc}]
    \cup [kind : {"open"}, name : Names, clauses : Seq(Clauses)]
    \cup [kind : {"alias"}, name : Names, from : Names]
    \cup [kind : {"assign"}, name : Names, outcome : Answers]
    \cup [kind : {"call"}, name : Names, args : ArgLists]
    \cup [kind : {"expression"}, outcome : Answers]

Execute(s) ==
  CASE s.kind = "function" -> DefineFunction(s.name, s.arity, s.clauses, s.doc)
    [] s.kind = "open" -> DefineOpen(s.name, s.clauses, mode = "file")
    [] s.kind = "alias" -> AssignName(s.name, s.from)
    [] s.kind = "assign" -> AssignData(s.name, s.outcome)
    [] s.kind = "call" -> CallName(s.name, s.args)
    [] s.kind = "expression" -> Expression(s.outcome)

Over(outcome) == phase' = "over" /\ result' = outcome

\* The next submission is awaited.
Resume == todo' = <<>> /\ phase' = "reading" /\ UNCHANGED result

\* mutant: a failed program goes on with its next statement.
AfterErrorGoOn ==
  \/ answer' = "error" /\ errors' = errors + 1 /\ UNCHANGED echoes
       /\ IF Len(todo) > 1 THEN todo' = Tail(todo) /\ UNCHANGED <<phase, result>> ELSE Resume
  \/ answer' \in {"flow", "unsupported"} /\ Over("unsupported") /\ UNCHANGED <<todo, echoes, errors>>
  \/ /\ answer' \in Values /\ Len(todo) > 1
     /\ todo' = Tail(todo)
     /\ UNCHANGED <<phase, result, echoes, errors>>
  \/ /\ answer' \in Values /\ Len(todo) = 1
     /\ IF answer' = "value"
        THEN echoes' = echoes + 1 /\ Resume
        ELSE Over("unsupported") /\ UNCHANGED <<todo, echoes>>
     /\ UNCHANGED errors

\* A script goes on after a runtime error; a Flow error, or an answer that
\* cannot be shown, gives up the whole session.
AfterInScript ==
  \/ answer' = "error" /\ errors' = errors + 1 /\ UNCHANGED echoes /\ Resume
  \/ answer' \in {"flow", "unsupported"} /\ Over("unsupported") /\ UNCHANGED <<todo, echoes, errors>>
  \/ /\ answer' \in Values /\ Len(todo) > 1
     /\ todo' = Tail(todo)
     /\ UNCHANGED <<phase, result, echoes, errors>>
  \/ /\ answer' \in Values /\ Len(todo) = 1
     /\ IF answer' = "value"
        THEN echoes' = echoes + 1 /\ Resume
        ELSE Over("unsupported") /\ UNCHANGED <<todo, echoes>>
     /\ UNCHANGED errors

\* In a run of one source every error ends it with a message.
AfterInSource ==
  \/ answer' \in {"error", "flow"} /\ errors' = errors + 1 /\ Over("failed") /\ UNCHANGED <<todo, echoes>>
  \/ answer' = "unsupported" /\ Over("unsupported") /\ UNCHANGED <<todo, echoes, errors>>
  \/ /\ answer' \in Values
     /\ todo' = Tail(todo)
     /\ phase' = IF Len(todo) > 1 THEN phase ELSE "main"
     /\ UNCHANGED <<result, echoes, errors>>

RunStatement ==
  /\ phase = "running"
  /\ Head(todo) \in Statements /\ Execute(Head(todo))
  /\ IF mode = "repl" THEN AfterInScript ELSE AfterInSource
  /\ UNCHANGED <<mode, pending, read, phrases, submitted, programs>>

HasMember(g, arity) == \E m \in DOMAIN g.members : g.members[m].arity = arity

\* An ordinary function main is called: main/1 if there is one, else main/0.
MainArgs ==
  IF IsGroup(Main) /\ ~GroupOf(Main).open
  THEN IF HasMember(GroupOf(Main), 1) THEN {Argv} ELSE IF HasMember(GroupOf(Main), 0) THEN {NoArgs} ELSE {}
  ELSE {}

\* The answer of main, or of the last statement, is shown.
Show ==
  IF answer' \in {"error", "flow"}
  THEN errors' = errors + 1 /\ Over("failed") /\ UNCHANGED echoes
  ELSE /\ echoes' = IF answer' = "value" THEN echoes + 1 ELSE echoes
       /\ Over(IF answer' \in {"value", "nil"} THEN "ok" ELSE "unsupported")
       /\ UNCHANGED errors

FinishSource ==
  /\ phase = "main"
  /\ \/ \E args \in MainArgs : CallName(Main, args)
     \/ MainArgs = {} /\ UNCHANGED groupVars
  /\ Show
  /\ UNCHANGED <<mode, pending, todo, read, phrases, submitted, programs>>

Next ==
  \/ \E line \in Lines : ReadLine(line)
  \/ \E source \in Sources : ReadSource(source)
  \/ EndOfScript
  \/ RunStatement
  \/ FinishSource

Spec == Init /\ [][Next]_vars

-----------------------------------------------------------------------------
\* Properties.

SessionTypeOK ==
  /\ GroupsTypeOK
  /\ mode \in {"repl", "file"}
  /\ phase \in {"reading", "running", "main", "over"}
  /\ result \in {"none", "ok", "failed", "unsupported"}
  /\ todo \in Seq(Statements)
  /\ \A x \in {echoes, errors, read, phrases, submitted, programs} : x \in Nat

(***************************************************************************)
(* Every phrase of a script is submitted once or still waits, and every    *)
(* submission is answered once, by a value or by an error, before the next *)
(* line is read: nothing is run twice, dropped, or answered late.          *)
(***************************************************************************)
SubmittedOnce ==
  mode = "repl" =>
    /\ phrases = submitted + Len(pending)
    /\ (phase = "reading" => echoes + errors = programs)

(***************************************************************************)
(* docs/host-conformance-repairs.md promises of a scripted REPL that       *)
(* failed submissions recover: a Flow error ends a submission, and the     *)
(* session goes on.                                                        *)
(***************************************************************************)
SubmissionsRecover == mode = "repl" /\ answer = "flow" => result # "unsupported"
=============================================================================
