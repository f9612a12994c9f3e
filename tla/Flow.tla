-------------------------------- MODULE Flow --------------------------------
(***************************************************************************)
(* The Flow kernel (src/flow.hpp): lazy, pull-based, single-use sequences. *)
(*                                                                         *)
(* A program builds Flow values, nodes here, each from a source or from an *)
(* upstream Flow, and runs terminals on some of them, one after another.   *)
(* A terminal consumes its Flow and pulls; a pull asks the upstream, and   *)
(* so on down to the source; the item, or the end, comes back up.  A pull  *)
(* that fails ends the terminal; a session goes on with the next one.      *)
(*                                                                         *)
(* Pulling happens on one thread, so the calls in progress form a stack.   *)
(* What callbacks compute is fixed (Inc, IsOdd, Option, Sum); that one may *)
(* fail at any call is nondeterministic.                                   *)
(***************************************************************************)
EXTENDS Pipelines, FiniteSets, SequencesExt

CONSTANTS
  Programs,     \* what is run: [nodes |-> <<...>>, terminals |-> <<...>>]
  Lines         \* how many lines stdin, or a list, holds

ASSUME LinesAssumption == Lines \in Nat

\* A terminal is the node it is applied to.
ASSUME ProgramsAssumption ==
  \A p \in Programs : WellFormed(p.nodes) /\ p.terminals \in Seq(DOMAIN p.nodes)

VARIABLES
  program,
  consumed,   \* consumed_ of each node's Flow
  started,    \* the nodes whose lazy start succeeded
  count,      \* per node: items still to take or drop, or the position in a list
  state,      \* per node: what scan or evolve carries
  cursor,     \* lines of stdin read so far, by anybody
  stack,      \* the nodes being pulled, innermost last
  reply,      \* what the innermost pull returned to its caller
  terminal,   \* which terminal is running, from 1
  output,     \* what the running terminal received so far
  effects,    \* history: the values each effect was called with, by node
  served,     \* history: the terminals whose consume succeeded
  began,      \* history: cursor when the terminal began
  reads,      \* history: items the running terminal's source gave
  status      \* "idle" between terminals, "pull", "end", or how the terminal failed

progressVars == <<count, state, cursor, effects, reads>>
historyVars == <<served, began>>
vars == <<program, consumed, started, progressVars, stack, reply, terminal, output, historyVars, status>>

Nodes == DOMAIN program.nodes
Op(n) == program.nodes[n].op
Up(n) == program.nodes[n].up

NoReply == <<"nothing", 0>>
End == <<"end", 0>>

Init ==
  /\ program \in Programs
  /\ consumed = [n \in Nodes |-> FALSE]
  /\ started = {}
  /\ count = [n \in Nodes |-> program.nodes[n].n]
  /\ state = [n \in Nodes |-> 0]
  /\ cursor = 0
  /\ stack = <<>>
  /\ reply = NoReply
  /\ terminal = 1
  /\ output = <<>>
  /\ effects = [n \in Nodes |-> <<>>]
  /\ served = {}
  /\ began = 0
  /\ reads = 0
  /\ status = "idle"

-----------------------------------------------------------------------------
(* Terminals: collect, run and reduce pull until the end.                  *)

Target == program.terminals[terminal]

\* mutant: the flag is not looked at.
BeginAnyway ==
  /\ status = "idle" /\ terminal <= Len(program.terminals)
  /\ output' = <<>> /\ began' = cursor /\ reads' = 0
  /\ consumed' = [consumed EXCEPT ![Target] = TRUE]
  /\ served' = served \cup {terminal}
  /\ stack' = <<Target>>
  /\ status' = "pull"
  /\ UNCHANGED <<program, started, count, state, cursor, effects, reply, terminal>>

\* consume(): the flag is set before anything is pulled; a second time fails.
Begin ==
  /\ status = "idle" /\ terminal <= Len(program.terminals)
  /\ output' = <<>> /\ began' = cursor /\ reads' = 0
  /\ IF consumed[Target]
     THEN status' = "consumed twice" /\ UNCHANGED <<consumed, served, stack>>
     ELSE /\ consumed' = [consumed EXCEPT ![Target] = TRUE]
          /\ served' = served \cup {terminal}
          /\ stack' = <<Target>>
          /\ status' = "pull"
  /\ UNCHANGED <<program, started, count, state, cursor, effects, reply, terminal>>

\* An item reached the terminal: keep it and pull again.
Deliver ==
  /\ status = "pull" /\ stack = <<>> /\ reply # End
  /\ output' = Append(output, reply)
  /\ reply' = NoReply
  /\ stack' = <<Target>>
  /\ UNCHANGED <<program, consumed, started, progressVars, terminal, historyVars, status>>

Finish ==
  /\ status = "pull" /\ stack = <<>> /\ reply = End
  /\ reply' = NoReply
  /\ status' = "end"
  /\ UNCHANGED <<program, consumed, started, progressVars, stack, terminal, output, historyVars>>

\* The next terminal: a later statement, or after a failure the next
\* submission of a session.
NextTerminal ==
  /\ status \notin {"idle", "pull"}
  /\ status' = "idle"
  /\ terminal' = terminal + 1
  /\ UNCHANGED <<program, consumed, started, progressVars, stack, reply, output, historyVars>>

Fail(how) ==
  /\ status' = how
  /\ stack' = <<>>
  /\ reply' = NoReply
  /\ UNCHANGED <<program, consumed, started, progressVars, terminal, output, historyVars>>

-----------------------------------------------------------------------------
(* Pulling node n, the innermost.                                          *)

Top == stack[Len(stack)]
Pulling == status = "pull" /\ stack # <<>> /\ reply = NoReply
Answered == status = "pull" /\ stack # <<>> /\ reply # NoReply
Caller == SubSeq(stack, 1, Len(stack) - 1)

Return(v) ==
  /\ reply' = v
  /\ stack' = Caller
  /\ UNCHANGED <<program, consumed, started, terminal, output, historyVars, status>>

\* lazy: the first pull consumes the upstream; when that fails nothing is
\* cached.
Start(n) ==
  /\ Pulling /\ n = Top /\ Op(n) \in Stages /\ n \notin started
  /\ ~consumed[Up(n)]
  /\ consumed' = [consumed EXCEPT ![Up(n)] = TRUE]
  /\ started' = started \cup {n}
  /\ UNCHANGED <<program, progressVars, stack, reply, terminal, output, historyVars, status>>

StartFails(n) ==
  /\ Pulling /\ n = Top /\ Op(n) \in Stages /\ n \notin started
  /\ consumed[Up(n)]
  /\ Fail("consumed twice")

\* Demand of a started stage: a satisfied take ends without asking.
Satisfied(n) == Op(n) = "take" /\ count[n] <= 0

TakeEnds(n) ==
  /\ Pulling /\ n = Top /\ n \in started
  /\ Satisfied(n)
  /\ Return(End)
  /\ UNCHANGED progressVars

\* mutant: take looks one item ahead.
AskAlways(n) ==
  /\ Pulling /\ n = Top /\ n \in started
  /\ Op(n) = "take" => count[n] >= 0
  /\ stack' = Append(stack, Up(n))
  /\ UNCHANGED <<program, consumed, started, progressVars, reply, terminal, output, historyVars, status>>

Ask(n) ==
  /\ Pulling /\ n = Top /\ n \in started
  /\ ~Satisfied(n)
  /\ stack' = Append(stack, Up(n))
  /\ UNCHANGED <<program, consumed, started, progressVars, reply, terminal, output, historyVars, status>>

\* Lines of stdin come from a cursor all Flows share.
Stdin(n) ==
  /\ Pulling /\ n = Top /\ Op(n) = "stdin"
  /\ IF cursor < Lines
     THEN cursor' = cursor + 1 /\ reads' = reads + 1 /\ Return(Raw(cursor + 1))
     ELSE UNCHANGED <<cursor, reads>> /\ Return(End)
  /\ UNCHANGED <<count, state, effects>>

List(n) ==
  /\ Pulling /\ n = Top /\ Op(n) = "list"
  /\ IF count[n] < Lines
     THEN /\ count' = [count EXCEPT ![n] = @ + 1]
          /\ reads' = reads + 1
          /\ Return(Raw(count[n] + 1))
     ELSE UNCHANGED <<count, reads>> /\ Return(End)
  /\ UNCHANGED <<state, cursor, effects>>

\* evolve applies its step only when an item after the first is demanded.
Evolve(n) ==
  /\ Pulling /\ n = Top /\ Op(n) = "evolve"
  /\ state' = [state EXCEPT ![n] = @ + 1]
  /\ reads' = reads + 1
  /\ Return(Raw(state[n] + 1))
  /\ UNCHANGED <<count, cursor, effects>>

-----------------------------------------------------------------------------
(* The upstream answered node n.                                           *)

Emit(n, v) == Return(v) /\ UNCHANGED progressVars

\* Skip the item: ask the upstream again.
Skip(n) ==
  /\ reply' = NoReply
  /\ stack' = Append(stack, Up(n))
  /\ UNCHANGED <<program, consumed, started, terminal, output, historyVars, status>>

\* mutant: the loop of filter does not look for the end.
PassEndIgnored(n) ==
  /\ Answered /\ n = Top /\ reply = End
  /\ IF Op(n) = "filter" THEN Skip(n) ELSE Return(End)
  /\ UNCHANGED progressVars

\* No more items; a take whose source ended remembers it.
PassEnd(n) ==
  /\ Answered /\ n = Top /\ reply = End
  /\ Return(End)
  /\ count' = [count EXCEPT ![n] = IF Op(n) \in {"take", "drop"} /\ @ > 0 THEN 0 ELSE @]
  /\ UNCHANGED <<state, cursor, effects, reads>>

Item(n, op) == Answered /\ n = Top /\ reply # End /\ Op(n) = op

\* A stage over a list of strings re-checks and passes on each item.
PassLines(n) == Item(n, "lines") /\ reply[1] = "raw" /\ Emit(n, reply)

\* apply refuses none; keep_some refuses what is not an Option, and lines what
\* is not a string.
Refused(n) ==
  /\ Answered /\ n = Top /\ reply # End
  /\ \/ reply = None /\ Op(n) \in {"map", "option", "filter", "scan", "each"}
     \/ reply[1] = "raw" /\ Op(n) = "keep_some"
     \/ reply[1] # "raw" /\ Op(n) = "lines"
  /\ Fail("unsupported")

CanApply(n) == reply # None

Map(n) == Item(n, "map") /\ CanApply(n) /\ Emit(n, Inc(reply))
MapOption(n) == Item(n, "option") /\ CanApply(n) /\ Emit(n, Option(reply))

\* mutant: an item whose verdict is false ends the Flow.
FilterStops(n) ==
  /\ Item(n, "filter") /\ CanApply(n)
  /\ Emit(n, IF IsOdd(reply) THEN reply ELSE End)

Filter(n) ==
  /\ Item(n, "filter") /\ CanApply(n)
  /\ \/ IsOdd(reply) /\ Emit(n, reply)
     \/ ~IsOdd(reply) /\ Skip(n) /\ UNCHANGED progressVars

Take(n) ==
  /\ Item(n, "take")
  /\ count' = [count EXCEPT ![n] = @ - 1]
  /\ Return(reply)
  /\ UNCHANGED <<state, cursor, effects, reads>>

\* drop spends its count on the first items.
Drop(n) ==
  /\ Item(n, "drop")
  /\ \/ count[n] <= 0 /\ Emit(n, reply)
     \/ /\ count[n] > 0
        /\ count' = [count EXCEPT ![n] = @ - 1]
        /\ Skip(n)
        /\ UNCHANGED <<state, cursor, effects, reads>>

\* scan emits the new state (Sum), never the seed.
Scan(n) ==
  /\ Item(n, "scan") /\ CanApply(n)
  /\ state' = [state EXCEPT ![n] = @ + reply[2]]
  /\ Return(Raw(state[n] + reply[2]))
  /\ UNCHANGED <<count, cursor, effects, reads>>

KeepSome(n) ==
  /\ Item(n, "keep_some") /\ reply[1] # "raw"
  /\ \/ reply # None /\ Emit(n, Raw(reply[2]))
     \/ reply = None /\ Skip(n) /\ UNCHANGED progressVars

\* mutant: the effect runs again when the item is passed on.
EachAgain(n) ==
  /\ Item(n, "each") /\ CanApply(n)
  /\ effects' = [effects EXCEPT ![n] = @ \o <<reply, reply>>]
  /\ Return(reply)
  /\ UNCHANGED <<count, state, cursor, reads>>

Each(n) ==
  /\ Item(n, "each") /\ CanApply(n)
  /\ effects' = [effects EXCEPT ![n] = Append(@, reply)]
  /\ Return(reply)
  /\ UNCHANGED <<count, state, cursor, reads>>

\* A callback throws, or returns what the stage cannot use.
CallbackFails(n) ==
  /\ stack # <<>> /\ n = Top
  /\ \/ Answered /\ reply \notin {End, None} /\ Op(n) \in {"map", "option", "filter", "scan", "each"}
     \/ Pulling /\ Op(n) = "evolve" /\ state[n] > 0
  /\ Fail("callback failed")

Step(n) ==
  \/ Start(n) \/ StartFails(n) \/ TakeEnds(n) \/ Ask(n)
  \/ Stdin(n) \/ List(n) \/ Evolve(n)
  \/ PassEnd(n) \/ PassLines(n) \/ Refused(n)
  \/ Map(n) \/ MapOption(n) \/ Filter(n) \/ Take(n) \/ Drop(n) \/ Scan(n) \/ KeepSome(n) \/ Each(n)

Next ==
  \/ Begin \/ Deliver \/ Finish \/ NextTerminal
  \/ \E n \in Nodes : Step(n) \/ CallbackFails(n)

Spec == Init /\ [][Next]_vars

\* The evaluator keeps running.  A failing callback is not forced.
FairSpec ==
  /\ Spec
  /\ WF_vars(Begin \/ Deliver \/ Finish \/ NextTerminal \/ \E n \in Nodes : Step(n))

-----------------------------------------------------------------------------
(* Properties                                                              *)

Begun == status \in {"pull", "end"}

Source == SourceOf(program.nodes, Target)

\* What n makes of the first k items the running terminal's source has to give.
Offset == IF Op(Source) = "stdin" THEN began ELSE 0
Made(n, k) == Reference(program.nodes, n, Counted(k, Offset))

\* All the items there are; evolve has as many as one cares to ask for, and
\* Horizon is where every take of the runs is long satisfied.
Horizon == 12
Available ==
  CASE Op(Source) = "stdin"  -> Lines - began
    [] Op(Source) = "list"   -> Lines
    [] Op(Source) = "evolve" -> IF reads < Horizon THEN Horizon ELSE reads

\* What a terminal has received is what its stages compute on whole sequences,
\* in order and without gaps, from the source as the terminal found it, and
\* all of that once it ends: laziness, and what earlier terminals did or
\* failed to do, cannot be seen in the items.
OutputCorrect ==
  terminal \in DOMAIN program.terminals /\ Begun =>
    /\ IsPrefix(output, Made(Target, Available))
    /\ status = "end" => output = Made(Target, Available)

\* Bounded demand: an item is read from the source only when everything its
\* predecessors produce has been delivered, and no take on the way already
\* has its count.
BoundedDemand ==
  terminal \in DOMAIN program.terminals /\ Begun /\ reads > 0 =>
    /\ Len(Made(Target, reads - 1)) <= Len(output)
    /\ \A m \in Path(program.nodes, Target) :
         Op(m) = "take" => Len(Made(m, reads - 1)) < program.nodes[m].n

\* A Flow has one consumer: a terminal or one started downstream Flow.
SingleConsumer ==
  \A n \in Nodes :
    Cardinality({t \in served : program.terminals[t] = n})
      + Cardinality({m \in started : Up(m) = n}) = IF consumed[n] THEN 1 ELSE 0

\* Effects run once per demanded item, in order, at the time of the demand:
\* never ahead of the items read and never more than one item behind.
EffectsOnDemand ==
  terminal \in DOMAIN program.terminals =>
    \A i \in DOMAIN stack :
      Op(stack[i]) = "each" =>
        /\ IsPrefix(effects[stack[i]], Made(stack[i], reads))
        /\ reads > 0 => IsPrefix(Made(stack[i], reads - 1), effects[stack[i]])

\* Every program comes to its end when its sources are finite or bounded by a
\* take, whatever fails on the way.
Finishes == <>(terminal > Len(program.terminals))
=============================================================================
