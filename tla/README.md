# Verification of the genia-cpp runtime

TLA+ models of genia-cpp (a C++ host for the Genia language): what it shares between
threads, what it evaluates lazily, what its sessions define and how it computes with numbers, maps, texts and JSON and how it parses, with the
properties that make each correct, checked with TLC on small instances and, for the concurrent core, the Flow kernel, the definitions, their dispatch and UTF-8, proved with TLAPS for every size.

## The system

One process answers one JSON request (`src/main.cpp`, `src/adapter.hpp`): `parse`, `lower`,
`eval` or `cli`. A program is parsed, lowered to Core IR and evaluated (`src/engine.hpp`);
what lies outside the implemented subset is answered `unsupported`, never guessed. Evaluation is
sequential, except that Cells and Processes own worker threads which evaluate closures.

| Component | State | Operations | Interacts by | Correct when |
|---|---|---|---|---|
| accounting barrier `r25_quiescence.hpp` | one shared counter, its mutex and condition | accept, complete, await_idle | called by every Cell and Process under their own mutex | the counter is exactly the work outstanding; zero is final |
| Cell `cell.hpp` | queue, status, error, generation, counters, backing Ref, worker | send, stop, restart, get, await_idle, destruction | sends staged by callbacks, shared Ref | updates apply in admission order to the value they replace; failed, stale or stopped work leaves no trace but its count |
| Process `process.hpp` | mailbox, failure, counters, handler, worker | send, await_idle, destruction | as Cell | one handler at a time, in order; a failure closes admission for good |
| ownership `value.hpp` | `shared_ptr`s in environments, closures, queues, locals | copy, release, destructor joining the worker | destructors run wherever the last handle dies | nothing dangles; joins cannot block for ever |
| Ref `ref.hpp` | optional value, mutex, condition | get, set, update, is_set | callbacks that run under the mutex | a register; no lost wake-up |
| Flow `flow.hpp` | consumed flag, lazily started pull, counts | lines, evolve, map, filter, take, drop, scan, keep_some, each; collect, run, reduce | pulls go up the chain, items come down; stdin's cursor is shared | lazy evaluation computes what the stages compute on whole sequences and reads no more than demanded |
| run state `runtime_io.hpp` | thread-local stdout buffer, stdin cursor, argv, source name | a guard installs and restores them | read by natives and Flow | nested runs do not see each other's state |
| engine, session `engine.hpp`, `pipe_mode.hpp` | session environment, pending lines, output | run, REPL submissions, pipe mode | exceptions mapped to results | earlier output and definitions survive a failing submission |
| environment `environment.hpp`, function groups (`evaluator.hpp` `FuncDef`), `dispatch_key.hpp`, `pattern_match.hpp` | bindings, overloads, clauses | define, look up, extend a group, dispatch | closures capture environments, also on workers | a rejected definition changes nothing; dispatch takes the first arm that matches |
| exact numbers `bignum.hpp`, `rational.hpp`, `arithmetic.hpp`, `equality.hpp` | values | arithmetic, comparison, map keys | pure | agree with integers and fractions; equality is an equivalence |
| parser `parser.hpp`, `header_capture.hpp` | tokens, position, nesting, open names | one function per production, speculative ones that restore the position | called once per source | a source has the one reading the grammar gives it, or none |
| json, utf8, lowering, projections, rendering, formatting | none between calls | pure functions | called in sequence | total on their inputs, limits respected |

What is hard: worker threads interleaving with the main thread (commits against restarts, the
barrier against staged sends, waits against notifications), destructors that join threads, callbacks under a
mutex, failure in the middle of a transaction, and laziness with shared, single-use sources.
`PROJECT.json` lists these hazards with their lines and the properties for them.

## Modules

| Module | Models | State and actions |
|---|---|---|
| `R25Quiescence` | the accounting barrier | `pending`, who waits and who sleeps; `Accept`, `Complete` |
| `Mailbox` | what Cell and Process share | queue, counters, the worker's place in `run()`, the sends its callback staged; `Admit`, `Settle`, `Sleep`, `Exit`, `Dequeue`, `StageSend`, `Retire`, `Terminate`, `Join` |
| `Cell` | Cell | adds status, error, generation and the backing value; `Stop`, `Restart`, `ReadState`, `CommitUpdate`, `FailUpdate`, `DiscardStale` |
| `Process` | Process | adds failure; `CommitHandler`, `FailHandler` |
| `R25` | Cells and Processes together with the threads that use them | sends from outside, staging, dispatch, waits; the properties |
| `CausalWork` | what the barrier promises | pieces of work opened by roots or by open work, and closed; a wait passes only when nothing is open |
| `Lifetime` | who holds handles (scope, state or handler, queue, running item, callback, replacement, staged sends), which thread destroys an entity | sends, reads, commits and restarts that replace a state, failures; releases, nested destructors, joins, the mutexes under which states and queues are released |
| `Register` | what Refs promise | atomic read, write, replace |
| `Ref` | Ref | the update callbacks a thread is in, sleepers, notifications owed |
| `Flow` | the Flow kernel | the stack of pulls in progress, what came back, the counts of the stages, consumed and started Flows |
| `Pipelines` | the kinds of stages and their callbacks; the reference for `Flow` | operators: `Applied`, what a stage makes of a whole sequence, and `Reference`, what a pipeline does |
| `Groups` | the environment of a session and its function groups | the binding of each name, every group ever made, the last answer; `DefineFunction`, `DefineOpen`, `AssignName`, `AssignData`, `Expression`, `CallName` |
| `Patterns` | matching, dispatch keys, guards | values, patterns and expressions level by level up to `Depth`; recursive functions `MatchAtom`, `Eval`, `PatternKey`, `ExpressionKey` and the operators `Match`, `ClauseKey`, `Takes` over them; the reference for keys, `SameUpToNames` |
| `Dispatch` | `Session` with the clauses of `Patterns` | what a clause's key and its verdicts are; `NoAlphaDuplicates` |
| `Session` | `try_run` and `try_repl` over `Groups` | text read and not submitted, statements to run, what was shown; `ReadLine`, `EndOfScript`, `ReadSource`, `RunStatement`, `FinishSource` |
| `Bignum` | `Integer`: sign and limbs | operators: `Add`, `Mul`, `DivMod`, `FloorRemainder`, `Gcd`, `FromUnsignedDecimal`, `ToDecimalString` and what they call |
| `Numbers` | exact decimals and rationals, promotion | operators: `Arithmetic`, `AddSub`, `Times`, `Divide`, `Remainder`, constructors with their normalization |
| `Floats` | conversion between exact numbers and floats | operators: `FractionToBinary64`, `FromExact`, `ToExact`, `NumericCompare` |
| `Values` | structural equality, map keys, the ordered map with its index, lists and outcomes in natives | operators: `EvalBinary`, `EvalMinus`, `StructuralEqual`, `MapKey`, `MapPut`, `MapRemove`, `Nth`, `Sum`, `UnwrapOr` |
| `Formats` | `format.hpp` for one value | operators: `ApplySpec` and the five styles |
| `Utf8` | `utf8.hpp` | operators: `DecodeOnePermissive`, `IsWellFormed`, `EncodeCodepoint` |
| `Json` | `json.hpp`: the decoder and the encoder | operators: `Decode`, `Encode` and one per production |
| `Parser` | `parser.hpp` from tokens to the tree, and `header_capture.hpp` | operators: `ParseProgram` and one per production (`ParseBinary` for the five levels of operators), each giving a tree and the position behind it, or nothing |
| `Data` | a program that computes with all of these | `text` typed so far, the `value` at hand, its promised `meaning`, operations `spent`; `Type`, `JsonDecode`, `ReadInteger`, `Binary`, `Minus`, `ToFloat64`, `FromFloat64`, `RationalFrom`, `Format`, and one action per native on maps, lists, outcomes and representations |
| `Meanings`, `Grammars`, `Unicode`, `Readings` | no code: the references | a number as a TLA+ fraction, a float as the nearest multiple, a map as its entries; JSON and whole numbers as automata that read one item at a time, UTF-8 as the Unicode Standard's table of byte ranges; the grammar as data and all its readings of a token sequence |
| `MCLifetime`, `MCRef`, `MCFlow`, `MCSession`, `MCData` | instances | the constants of the runs; `MCSession` has the clauses, arguments and lines |
| `R25Proofs`, `TransactionProofs`, `LifetimeProofs`, `RefProofs`, `SessionProofs`, `DispatchProofs`, `FlowProofs`, `Utf8Proofs` | proofs | |

In `Groups` and `Session` an expression is its outcome: a value, Nil, a value without a rendering, a runtime error, a Flow error
or nothing (`unsupported`). A clause, its key and its verdict on an argument list are constants of `Groups`, so what is proved of a session alone holds for any
matching; `Dispatch` says that they are those of `Patterns`. A line of a script is the sequence of phrases the parser meets in it; `Parsed` folds the parser's
state (open names, a header waiting for its body) over them. Guards see the names the session had bound at its start.
Integers and decimals are numbers that differ in kind; a literal is a value and the zeros it is written with, which is all that
the key forgets of it; of the values that equal nothing, not even themselves, outcomes are modelled, and floats with their NaN are left to `Data`. A guard compares, refers to names and applies lambdas. A match is a set with the bindings it makes, or the
empty set. A scope is the sequence of bindings made so far, of which the last of a name counts; the key walks it the same way, with slots for places.

A section under one mutex is one step when nothing in it blocks. A callback is not one step: between its
beginning and its end others move. A value is represented by what the properties tell apart: a Cell's value is the
generation it belongs to and the log of the updates applied to it; a Ref's value is the store that made it and the store
it was computed from; an entity's handle is the entity. Definitions named in comments as mutants are faulty variants
that show each property can fail; they are not part of the specifications.

The data modules are written from the code's algorithms, limb by limb and byte by byte: a carry, a quotient bit, the sticky bit of a rounding, an
index adjusted after a removal, the error a decoder stops at. Their references share none of it. `Meanings` computes with TLA+ integers
and is never given the value the code has, only the meanings of the operands; `Grammars` reads a text from the left, one item at a time,
with a stack of open brackets, and `Unicode` byte by byte with the ranges still awaited, where the code descends recursively and looks ahead. The code has the steps of its two UTF-8 decoders twice; they are modelled once.
Constants carry what the code fixes: the limb (32 bits), the chunk of digits (9), the float (52 and 11 bits), the
nesting and the exponent limits of JSON, the count a format may ask for. `Shortest` is the C++ library's shortest text of a float.

`Parser` follows the code production by production: what is tried, what is committed to once begun, where the position is restored, the
counter of nesting. A parser is its tokens and the open functions it has parsed; productions call those that come later through `Parse`. A token is its text, and has a line; characters, decimals and the lines kept for diagnostics are left out.
`Readings` has the grammar of the head of `parser.hpp` as a table, with what the code adds to it, and fills a chart with every reading of every symbol from every token,
from the last to the first; it neither looks ahead nor tries anything. A few named rules (`Selected`) say which of
several readings is meant: what can be a lambda is no group, a body that starts as a clause is clauses, the longest of what may stop early.
What still has two readings is no program. The reading of a program is its promised `meaning` in `Data`.

Two abstractions deserve a word. `R25` destroys an entity when no wait or staged send can reach it; that ownership really gives
this, and what else follows from it, is `Lifetime`, which in turn does not look at values, counters and order.
`Lifetime` takes what work may capture and a state may hold from a relation `MayHold`, the discipline of the program; with every pair in it the program
is unrestricted, as closures capturing their whole environment are. A callback reaches (`Reach`) what its item captured, the handler of its
Process or the copy of the state its Cell gave it, and what it read of other Cells; it stages, returns and restarts with that. A commit or a restart
puts another set of handles into the state and releases the old one before it lets go of the Cell's and the Ref's mutexes
(`Commit`, `RestartSets`: `value_ = std::move(replacement)`, `src/ref.hpp:42`, under `src/cell.hpp:205` or `:132`), so a destructor may wait
there for a worker whose callback waits for the same Cell (`Call`). The main thread waiting at a mutex is the main thread not taking the step.
Not in `Lifetime`: a Ref shared by several Cells or held on its own (`cell_with_state`, `ref_set`), entities made inside callbacks (all exist at
the start, held by the main thread), `stop`, which only refuses sends, and what a staged send to a failed Process does to its sender, which is in `R25`.

## Runs

| Run | Shows | Bounds |
|---|---|---|
| `r25_causal` | the counters are exact through failure, restart and destruction; the barrier opens only when nothing is left and stays open; the runtime implements `CausalWork` | a cell, a process, a waiting thread, 2 root sends, chains of 3, 1 restart |
| `r25_order` | admission order, program order, complete rollback; generations do not mix, an open cell loses no update, failure closes | a cell and a process, 2 roots, 2 staged sends per callback, a restart |
| `r25_live` | waits return, stopped cells drain | a cell, a process, two waiting threads, 1 root |
| `r25_staged_send` | finding: a staged send to a failed Process ends the program | a cell, a process, 2 roots |
| `lifetime` | handles never dangle, joins descend, everything is reclaimed | a Cell between two Processes in a chain, each holding the next; 2 items sent or staged, 2 states read or restarts, by the main thread or a callback |
| `self_join` | finding: without the discipline a worker joins itself | one Process, captures unrestricted, 1 send |
| `ref` | updates exclude each other, the Refs are registers, nobody sleeps through a store | three threads, two Refs, one nested in the other and at first unset, 4 calls |
| `flow` | items, demand, consumption and effects of every program below, and that it ends | 4 lines; all chains of at most 2 stages over 3 sources, counts 0 to 2, a `take 1` branching off at any node, 3 terminals |
| `session` | groups stay distinct, a choice stays, failure changes nothing, each submission is answered once; duplicates are refused exactly up to renaming and are dead | every script of 3 lines out of 49, 13 sources, 25 clauses on 11 argument lists, 3 names and `main`; terms of 3 levels over 4 identifiers |
| `data` | numbers of four kinds through operators, conversions and formats, maps and lists through natives, and every text of five alphabets as bytes, whole number or JSON, and programs of nine: exactly what the references promise | limbs of 7 bits, chunks of 2 digits, floats of 2 and 3 bits (subnormals, infinities), at most 3 operations, each with a value out of 20, then 5, then 3, numerators up to 20000 before the first operation and 100 before the later ones, texts of 4 to 6 items, nesting 2, exponents up to 3, counts up to 12; 3 to 5 tokens behind the beginnings of the programs, nesting 2 |
| `guess` | finding: a lambda with an empty block takes the next expression for its body | the programs of `data` |
| `session_recover` | finding: a Flow error gives up the whole session | the same, 2 lines |

The bounds are the smallest at which the interesting cases meet: two items so that one is queued behind a failing one;
a chain of sends so that a child outlives its parent; two restarts' worth of generations; a third thread so
that notifying one waiter is not notifying all; an entity in the middle of a chain so that destructors nest; a second
terminal on a used Flow, and one on what the first left of stdin.
Three lines are a definition, an alias or rebinding, and a definition or call through either name; the clauses hold each kind of
pattern, pairs that differ by renaming, by a repeated name, by a shadowing lambda, by the zeros of an integer, and guards that fail.
In `data` the numbers lie on both sides of one and of two limbs and of a chunk; 7/3 and 1/2 meet at a half, the floats at the largest and
the first beyond; a map takes keys that are equal numbers of different kinds, one is removed before the last; byte texts hold the boundary of each
class of lead and continuation bytes; a JSON text of 6 items opens one bracket too many. Programs begin with the header of a function, of an open function, of one with an arm or a second
clause, inside a block, or at the start, and go on with the tokens that matter there; a text is typed on as long as the grammar may still read it.
Runs of `Session`, `Flow`, `Data`, `Ref`, `Lifetime` and `R25` end when their bounded calls are used up, so deadlock is not checked there; the liveness
properties say what must not block.

## Fairness

`R25!FairSpec`, `Lifetime!FairSpec` and `Ref!FairSpec`: each worker or thread that can take its next step does (the operating
system schedules runnable threads), callbacks return, and a destructor or a restart that began goes on. No thread is ever obliged to send, restart, read, let go or
call, nor a callback to stage. The code claims no timeouts and says that a callback that never returns blocks its waiters
(`src/cell.hpp:147`), which is this assumption. Mutexes are not fair; the bounded number of calls stands in for
the eventual turn of a thread. `Flow!FairSpec`: the evaluator goes on; a callback may fail at any call and need not.

## Proofs

For every number of entities, threads, sends and restarts, every set of names, clauses and lines, every pipeline of any length over input of any length, and every text of bytes:

- `R25Proofs`: `TypeCorrect`, `LocalAccountingHolds`, `SharedAccountingHolds`, `FifoWorkHolds`, `CausalBarrierHolds`,
  `QuietIsFinalHolds`, `R25ImplementsCausalWork`. The counters alone are not inductive: `IInv` adds, per entity, that the running item and the queue
  are numbered consecutively up to `accepted`, that staged sends exist only while a callback or dispatch is under way, and that the
  set of outstanding items is finite with `pending` its cardinality. A step adds one number, removes the running one or removes the queue; three lemmas give the
  cardinality in each case. The refinement maps a commit or a dispatch to a stutter or to the opening of a child whose parent
  is still open, which is where the order in `run()` matters (dispatch, then retire).
- `TransactionProofs`, values: `GenerationIsolationHolds`, `NoUpdateLostHolds`, `ValueStepsHolds`, `FailureClosedHolds`. `CellStep` reduces every step of the
  runtime to one of ten effects on a cell, whoever takes it. The invariant numbers what is in the log, running and queued consecutively (`LogInv`), and ties
  the value a callback was given to its generation (`CellInv`); a stale worker's commit is the case that needs both.
- `TransactionProofs`, sends: `RollbackIsCompleteHolds`, `ProgramOrderHolds`. `SendStep` classifies the steps by what becomes of a transaction. The invariant: staged
  sends are stamped with the transaction in order, an item lies `Behind` the transaction that sent it, and a transaction rolled back is over.
- `LifetimeProofs`: `LifetimeTypeCorrect`, `HeldAliveHolds`; and, when captures are ordered (`Acyclic`), `JoinsDescendHolds` and
  `NoSelfJoinHolds`. For ownership the invariant adds which phase excludes which holding (`Between`), and that who holds a mutex across a release,
  or waits for one, has a handle of its entity or is its worker, and holds no other (`Callers`): that is why a restart sets the state of an entity that
  is not being destroyed. For order it adds that what an entity and its work hold is below it (`Ordered`) and that what is released or joined under its mutex is
  too (`UnderMutex`); the second is what carries over when a member of something joined is released in turn.
- `RefProofs`: `RefTypeCorrect`, `CallbackExclusiveHolds`, `NoLostWakeupHolds`, `RefImplementsRegister`. The invariant: a value is
  unchanged while an update is inside its callback, frames of all threads are on distinct Refs, stamps are below the number of stores.
- `SessionProofs`: `GroupsTypeCorrect`, `DefinitionsDistinctHolds`, `ChoiceStableHolds`, `RejectedChangesNothingHolds`, `SubmittedOnceHolds`. The
  lemma `EffectOf` reduces every step of a session to one of four effects: no group changes, an ordinary group gains a member of a new arity,
  an open group grows by clauses of new keys, or a name is bound to a fresh group. Types and distinctness are inductive together: that
  the first member of an arity is the only one is what types a dispatch. A choice is kept because what was tried before stays a prefix.
  For submissions the invariant counts the running program as the one not answered yet.
- `DispatchProofs`: `KeyIsAlpha`, `AlikeTakeAlike`, `DuplicatesAreDeadHolds`, `NoAlphaDuplicatesHolds`, for clauses of any shape and any nesting. Two clauses have
  one key exactly if they are the same up to the names they bind and the zeros of their literals; such clauses accept the same arguments and fail on the same ones;
  hence what an open group refuses as a duplicate could never have been reached, and it refuses all that are. Types and distinctness of groups come from `SessionProofs`.
  Terms are built in levels, so induction over terms is induction over levels (`PatternInduction`, `ExpressionInduction`), and each recursive
  function is shown to be what its equation says (`MatchAtomUnfolds`, ...). For the keys: walking a pattern collects the names it binds, each once and in the order
  of their first place (`BindersSet`); that two patterns have one key in two scopes says that the slots pair the names (`PatternKeyIsLike`); and since
  a lambda only appends its names to the scope, the layers of pairings that `LikeExpression` keeps and the two scopes stay in step (`FitsExtends`, `ExpressionKeyIsLike`), shadowing included. For the matches: alike
  patterns bind the same values in the same places to paired names (`MatchAlike`), so two names that are paired look up the same value in the two
  scopes (`EvalAlike`). It needs that the pairing is one to one: otherwise `[x, x]` and `[x, y]` would be alike, and one accepts less.

- `FlowProofs`, first part: facts about the reference semantics, for every well-formed pipeline. `FirstPrefix`: what a pipeline makes of fewer
  items is a prefix of what it makes of more. `StageStep`: a stage that keeps only a count and a sum does, item by item, what it does to
  whole sequences. The prover has no induction over formulas, so induction is over sets: a set of naturals with a complement has a least element outside it
  (`LeastNatural`, from the library's well-foundedness), hence a set that has 0 and is closed under successor has all naturals (`InductionByOne`). With it
  every recursive function of `Pipelines` is shown to exist (`KeptExists`, `PathExists`, `MadeExists`) and to satisfy its equation, and is reasoned
  about by that equation from then on.
- `FlowProofs`, second part: `OutputIsReference`, `DemandIsBounded`, `EffectsFollowDemand`, `OneConsumer`. The invariant, `InductiveInvariant`, describes the
  chain from the running terminal's target down to its source. The nodes being pulled are that chain from the top as far as the demand has gone
  (`Chained`). Each node that has started is in step with the source: count, carried sum and effects are what the reference says
  after the items read so far, the last one excepted as long as it is still below the node (`Sync`). The item on its way up is what the reference makes of the last
  item read (`Emitted`); an end on its way is final, whatever else the source might give (`Ended`); and when the last item
  was read no take had its count (`Wanted`), which is what bounds the demand. A filter or a drop that swallows an item asks again; that is where one needs that
  a node behind it sees nothing of it (`Unseen`). Apart from the chain, `Consumers` says that consumers and flags correspond across all terminals, failed ones included,
  and `Fresh` that a Flow nobody has consumed is untouched, which is why a terminal may assume that its chain starts from the beginning.
- `Utf8Proofs`: `Utf8ExactHolds`. The code decides by arithmetic: it collects the bits and then asks whether the code point needed that many bytes, exists and is no
  surrogate half. The standard has no arithmetic, only ranges for the first two bytes. `TwoRange`, `ThreeRange` and `FourRange` show for each length that the one is
  the other and that the encoder undoes it; `FitsAll` puts them into the text, at a place where nothing is awaited: the decoder reads a code point there exactly if the table
  comes back to nothing awaited, as many bytes later, and otherwise the table never does, the end of the text included. From there `OnwardReads` goes through the whole text,
  by induction from its end, and `StrictExact` follows. The recursions are treated as in `FlowProofs`.

The constants' assumptions are those named in the modules; nothing else is assumed. For `Dispatch` they say that the clauses are
clauses, the keys and verdicts theirs, and nothing about how deep terms nest. The theorem about UTF-8 is about any `text` of bytes (`TextOfBytes`), which is what `Data` types from the alphabet
`Bytes` (`BytesAssumption`). For Flow these are that the nodes of a program pull from earlier
nodes (a Flow is built from one that exists) and that stdin has a number of lines; the callbacks are fixed and may fail at any call.
`OutputCorrect` compares a terminal over `evolve`, which has no end of its own, with the first `Horizon` items or those read, whichever are more.
Type correctness of `Groups`, `Ref`, `Lifetime` and `Flow` is proved and not run again. The inductive invariant of `Flow` was also checked with TLC on the instance of the run `flow`, with `Complete`
looking ten items ahead; the run itself checks the properties.

Only model-checked:
- all liveness (fairness and ENABLED are beyond the prover), among it that every program over Flows comes to its end;
- the data modules (`Data` and what it computes with) but for UTF-8, which are recursive operators throughout: TLC needs them so, and the prover refuses them. `ParsedAsWritten`,
  `ComputedExactly`, `EqualityCoherent`, `DecoderMatchesGrammar` and `JsonRoundTrip` are therefore known on the instance of the run `data` only.

No module about which something is proved declares a recursive operator or reaches one.

## Findings

- `r25_staged_send`: a send staged by a callback to a Process that has failed by the time it is dispatched throws on the worker, where
  nothing catches it. A send from outside gives the normalized error of `tests/test_r25_hardening.cpp:49`; this one ends the program, against
  `src/main.cpp:21-23`. Both behaviours were seen in the built program.
- `self_join`: a Cell or Process whose last handle is held by its own queued work is destroyed by its own worker, which
  joins itself and ends the program. The documents ask owners to release off-worker and avoid cycles; a program in the language cannot tell which
  thread releases last. Also seen in the built program.
- `session_recover`: a Flow error in a scripted session (`collect(5)`, the second use of a Flow, any error inside a pipeline stage) makes `try_repl`
  give up without an answer; what earlier lines printed is lost too. `docs/host-conformance-repairs.md:30` says that failed submissions recover,
  and a command run reports the same error as a message. Also seen in the built program.

- `guess`: `f = (a) -> {}` and `f(1)` on the next line parse as `f = (a) -> f(1)`: the empty block is consumed and dropped, and the
  expression behind it becomes the body (`src/parser.hpp:1525-1539`). By itself `(a) -> {}` is unsupported. The grammar has no such reading
  (`src/parser.hpp:22`), and "nothing is guessed" (`src/parser.hpp:576`). Also seen in the built program. Every other program of the run `data` is parsed as written.

Seen on the way, without a document that says otherwise: a definition as the last statement of a submission, or a duplicate open clause, ends
a scripted session as `unsupported`; a line that can never parse swallows the rest of the script and the run still ends `ok`; the text that
`print` writes in a scripted session is not part of its output, since `try_repl` installs no run guard. In the data: `json_encode` writes every `none` as
`null` and loses its reason; a decoded `null` is an outcome and not structurally equal to itself, so a map that holds one is not either; the encoder lets surrogate halves
through that the decoder refuses; an exponent of seven digits is `InvalidJson` and not a number out of range; widths and precisions of formats count
bytes; `utf8_decode` says in a comment that source cannot construct invalid bytes, while `utf8_encode` of `"\ud800"` does.

## Plan

Done: the Cell/Process core, ownership, Ref, Flow, definitions and sessions, exact numbers with floats and formats, JSON, UTF-8, the parser; every safety property of `R25`, `Lifetime`, `Ref`, `Flow`, `Session` and of UTF-8 is proved. Next, in this order:

1. **Session**, what it leaves out: header bindings in the guards of ordinary groups, guards over names that are
   rebound later, lowering that refuses a parsed program, pipe mode; as further lines and clauses of the `session` run.
2. The environment shared by threads as a source of outcomes for guards.

Not planned: the tokenizer, lowering, projections, templates and the debug text of values (sequential text and tree processing without
state), arithmetic of two floats (the processor's), the vendored JSON library.
