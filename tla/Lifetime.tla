------------------------------ MODULE Lifetime ------------------------------
(***************************************************************************)
(* Who owns a Cell or Process, and which thread destroys it.               *)
(*                                                                         *)
(* Handles are shared_ptrs.  The main thread's environment holds them, an  *)
(* entity's members do (the state of a Cell, the handler of a Process),    *)
(* queued items (an update or message captures an environment), the item a *)
(* worker is on, its locals, its replacement and its staged sends.         *)
(* Whoever releases the last handle runs the destructor there and then,    *)
(* under whatever mutexes it holds, and the destructor joins the worker:   *)
(* src/cell.hpp, src/process.hpp, src/ref.hpp, src/evaluator.hpp.          *)
(*                                                                         *)
(* MayHold is the discipline of the program: <<e, x>> when work given to e *)
(* or kept in its state may hold a handle of x.                            *)
(***************************************************************************)
EXTENDS Naturals, Sequences, SequencesExt

CONSTANTS
  Cells, Processes,
  MayHold,      \* what the program puts into what, a subset of Entities \X Entities
  Owns,         \* <<e, x>> when the first state or the handler of e holds x
  MaxSends,     \* items sent or staged, in all
  MaxCalls      \* states read and restarts, by anyone, in all

Entities == Cells \cup Processes
Threads == Entities \cup {"main"}
Below(e) == {x \in Entities : <<e, x>> \in MayHold}

ASSUME CapturesAssumption == Owns \subseteq MayHold /\ MayHold \subseteq Entities \X Entities
ASSUME KindsAssumption == Cells \cap Processes = {}
ASSUME ThreadNames == "main" \notin Entities /\ "free" \notin Entities /\ "nobody" \notin Entities
ASSUME LifetimeBounds == MaxSends \in Nat /\ MaxCalls \in Nat

VARIABLES
  main,      \* the entities the main thread holds
  owned,     \* what an entity's members hold: the Ref's value_, or handler_
  queue,     \* queue_ / messages_: the captures of each item
  phase,     \* where the worker is
  holds,     \* captures of the item the worker is on, and of sends it dispatched
  local,     \* what the running callback holds: the state it was given, what it read
  kept,      \* what the replacement a callback returned holds
  staged,    \* sends staged by the running callback
  call,      \* the entity a callback waits to lock, or "nobody"
  drop,      \* handles a thread is releasing
  lock,      \* who holds the entity's mutex across a release, or "free"
  setting,   \* the Ref's mutex is held across a release as well
  life,      \* "live", "joining" once its destructor started, "gone"
  by,        \* the thread that destroys it, or "nobody"
  closed,    \* a failed update or handler closed admission
  stale,     \* restarted before the worker committed
  crashed,   \* a worker joined itself
  sends, calls

itemVars == <<holds, local, kept, staged, call>>
workerVars == <<phase, itemVars, stale>>
mutexVars == <<lock, setting>>
fateVars == <<life, by, crashed>>
counters == <<sends, calls>>
vars == <<main, owned, queue, workerVars, drop, mutexVars, fateVars, closed, counters>>

Captures == SUBSET Entities
Phases == {"check", "dequeued", "callback", "returned", "failed", "clearing", "committing", "dispatch", "exited"}
StagedSends == [to : Entities, held : Captures]
Held(items) == UNION ToSet(items)

Init ==
  /\ main = Entities
  /\ owned = [e \in Entities |-> {x \in Entities : <<e, x>> \in Owns}]
  /\ queue = [e \in Entities |-> <<>>]
  /\ phase = [e \in Entities |-> "check"]
  /\ holds = [e \in Entities |-> {}]
  /\ local = [e \in Entities |-> {}]
  /\ kept = [e \in Entities |-> {}]
  /\ staged = [e \in Entities |-> <<>>]
  /\ call = [e \in Entities |-> "nobody"]
  /\ drop = [th \in Threads |-> {}]
  /\ lock = [e \in Entities |-> "free"]
  /\ setting = [e \in Entities |-> FALSE]
  /\ life = [e \in Entities |-> "live"]
  /\ by = [e \in Entities |-> "nobody"]
  /\ closed = [e \in Entities |-> FALSE]
  /\ stale = [e \in Entities |-> FALSE]
  /\ crashed = FALSE
  /\ sends = 0 /\ calls = 0

\* A thread inside a destructor is blocked until the worker it joins exits.
Joining(th) == {e \in Entities : life[e] = "joining" /\ by[e] = th}
Runs(th) == Joining(th) = {} /\ drop[th] = {}
Unlocked(th) == \A e \in Entities : lock[e] # th
MainRuns == Runs("main") /\ Unlocked("main")
InCallback(e) == phase[e] = "callback" /\ call[e] = "nobody" /\ Runs(e) /\ Unlocked(e)

\* What a thread can reach.  The handler of a Process is reached where it is,
\* the state of a Cell through the copy the callback was given.
Reach(th) ==
  IF th = "main" THEN main
  ELSE holds[th] \cup local[th] \cup IF th \in Processes THEN owned[th] ELSE {}

-----------------------------------------------------------------------------
(* The main thread.                                                        *)

Send(e, held) ==
  /\ MainRuns /\ sends < MaxSends
  /\ e \in main /\ held \subseteq main \cap Below(e)
  /\ lock[e] = "free" /\ ~closed[e]
  /\ queue' = [queue EXCEPT ![e] = Append(@, held)]
  /\ sends' = sends + 1
  /\ UNCHANGED <<main, owned, workerVars, drop, mutexVars, fateVars, closed, calls>>

\* cell_get, cell_state: a copy of the state.
Get(c) ==
  /\ MainRuns /\ calls < MaxCalls
  /\ c \in main \cap Cells /\ lock[c] = "free" /\ ~closed[c]
  /\ main' = main \cup owned[c]
  /\ calls' = calls + 1
  /\ UNCHANGED <<owned, queue, workerVars, drop, mutexVars, fateVars, closed, sends>>

\* A handle goes out of scope.
LetGo(e) ==
  /\ MainRuns
  /\ e \in main
  /\ main' = main \ {e}
  /\ drop' = [drop EXCEPT !["main"] = {e}]
  /\ UNCHANGED <<owned, queue, workerVars, mutexVars, fateVars, closed, counters>>

-----------------------------------------------------------------------------
(* restart, by the main thread or inside a callback: it holds the mutex    *)
(* while it clears the queue, and the Ref's too while it sets the state.   *)

Restarting(th, c) == lock[c] = th /\ (IF th = "main" THEN TRUE ELSE phase[th] = "callback")
Uncommitted(e) == phase[e] \in {"dequeued", "callback", "returned", "failed"}

Restart(th, c) ==
  /\ Runs(th)
  /\ IF th = "main" THEN Unlocked("main") /\ c \in main /\ calls < MaxCalls /\ calls' = calls + 1
     ELSE call[th] = c /\ calls' = calls
  /\ c \in Cells /\ lock[c] = "free"
  /\ lock' = [lock EXCEPT ![c] = th]
  /\ call' = [e \in Entities |-> IF e = th THEN "nobody" ELSE call[e]]
  /\ queue' = [queue EXCEPT ![c] = <<>>]
  /\ drop' = [drop EXCEPT ![th] = Held(queue[c])]
  /\ closed' = [closed EXCEPT ![c] = FALSE]
  /\ stale' = [stale EXCEPT ![c] = Uncommitted(c)]
  /\ UNCHANGED <<main, owned, phase, holds, local, kept, staged, setting, fateVars, sends>>

RestartSets(th, c, new) ==
  /\ Restarting(th, c) /\ Runs(th) /\ ~setting[c]
  /\ new \subseteq Reach(th) \cap Below(c)
  /\ owned' = [owned EXCEPT ![c] = new]
  /\ drop' = [drop EXCEPT ![th] = owned[c]]
  /\ setting' = [setting EXCEPT ![c] = TRUE]
  /\ UNCHANGED <<main, queue, workerVars, lock, fateVars, closed, counters>>

RestartReturns(th, c) ==
  /\ Restarting(th, c) /\ Runs(th) /\ setting[c]
  /\ lock' = [lock EXCEPT ![c] = "free"]
  /\ setting' = [setting EXCEPT ![c] = FALSE]
  /\ UNCHANGED <<main, owned, queue, workerVars, drop, fateVars, closed, counters>>

-----------------------------------------------------------------------------
(* The worker of e, up to the end of its callback.                         *)

Idle(e) == phase[e] = "check" /\ Runs(e) /\ lock[e] = "free"

\* mutant: leave only when the queue is drained.
ExitWhenDrained(e) ==
  /\ Idle(e) /\ life[e] = "joining" /\ queue[e] = <<>>
  /\ phase' = [phase EXCEPT ![e] = "exited"]
  /\ UNCHANGED <<main, owned, queue, itemVars, stale, drop, mutexVars, fateVars, closed, counters>>

Exit(e) ==
  /\ Idle(e) /\ life[e] = "joining"
  /\ phase' = [phase EXCEPT ![e] = "exited"]
  /\ UNCHANGED <<main, owned, queue, itemVars, stale, drop, mutexVars, fateVars, closed, counters>>

\* mutant: the worker keeps its own entity alive while it runs an item.
BeginHoldingSelf(e) ==
  /\ Idle(e) /\ life[e] = "live" /\ queue[e] # <<>>
  /\ holds' = [holds EXCEPT ![e] = Head(queue[e]) \cup {e}]
  /\ queue' = [queue EXCEPT ![e] = Tail(@)]
  /\ phase' = [phase EXCEPT ![e] = IF e \in Cells THEN "dequeued" ELSE "callback"]
  /\ UNCHANGED <<main, owned, local, kept, staged, call, stale, drop, mutexVars, fateVars, closed, counters>>

Begin(e) ==
  /\ Idle(e) /\ life[e] = "live" /\ queue[e] # <<>>
  /\ holds' = [holds EXCEPT ![e] = Head(queue[e])]
  /\ queue' = [queue EXCEPT ![e] = Tail(@)]
  /\ phase' = [phase EXCEPT ![e] = IF e \in Cells THEN "dequeued" ELSE "callback"]
  /\ UNCHANGED <<main, owned, local, kept, staged, call, stale, drop, mutexVars, fateVars, closed, counters>>

\* A Cell's callback is given a copy of the state, read under the Ref's mutex.
ReadState(e) ==
  /\ phase[e] = "dequeued" /\ ~setting[e]
  /\ local' = [local EXCEPT ![e] = owned[e]]
  /\ phase' = [phase EXCEPT ![e] = "callback"]
  /\ UNCHANGED <<main, owned, queue, holds, kept, staged, call, stale, drop, mutexVars, fateVars, closed, counters>>

\* A callback sends to an entity it can reach, with what it can reach.
Stage(e, target, held) ==
  /\ InCallback(e) /\ sends < MaxSends
  /\ target \in Reach(e) /\ held \subseteq Reach(e) \cap Below(target)
  /\ staged' = [staged EXCEPT ![e] = Append(@, [to |-> target, held |-> held])]
  /\ sends' = sends + 1
  /\ UNCHANGED <<main, owned, queue, phase, holds, local, kept, call, stale, drop, mutexVars, fateVars, closed, calls>>

\* A callback asks an entity for its state or status, or restarts it: it waits
\* for the mutex, whoever holds it.
Call(e, c) ==
  /\ InCallback(e) /\ calls < MaxCalls
  /\ c \in Reach(e)
  /\ call' = [call EXCEPT ![e] = c]
  /\ calls' = calls + 1
  /\ UNCHANGED <<main, owned, queue, phase, holds, local, kept, staged, stale, drop, mutexVars, fateVars, closed, sends>>

\* What another entity hands out: a Cell its state, unless it failed.
Answer(c) == IF c \in Cells /\ ~closed[c] THEN owned[c] ELSE {}

Answered(e) ==
  /\ call[e] \in Entities /\ lock[call[e]] = "free"
  /\ local' = [local EXCEPT ![e] = @ \cup Answer(call[e])]
  /\ call' = [call EXCEPT ![e] = "nobody"]
  /\ UNCHANGED <<main, owned, queue, phase, holds, kept, staged, stale, drop, mutexVars, fateVars, closed, counters>>

\* The callback returns a value; what else it held is released.  For a Cell it
\* is to become the state.  A Process takes its own mutex, which nobody else
\* holds across a release, and goes on to its staged sends.
Return(e, new) ==
  /\ InCallback(e)
  /\ new \subseteq Reach(e) \cap Below(e)
  /\ kept' = [kept EXCEPT ![e] = new]
  /\ drop' = [drop EXCEPT ![e] = local[e]]
  /\ local' = [local EXCEPT ![e] = {}]
  /\ phase' = [phase EXCEPT ![e] = IF e \in Cells THEN "returned" ELSE "dispatch"]
  /\ UNCHANGED <<main, owned, queue, holds, staged, call, stale, mutexVars, fateVars, closed, counters>>

\* It throws, or returns nothing.
Throw(e) ==
  /\ InCallback(e)
  /\ drop' = [drop EXCEPT ![e] = local[e]]
  /\ local' = [local EXCEPT ![e] = {}]
  /\ phase' = [phase EXCEPT ![e] = "failed"]
  /\ UNCHANGED <<main, owned, queue, holds, kept, staged, call, stale, mutexVars, fateVars, closed, counters>>

-----------------------------------------------------------------------------
(* The worker of e, from the commit on.                                    *)

\* A failed callback clears the queue while it holds the mutex.
Fail(e) ==
  /\ phase[e] = "failed" /\ Runs(e) /\ lock[e] = "free" /\ ~stale[e]
  /\ closed' = [closed EXCEPT ![e] = TRUE]
  /\ queue' = [queue EXCEPT ![e] = <<>>]
  /\ drop' = [drop EXCEPT ![e] = Held(queue[e])]
  /\ lock' = [lock EXCEPT ![e] = e]
  /\ phase' = [phase EXCEPT ![e] = "clearing"]
  /\ UNCHANGED <<main, owned, itemVars, stale, setting, fateVars, counters>>

\* The replacement becomes the state; the old one is released under both mutexes.
Commit(e) ==
  /\ phase[e] = "returned" /\ Runs(e) /\ lock[e] = "free" /\ ~stale[e]
  /\ owned' = [owned EXCEPT ![e] = kept[e]]
  /\ kept' = [kept EXCEPT ![e] = {}]
  /\ drop' = [drop EXCEPT ![e] = owned[e]]
  /\ lock' = [lock EXCEPT ![e] = e]
  /\ setting' = [setting EXCEPT ![e] = TRUE]
  /\ phase' = [phase EXCEPT ![e] = "committing"]
  /\ UNCHANGED <<main, queue, holds, local, staged, call, stale, fateVars, closed, counters>>

Committed(e) ==
  /\ phase[e] = "committing" /\ Runs(e)
  /\ lock' = [lock EXCEPT ![e] = "free"]
  /\ setting' = [setting EXCEPT ![e] = FALSE]
  /\ phase' = [phase EXCEPT ![e] = "dispatch"]
  /\ UNCHANGED <<main, owned, queue, itemVars, stale, drop, fateVars, closed, counters>>

\* A staged send runs: an open target's queue takes a copy of the captures;
\* the action keeps its own until the item ends.  (What a closed target does
\* to the sender is in R25.)
Dispatch(e) ==
  /\ phase[e] = "dispatch" /\ Runs(e) /\ staged[e] # <<>>
  /\ LET send == Head(staged[e]) IN
       /\ lock[send.to] = "free"
       /\ queue' = IF closed[send.to] THEN queue ELSE [queue EXCEPT ![send.to] = Append(@, send.held)]
       /\ holds' = [holds EXCEPT ![e] = @ \cup {send.to} \cup send.held]
  /\ staged' = [staged EXCEPT ![e] = Tail(@)]
  /\ UNCHANGED <<main, owned, phase, local, kept, call, stale, drop, mutexVars, fateVars, closed, counters>>

Finished(e) ==
  \/ phase[e] = "dispatch" /\ staged[e] = <<>>
  \/ phase[e] \in {"returned", "failed"} /\ stale[e]
  \/ phase[e] = "clearing"

HandlesOf(list) == UNION {{send.to} \cup send.held : send \in ToSet(list)}
StagedHandles(e) == HandlesOf(staged[e])

\* The item is retired, and its locals go out of scope on the worker.
EndItem(e) ==
  /\ Finished(e) /\ Runs(e)
  /\ lock[e] \in {"free", e}
  /\ lock' = [lock EXCEPT ![e] = "free"]
  /\ phase' = [phase EXCEPT ![e] = "check"]
  /\ drop' = [drop EXCEPT ![e] = holds[e] \cup kept[e] \cup StagedHandles(e)]
  /\ holds' = [holds EXCEPT ![e] = {}]
  /\ kept' = [kept EXCEPT ![e] = {}]
  /\ staged' = [staged EXCEPT ![e] = <<>>]
  /\ stale' = [stale EXCEPT ![e] = FALSE]
  /\ UNCHANGED <<main, owned, queue, local, call, setting, fateVars, closed, counters>>

-----------------------------------------------------------------------------
(* Releasing handles, on whatever thread.                                  *)

\* What an entity, its queue and its worker hold.
Handles(e) == owned[e] \cup Held(queue[e]) \cup holds[e] \cup local[e] \cup kept[e] \cup StagedHandles(e)

\* mutant: a queued closure keeps a plain pointer.
HeldButInQueues(th, x) ==
  \/ x \in main
  \/ \E e \in Entities : x \in owned[e] \cup holds[e] \cup local[e] \cup kept[e] \cup StagedHandles(e)
  \/ \E other \in Threads \ {th} : x \in drop[other]

\* A handle of x exists besides the one th is releasing.
HeldElsewhere(th, x) ==
  \/ x \in main
  \/ \E e \in Entities : x \in Handles(e)
  \/ \E other \in Threads \ {th} : x \in drop[other]

Release(th, x) ==
  /\ Joining(th) = {} /\ x \in drop[th]
  /\ HeldElsewhere(th, x)
  /\ drop' = [drop EXCEPT ![th] = @ \ {x}]
  /\ UNCHANGED <<main, owned, queue, workerVars, mutexVars, fateVars, closed, counters>>

\* The last handle: the destructor requests termination and joins.  A thread
\* that joins itself ends the program (std::system_error out of a destructor).
Destroy(th, x) ==
  /\ Joining(th) = {} /\ x \in drop[th]
  /\ ~HeldElsewhere(th, x)
  /\ lock[x] = "free"
  /\ drop' = [drop EXCEPT ![th] = @ \ {x}]
  /\ life' = [life EXCEPT ![x] = "joining"]
  /\ by' = [by EXCEPT ![x] = th]
  /\ crashed' = (th = x)
  /\ UNCHANGED <<main, owned, queue, workerVars, mutexVars, closed, counters>>

\* The members go: what the queue and the state or handler hold is released.
Demolish(x) ==
  /\ life' = [life EXCEPT ![x] = "gone"]
  /\ drop' = [drop EXCEPT ![by[x]] = @ \cup Held(queue[x]) \cup owned[x]]
  /\ queue' = [queue EXCEPT ![x] = <<>>]
  /\ owned' = [owned EXCEPT ![x] = {}]
  /\ by' = [by EXCEPT ![x] = "nobody"]
  /\ closed' = [closed EXCEPT ![x] = FALSE]
  /\ UNCHANGED <<main, workerVars, mutexVars, crashed, counters>>

\* The join returned.
Finish(x) == life[x] = "joining" /\ phase[x] = "exited" /\ Demolish(x)

-----------------------------------------------------------------------------

Worker(e) ==
  \/ Exit(e) \/ Begin(e) \/ ReadState(e) \/ Answered(e) \/ Throw(e) \/ (\E new \in Captures : Return(e, new))
  \/ Fail(e) \/ Commit(e) \/ Committed(e) \/ Dispatch(e) \/ EndItem(e)

RestartGoesOn(th, c) == RestartReturns(th, c) \/ \E new \in Captures : RestartSets(th, c, new)

Next ==
  /\ ~crashed
  /\ \/ \E e \in Entities : Get(e) \/ LetGo(e) \/ Worker(e) \/ Finish(e)
     \/ \E e, c \in Entities : Call(e, c)
     \/ \E th \in Threads, c \in Entities : Restart(th, c) \/ RestartGoesOn(th, c)
     \/ \E e \in Entities, held \in Captures : Send(e, held)
     \/ \E e, target \in Entities, held \in Captures : Stage(e, target, held)
     \/ \E th \in Threads, x \in Entities : Release(th, x) \/ Destroy(th, x)

Spec == Init /\ [][Next]_vars

(***************************************************************************)
(* Fairness: every thread that can run does, and callbacks return.  The    *)
(* main thread need not send, restart, read or let go of anything, nor a   *)
(* callback stage or call.                                                 *)
(***************************************************************************)
Fairness ==
  /\ \A e \in Entities : WF_vars(~crashed /\ Worker(e)) /\ WF_vars(~crashed /\ Finish(e))
  /\ \A th \in Threads, c \in Entities : WF_vars(~crashed /\ RestartGoesOn(th, c))
  /\ \A th \in Threads : WF_vars(~crashed /\ \E x \in Entities : Release(th, x) \/ Destroy(th, x))

FairSpec == Spec /\ Fairness

\* The documented discipline: "ownership cycles must be avoided"
\* (src/cell.hpp:41).  Work given to an entity captures only what comes
\* after it in some order.
Acyclic ==
  /\ \A e \in Entities : <<e, e>> \notin MayHold
  /\ \A e, x, y \in Entities : <<e, x>> \in MayHold /\ <<x, y>> \in MayHold => <<e, y>> \in MayHold

-----------------------------------------------------------------------------
(* Safety.                                                                 *)

\* Types, and that destruction is complete: of an entity that is gone the
\* worker has exited, and nothing is queued, running or held by it.
LifetimeTypeOK ==
  /\ main \in Captures
  /\ owned \in [Entities -> Captures]
  /\ queue \in [Entities -> Seq(Captures)]
  /\ phase \in [Entities -> Phases]
  /\ holds \in [Entities -> Captures]
  /\ local \in [Entities -> Captures]
  /\ kept \in [Entities -> Captures]
  /\ staged \in [Entities -> Seq(StagedSends)]
  /\ call \in [Entities -> Entities \cup {"nobody"}]
  /\ drop \in [Threads -> Captures]
  /\ lock \in [Entities -> Threads \cup {"free"}]
  /\ setting \in [Entities -> BOOLEAN]
  /\ life \in [Entities -> {"live", "joining", "gone"}]
  /\ by \in [Entities -> Threads \cup {"nobody"}]
  /\ closed \in [Entities -> BOOLEAN]
  /\ stale \in [Entities -> BOOLEAN]
  /\ crashed \in BOOLEAN
  /\ \A e \in Entities : life[e] = "gone" =>
       /\ phase[e] = "exited" /\ queue[e] = <<>> /\ staged[e] = <<>>
       /\ owned[e] = {} /\ holds[e] = {} /\ local[e] = {} /\ kept[e] = {}

\* No handle dangles: whatever is held, kept in a state, captured by work that
\* is queued, running or staged, or still to be released, is an entity whose
\* destructor has not started, however destructors nest.
IsHeld(x) ==
  \/ x \in main
  \/ \E e \in Entities : x \in Handles(e)
  \/ \E th \in Threads : x \in drop[th]
HeldAlive == \A x \in Entities : IsHeld(x) => life[x] = "live"

\* Under the discipline joins only go down the order, so they cannot close a
\* circle: a worker joins only entities below its own, and a thread that
\* releases a queue or a state under an entity's mutex, be it at a failure, a
\* commit or a restart, joins only entities below that one.
JoinsDescend ==
  \A x \in Entities :
    /\ life[x] = "joining" => by[x] = "main" \/ (by[x] \in Entities /\ x \in Below(by[x]))
    /\ \A e \in Entities : lock[e] # "free" /\ x \in Joining(lock[e]) => x \in Below(e)

\* Handles are "lifetime-safe through shared ownership"
\* (docs/r25-e25-3-process-audit.md:22-23), and no exception reaches the
\* process boundary (src/main.cpp:21-23): no program ends itself by releasing
\* handles.
NoSelfJoin == ~crashed

-----------------------------------------------------------------------------
(* Liveness.                                                               *)

\* Once the main thread has let go of everything, every entity is destroyed:
\* no destructor blocks for ever, not even one that runs under the mutexes of
\* a Cell whose state or queue is being replaced while callbacks call it, and
\* nothing that is captured or kept keeps an entity alive.
Reclaimed == (main = {}) ~> (\A e \in Entities : life[e] = "gone")
=============================================================================
