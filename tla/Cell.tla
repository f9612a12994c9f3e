-------------------------------- MODULE Cell --------------------------------
(***************************************************************************)
(* Cell (src/cell.hpp): an asynchronous cell over a Ref of its own.  One   *)
(* worker applies accepted updates in order; a failed update closes the    *)
(* cell; restart installs new state, discards the queue and makes whatever *)
(* is still running stale; sends made by an update leave only when its     *)
(* replacement is committed.                                               *)
(*                                                                         *)
(* An update is a user callback, so whether it returns a replacement,      *)
(* returns nothing or throws, and what it sends, is nondeterministic.  The *)
(* value of a cell is the generation that installed it and the updates     *)
(* applied since, which is all the properties need to tell values apart.   *)
(***************************************************************************)
EXTENDS Mailbox

VARIABLES
  status,      \* status_
  error,       \* error_.has_value()
  generation,  \* generation_
  state,       \* the value in the backing Ref
  input        \* the value the running update was given

cellVars == <<status, error, generation, state, input>>

Values == [gen : Nat, log : Seq(Items)]
Fresh(gen) == [gen |-> gen, log |-> <<>>]
Statuses == {"ready", "stopped", "failed"}

CellInit ==
  /\ status = [c \in Cells |-> "ready"]
  /\ error = [c \in Cells |-> FALSE]
  /\ generation = [c \in Cells |-> 0]
  /\ state = [c \in Cells |-> Fresh(0)]
  /\ input = [c \in Cells |-> Fresh(0)]

\* send, when it returns true.
CellAdmit(c, from) ==
  /\ status[c] = "ready"
  /\ Admit(c, generation[c], from)
  /\ phase' = Notified(c)
  /\ UNCHANGED cellVars

\* mutant: stop also discards the queue.
StopAndDiscard(c) ==
  /\ ~terminate[c]
  /\ status[c] = "ready"
  /\ status' = [status EXCEPT ![c] = "stopped"]
  /\ Settle(c, Len(queue[c]))
  /\ queue' = [queue EXCEPT ![c] = <<>>]
  /\ phase' = Notified(c)
  /\ UNCHANGED <<awaiting, accepted, current, staged, terminate>>
  /\ UNCHANGED <<error, generation, state, input>>

\* stop: no effect unless ready, and the notification is harmless.
Stop(c) ==
  /\ ~terminate[c]
  /\ status[c] = "ready"
  /\ status' = [status EXCEPT ![c] = "stopped"]
  /\ phase' = Notified(c)
  /\ UNCHANGED <<quiescenceVars, queue, accepted, completed, current, staged, terminate>>
  /\ UNCHANGED <<error, generation, state, input>>

\* What restart installs.
Reopen(c) ==
  /\ queue' = [queue EXCEPT ![c] = <<>>]
  /\ state' = [state EXCEPT ![c] = Fresh(generation[c] + 1)]
  /\ status' = [status EXCEPT ![c] = "ready"]
  /\ phase' = Notified(c)
  /\ UNCHANGED <<awaiting, accepted, current, staged, terminate, input>>

\* mutant: the item the worker is on is retired too.
RestartRetiresRunning(c) ==
  /\ ~terminate[c]
  /\ generation' = [generation EXCEPT ![c] = @ + 1]
  /\ Settle(c, Len(queue[c]) + (IF Busy(c) THEN 1 ELSE 0))
  /\ error' = [error EXCEPT ![c] = FALSE]
  /\ Reopen(c)

\* mutant: the cached error stays.
RestartKeepsError(c) ==
  /\ ~terminate[c]
  /\ generation' = [generation EXCEPT ![c] = @ + 1]
  /\ Settle(c, Len(queue[c]))
  /\ UNCHANGED error
  /\ Reopen(c)

\* restart: what is queued is retired, what is running becomes stale.
Restart(c) ==
  /\ ~terminate[c]
  /\ generation' = [generation EXCEPT ![c] = @ + 1]
  /\ Settle(c, Len(queue[c]))
  /\ error' = [error EXCEPT ![c] = FALSE]
  /\ Reopen(c)

-----------------------------------------------------------------------------
(* run(): the worker of cell c.                                            *)

CellSleep(c) == Sleep(c) /\ UNCHANGED cellVars
CellExit(c) == Exit(c) /\ UNCHANGED cellVars
CellDequeue(c) == Dequeue(c, "read") /\ UNCHANGED cellVars

\* state_->get(), outside the cell's mutex.
ReadState(c) ==
  /\ phase[c] = "read"
  /\ input' = [input EXCEPT ![c] = state[c]]
  /\ phase' = [phase EXCEPT ![c] = "callback"]
  /\ UNCHANGED <<quiescenceVars, queue, accepted, completed, current, staged, terminate>>
  /\ UNCHANGED <<status, error, generation, state>>

\* mutant: what was staged stays in the buffer.
EndKeepsStaged(c) ==
  /\ phase' = [phase EXCEPT ![c] = "check"]
  /\ current' = [current EXCEPT ![c] = NoItem]
  /\ UNCHANGED staged

\* The item and its transaction are dropped.
EndTransaction(c) ==
  /\ phase' = [phase EXCEPT ![c] = "check"]
  /\ current' = [current EXCEPT ![c] = NoItem]
  /\ staged' = [staged EXCEPT ![c] = <<>>]

\* The update belongs to an older generation: its result, whatever it is,
\* is discarded.
DiscardStale(c) ==
  /\ phase[c] = "callback"
  /\ current[c].gen # generation[c]
  /\ Settle(c, 1)
  /\ EndTransaction(c)
  /\ UNCHANGED <<awaiting, queue, accepted, terminate>>
  /\ UNCHANGED cellVars

\* The value with one more update applied to what the callback was given.
Replacement(c) == [gen |-> input[c].gen, log |-> Append(input[c].log, current[c])]

\* The cell fails and its queue goes; retired items are counted.
Fail(c, retired) ==
  /\ phase[c] = "callback"
  /\ current[c].gen = generation[c]
  /\ status' = [status EXCEPT ![c] = "failed"]
  /\ error' = [error EXCEPT ![c] = TRUE]
  /\ Settle(c, retired)
  /\ queue' = [queue EXCEPT ![c] = <<>>]
  /\ EndTransaction(c)
  /\ UNCHANGED <<awaiting, accepted, terminate>>
  /\ UNCHANGED <<generation, input>>

\* mutant: only the running item is counted.
FailCountsOne(c) == Fail(c, 1) /\ UNCHANGED state

\* mutant: the Ref is written before the outcome is examined.
FailOverwrites(c) ==
  Fail(c, 1 + Len(queue[c])) /\ state' = [state EXCEPT ![c] = Replacement(c)]

\* No replacement (nullopt or exception): the last good value stays.
FailUpdate(c) == Fail(c, 1 + Len(queue[c])) /\ UNCHANGED state

\* A replacement is stored; the item stays outstanding while it dispatches.
Store(c) ==
  /\ phase[c] = "callback"
  /\ state' = [state EXCEPT ![c] = Replacement(c)]
  /\ phase' = [phase EXCEPT ![c] = "dispatch"]
  /\ UNCHANGED <<awaiting, queue, accepted, current, staged, terminate>>
  /\ UNCHANGED <<status, error, generation, input>>

\* mutant: the item is retired before its sends are dispatched.
CommitEarly(c) == current[c].gen = generation[c] /\ Store(c) /\ Settle(c, 1)

\* mutant: the generation is not compared.
CommitStale(c) ==
  /\ Store(c)
  /\ asleep' = asleep \ {t \in asleep : awaiting[t] = c}
  /\ UNCHANGED <<pending, completed>>

CommitUpdate(c) ==
  /\ current[c].gen = generation[c]
  /\ Store(c)
  /\ asleep' = asleep \ {t \in asleep : awaiting[t] = c}
  /\ UNCHANGED <<pending, completed>>
=============================================================================
