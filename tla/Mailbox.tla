------------------------------ MODULE Mailbox ------------------------------
(***************************************************************************)
(* What Cell (src/cell.hpp) and Process (src/process.hpp) have in common:  *)
(* a mutex-protected FIFO of accepted items, two counters, a worker thread *)
(* that consumes one item at a time, the thread-local buffer of sends the  *)
(* running callback has staged, and termination by the destructor.         *)
(*                                                                         *)
(* Every section under the entity's mutex is one step: nothing in it       *)
(* blocks, and the counter's mutex is taken inside it and released at      *)
(* once.                                                                   *)
(***************************************************************************)
EXTENDS R25Quiescence, Sequences

VARIABLES
  queue,       \* queue_ / messages_: accepted items, oldest first
  accepted,    \* accepted_
  completed,   \* completed_
  phase,       \* where the worker thread is in run()
  current,     \* the item the worker popped, or NoItem
  staged,      \* g_cell_staged_sends of the worker, in program order
  terminate    \* terminate_

mailboxVars == <<queue, accepted, completed, phase, current, staged, terminate>>

\* A thread outside any callback is called "client".
ASSUME SendersAssumption == "client" \notin Entities

(***************************************************************************)
(* An item is numbered by its entity at admission.  gen is the generation  *)
(* a Cell stamps on it.  by, parent and pos say which transaction staged   *)
(* it (the worker, the item it was running and the position among its      *)
(* staged sends); an item sent by a plain thread has by = "client".        *)
(***************************************************************************)
Senders == Entities \cup {"client"}
Origins == [by : Senders, parent : Nat, pos : Nat, depth : Nat]
FromClient == [by |-> "client", parent |-> 0, pos |-> 0, depth |-> 0]
Items == [id : Nat, gen : Nat, from : Origins]
Sends == [to : Entities, from : Origins]
NoItem == [id |-> 0, gen |-> 0, from |-> FromClient]

Phases == {"check",     \* about to evaluate the predicate of condition_.wait
           "asleep",    \* blocked in condition_.wait
           "read",      \* item popped, state not read yet
           "callback",  \* inside the update or handler
           "dispatch",  \* result committed, running the staged sends
           "exited"}    \* run() has returned

Busy(e) == phase[e] \in {"read", "callback", "dispatch"}

MailboxInit ==
  /\ queue = [e \in Entities |-> <<>>]
  /\ accepted = [e \in Entities |-> 0]
  /\ completed = [e \in Entities |-> 0]
  /\ phase = [e \in Entities |-> "check"]
  /\ current = [e \in Entities |-> NoItem]
  /\ staged = [e \in Entities |-> <<>>]
  /\ terminate = [e \in Entities |-> FALSE]

\* mutant: condition_ is never notified.
NotifiedNobody(e) == phase

\* condition_.notify_all(): the worker rechecks its predicate.
Notified(e) == IF phase[e] = "asleep" THEN [phase EXCEPT ![e] = "check"] ELSE phase

\* The body of an accepting send.
Admit(e, gen, from) ==
  /\ queue' = [queue EXCEPT ![e] = Append(@, [id |-> accepted[e] + 1, gen |-> gen, from |-> from])]
  /\ accepted' = [accepted EXCEPT ![e] = @ + 1]
  /\ Accept

\* mutant: idle_ is never notified.
SettleSilently(e, count) ==
  /\ completed' = [completed EXCEPT ![e] = @ + count]
  /\ Complete(count)
  /\ UNCHANGED asleep

\* completed_ += count, complete(count) and idle_.notify_all().
Settle(e, count) ==
  /\ completed' = [completed EXCEPT ![e] = @ + count]
  /\ Complete(count)
  /\ asleep' = asleep \ ({t \in asleep : awaiting[t] = e} \cup BarrierWaiters)

-----------------------------------------------------------------------------
(* The worker's wait at the head of its loop.                              *)

\* Nothing to do: block.
Sleep(e) ==
  /\ phase[e] = "check"
  /\ ~terminate[e]
  /\ queue[e] = <<>>
  /\ phase' = [phase EXCEPT ![e] = "asleep"]
  /\ UNCHANGED <<quiescenceVars, queue, accepted, completed, current, staged, terminate>>

\* Termination was requested: leave run() even when work is queued.
Exit(e) ==
  /\ phase[e] = "check"
  /\ terminate[e]
  /\ phase' = [phase EXCEPT ![e] = "exited"]
  /\ UNCHANGED <<quiescenceVars, queue, accepted, completed, current, staged, terminate>>

\* mutant: pop the newest item.
DequeueNewest(e, next) ==
  /\ phase[e] = "check"
  /\ ~terminate[e]
  /\ queue[e] # <<>>
  /\ current' = [current EXCEPT ![e] = queue[e][Len(queue[e])]]
  /\ queue' = [queue EXCEPT ![e] = SubSeq(@, 1, Len(@) - 1)]
  /\ phase' = [phase EXCEPT ![e] = next]
  /\ UNCHANGED <<quiescenceVars, accepted, completed, staged, terminate>>

\* Pop the oldest item.
Dequeue(e, next) ==
  /\ phase[e] = "check"
  /\ ~terminate[e]
  /\ queue[e] # <<>>
  /\ current' = [current EXCEPT ![e] = Head(queue[e])]
  /\ queue' = [queue EXCEPT ![e] = Tail(@)]
  /\ phase' = [phase EXCEPT ![e] = next]
  /\ UNCHANGED <<quiescenceVars, accepted, completed, staged, terminate>>

Origin(e) == [by |-> e, parent |-> current[e].id, pos |-> Len(staged[e]) + 1,
              depth |-> current[e].from.depth + 1]

\* stage_cell_send: a send made inside a callback joins its transaction.
StageSend(e, target) ==
  /\ phase[e] = "callback"
  /\ ~terminate[target]
  /\ staged' = [staged EXCEPT ![e] = Append(@, [to |-> target, from |-> Origin(e)])]
  /\ UNCHANGED <<quiescenceVars, queue, accepted, completed, phase, current, terminate>>

\* The last staged send of a committed transaction has run: retire the item.
Retire(e) ==
  /\ phase[e] = "dispatch"
  /\ staged[e] = <<>>
  /\ Settle(e, 1)
  /\ phase' = [phase EXCEPT ![e] = "check"]
  /\ current' = [current EXCEPT ![e] = NoItem]
  /\ UNCHANGED <<awaiting, queue, accepted, staged, terminate>>

-----------------------------------------------------------------------------
(* Destruction: the last handle is gone, so no client waits on the entity  *)
(* and no staged send captures it.                                         *)

Unowned(e) ==
  /\ \A w \in Entities : \A i \in DOMAIN staged[w] : staged[w][i].to # e
  /\ \A t \in Clients : awaiting[t] # e

\* First half of the destructor: request termination.
Terminate(e) ==
  /\ ~terminate[e]
  /\ Unowned(e)
  /\ terminate' = [terminate EXCEPT ![e] = TRUE]
  /\ phase' = Notified(e)
  /\ UNCHANGED <<quiescenceVars, queue, accepted, completed, current, staged>>

\* mutant: the destructor retires nothing.
JoinOnly(e) ==
  /\ phase[e] = "exited"
  /\ queue[e] # <<>>
  /\ queue' = [queue EXCEPT ![e] = <<>>]
  /\ UNCHANGED <<quiescenceVars, accepted, completed, phase, current, staged, terminate>>

\* Second half: the worker is joined and what it left queued is retired.
Join(e) ==
  /\ phase[e] = "exited"
  /\ queue[e] # <<>>
  /\ queue' = [queue EXCEPT ![e] = <<>>]
  /\ completed' = [completed EXCEPT ![e] = @ + Len(queue[e])]
  /\ Complete(Len(queue[e]))
  /\ asleep' = asleep \ BarrierWaiters
  /\ UNCHANGED <<awaiting, accepted, phase, current, staged, terminate>>
=============================================================================
