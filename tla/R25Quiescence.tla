--------------------------- MODULE R25Quiescence ---------------------------
(***************************************************************************)
(* The causal work counter shared by every Cell and every Process          *)
(* (src/r25_quiescence.hpp), and the threads that block until it is zero.  *)
(*                                                                         *)
(* pending counts accepted items until their callback, their committed     *)
(* dispatch or their discard has finished.  A thread may wait for the      *)
(* counter (await_all_idle) or for one entity (await_idle); both are       *)
(* condition variables, so a waiter is asleep until somebody notifies it,  *)
(* and rechecks its predicate when it is awake.                            *)
(***************************************************************************)
EXTENDS Integers

CONSTANTS
  Cells,       \* the Cell objects of a run
  Processes,   \* the Process objects of a run
  Clients      \* the threads that wait for idleness

Entities == Cells \cup Processes

ASSUME EntitiesAssumption ==
  /\ Cells \cap Processes = {}
  /\ {"all", "none"} \cap Entities = {}

VARIABLES
  pending,     \* pending_: items accepted and not yet retired, over all entities
  awaiting,    \* what each client waits for: "none", "all", or an entity
  asleep       \* the clients blocked inside idle_.wait

quiescenceVars == <<pending, awaiting, asleep>>

QuiescenceInit ==
  /\ pending = 0
  /\ awaiting = [t \in Clients |-> "none"]
  /\ asleep = {}

\* accept(): under the mutex of the admitting entity, before its worker can
\* see the item.
Accept == pending' = pending + 1

\* complete(count)
Complete(count) == pending' = pending - count

\* The waiters complete() notifies: those of await_idle(), when nothing is
\* pending any more.
BarrierWaiters == IF pending' = 0 THEN {t \in asleep : awaiting[t] = "all"} ELSE {}
=============================================================================
