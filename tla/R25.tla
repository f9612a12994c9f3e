-------------------------------- MODULE R25 --------------------------------
(***************************************************************************)
(* The R25 stateful runtime: Cells and Processes that send to one another, *)
(* the threads that send to them from outside, stop and restart cells, and *)
(* wait for idleness, and the destruction of entities nobody owns.         *)
(*                                                                         *)
(* Sends are those the evaluator builds (src/evaluator.hpp, cell_send and  *)
(* send): inside a callback a send is staged, elsewhere it runs at once.   *)
(* A staged send to a failed process throws out of the worker thread,      *)
(* which ends the program.                                                 *)
(***************************************************************************)
EXTENDS Cell, Process, FiniteSets

CONSTANTS
  MaxRoots,     \* sends from outside any callback, in all
  MaxStaged,    \* sends one callback stages
  MaxDepth,     \* length of a chain of sends, each made by the work of the last
  MaxRestarts   \* restarts of one cell

ASSUME BoundsAssumption ==
  MaxRoots \in Nat /\ MaxStaged \in Nat /\ MaxDepth \in Nat /\ MaxRestarts \in Nat

VARIABLES
  roots,        \* how many of MaxRoots were sent
  terminated,   \* std::terminate was called: every thread is gone
  rolledBack    \* history: the items whose transaction was discarded

boundVars == <<roots, terminated, rolledBack>>
vars == <<quiescenceVars, mailboxVars, cellVars, processVars, boundVars>>

Init ==
  /\ QuiescenceInit
  /\ MailboxInit
  /\ CellInit
  /\ ProcessInit
  /\ roots = 0
  /\ terminated = FALSE
  /\ rolledBack = {}

-----------------------------------------------------------------------------
(* Threads outside any callback.                                           *)

\* An accepted cell_send or send.  A refused one changes nothing.
RootSend(e) ==
  /\ roots < MaxRoots
  /\ ~terminate[e]
  /\ \/ e \in Cells /\ CellAdmit(e, FromClient) /\ UNCHANGED processVars
     \/ e \in Processes /\ ProcessAdmit(e, FromClient) /\ UNCHANGED cellVars
  /\ roots' = roots + 1
  /\ UNCHANGED <<awaiting, asleep, completed, current, staged, terminate>>
  /\ UNCHANGED <<terminated, rolledBack>>

StopCell(c) == Stop(c) /\ UNCHANGED <<processVars, boundVars>>

RestartCell(c) ==
  /\ generation[c] < MaxRestarts
  /\ Restart(c)
  /\ UNCHANGED <<processVars, boundVars>>

\* mutant: the barrier looks at the cells only, one by one.
IdleForCells(on) ==
  IF on = "all" THEN \A c \in Cells : accepted[c] = completed[c] ELSE accepted[on] = completed[on]

\* The predicate of await_all_idle() or of an entity's await_idle().
IdleFor(on) == IF on = "all" THEN pending = 0 ELSE accepted[on] = completed[on]

\* The predicate is false: block.  (When it is true the call returns at once.)
BeginAwait(t, on) ==
  /\ awaiting[t] = "none"
  /\ on \in Entities => ~terminate[on]
  /\ ~IdleFor(on)
  /\ awaiting' = [awaiting EXCEPT ![t] = on]
  /\ asleep' = asleep \cup {t}
  /\ UNCHANGED <<pending, mailboxVars, cellVars, processVars, boundVars>>

\* mutant: a notified waiter returns.
RecheckNothing(t) ==
  /\ awaiting[t] # "none"
  /\ t \notin asleep
  /\ awaiting' = [awaiting EXCEPT ![t] = "none"]
  /\ UNCHANGED <<pending, asleep, mailboxVars, cellVars, processVars, boundVars>>

\* A notified waiter rechecks: it returns, or blocks again.
Recheck(t) ==
  /\ awaiting[t] # "none"
  /\ t \notin asleep
  /\ \/ /\ IdleFor(awaiting[t])
        /\ awaiting' = [awaiting EXCEPT ![t] = "none"]
        /\ UNCHANGED asleep
     \/ /\ ~IdleFor(awaiting[t])
        /\ asleep' = asleep \cup {t}
        /\ UNCHANGED awaiting
  /\ UNCHANGED <<pending, mailboxVars, cellVars, processVars, boundVars>>

-----------------------------------------------------------------------------
(* Callbacks and the sends they stage.                                     *)

Stage(e, target) ==
  /\ Len(staged[e]) < MaxStaged
  /\ current[e].from.depth < MaxDepth
  /\ StageSend(e, target)
  /\ UNCHANGED <<cellVars, processVars, boundVars>>

Dispatching(e) == phase[e] = "dispatch" /\ staged[e] # <<>>

\* A committed send reaches a target that accepts it.
Deliver(send) ==
  \/ send.to \in Cells /\ CellAdmit(send.to, send.from) /\ UNCHANGED processVars
  \/ send.to \in Processes /\ ProcessAdmit(send.to, send.from) /\ UNCHANGED cellVars

\* mutant: the last staged send goes first.
DispatchLastFirst(e) ==
  /\ Dispatching(e)
  /\ Deliver(staged[e][Len(staged[e])])
  /\ staged' = [staged EXCEPT ![e] = SubSeq(@, 1, Len(@) - 1)]
  /\ UNCHANGED <<awaiting, asleep, completed, current, terminate, boundVars>>

DispatchAdmitted(e) ==
  /\ Dispatching(e)
  /\ Deliver(Head(staged[e]))
  /\ staged' = [staged EXCEPT ![e] = Tail(@)]
  /\ UNCHANGED <<awaiting, asleep, completed, current, terminate, boundVars>>

\* The target cell is stopped or failed: send returns false, which the
\* action ignores.
DispatchRefused(e) ==
  /\ Dispatching(e)
  /\ LET target == Head(staged[e]).to IN target \in Cells /\ status[target] # "ready"
  /\ staged' = [staged EXCEPT ![e] = Tail(@)]
  /\ UNCHANGED <<quiescenceVars, queue, accepted, completed, phase, current, terminate>>
  /\ UNCHANGED <<cellVars, processVars, boundVars>>

\* The target process has failed: the action throws on the worker thread.
DispatchThrows(e) ==
  /\ Dispatching(e)
  /\ LET target == Head(staged[e]).to IN target \in Processes /\ failed[target]
  /\ terminated' = TRUE
  /\ UNCHANGED <<quiescenceVars, mailboxVars, cellVars, processVars, roots, rolledBack>>

-----------------------------------------------------------------------------
(* The workers.                                                            *)

CellWorker(c) ==
  /\ \/ (CellSleep(c) \/ CellExit(c) \/ CellDequeue(c) \/ ReadState(c)) /\ UNCHANGED rolledBack
     \/ CommitUpdate(c) /\ UNCHANGED rolledBack
     \/ (DiscardStale(c) \/ FailUpdate(c)) /\ rolledBack' = rolledBack \cup {<<c, current[c].id>>}
  /\ UNCHANGED <<processVars, roots, terminated>>

ProcessWorker(p) ==
  /\ \/ (ProcessSleep(p) \/ ProcessExit(p) \/ ProcessDequeue(p) \/ CommitHandler(p)) /\ UNCHANGED rolledBack
     \/ FailHandler(p) /\ rolledBack' = rolledBack \cup {<<p, current[p].id>>}
  /\ UNCHANGED <<cellVars, roots, terminated>>

Dispatch(e) == DispatchAdmitted(e) \/ DispatchRefused(e) \/ DispatchThrows(e)

RetireItem(e) == Retire(e) /\ UNCHANGED <<cellVars, processVars, boundVars>>

DestroyEntity(e) == Terminate(e) /\ UNCHANGED <<cellVars, processVars, boundVars>>
JoinWorker(e) == Join(e) /\ UNCHANGED <<cellVars, processVars, boundVars>>

Next ==
  /\ ~terminated
  /\ \/ \E e \in Entities : RootSend(e) \/ DestroyEntity(e) \/ JoinWorker(e)
     \/ \E c \in Cells : StopCell(c) \/ RestartCell(c) \/ CellWorker(c)
     \/ \E p \in Processes : ProcessWorker(p)
     \/ \E e, target \in Entities : Stage(e, target)
     \/ \E e \in Entities : Dispatch(e) \/ RetireItem(e)
     \/ \E t \in Clients : Recheck(t) \/ \E on \in Entities \cup {"all"} : BeginAwait(t, on)

Spec == Init /\ [][Next]_vars

(***************************************************************************)
(* Fairness: the operating system runs every runnable thread, callbacks    *)
(* terminate, and a destructor that started finishes.  Nothing is assumed  *)
(* about what callbacks do or about the threads that send.                 *)
(***************************************************************************)
Fairness ==
  /\ \A c \in Cells : WF_vars(~terminated /\ CellWorker(c))
  /\ \A p \in Processes : WF_vars(~terminated /\ ProcessWorker(p))
  /\ \A e \in Entities : WF_vars(~terminated /\ (Dispatch(e) \/ RetireItem(e) \/ JoinWorker(e)))
  /\ \A t \in Clients : WF_vars(~terminated /\ Recheck(t))

FairSpec == Spec /\ Fairness

-----------------------------------------------------------------------------
(* Safety.                                                                 *)

\* Every variable keeps its type; pending, a size_t, never wraps below zero.
TypeOK ==
  /\ pending \in Nat
  /\ awaiting \in [Clients -> Entities \cup {"all", "none"}]
  /\ asleep \in SUBSET Clients
  /\ queue \in [Entities -> Seq(Items)]
  /\ accepted \in [Entities -> Nat]
  /\ completed \in [Entities -> Nat]
  /\ phase \in [Entities -> Phases]
  /\ current \in [Entities -> Items]
  /\ staged \in [Entities -> Seq(Sends)]
  /\ terminate \in [Entities -> BOOLEAN]
  /\ status \in [Cells -> Statuses]
  /\ error \in [Cells -> BOOLEAN]
  /\ generation \in [Cells -> Nat]
  /\ state \in [Cells -> Values]
  /\ input \in [Cells -> Values]
  /\ failed \in [Processes -> BOOLEAN]
  /\ reason \in [Processes -> BOOLEAN]
  /\ roots \in Nat
  /\ terminated \in BOOLEAN
  /\ rolledBack \in SUBSET (Entities \X Nat)

\* An entity's counters differ by exactly what it holds: its queue and the
\* item its worker is on.  await_idle() rests on this.
InFlight(e) == IF Busy(e) THEN 1 ELSE 0
LocalAccounting == \A e \in Entities : accepted[e] - completed[e] = Len(queue[e]) + InFlight(e)

\* The shared counter is the number of items outstanding, over all Cells and
\* Processes, whatever failed, restarted or was destroyed.
Outstanding(e) ==
  {<<e, queue[e][i].id>> : i \in DOMAIN queue[e]} \cup (IF Busy(e) THEN {<<e, current[e].id>>} ELSE {})
AllOutstanding == UNION {Outstanding(e) : e \in Entities}
SharedAccounting == pending = Cardinality(AllOutstanding)

\* When the barrier opens there is no work anywhere: nothing queued, no
\* callback running, no committed send still to be dispatched.
Quiet(e) == queue[e] = <<>> /\ ~Busy(e) /\ staged[e] = <<>>
CausalBarrier == pending = 0 => \A e \in Entities : Quiet(e)

\* Work is consumed in admission order: behind the running item the queue
\* holds exactly the next numbers, up to the last one given out.
FifoWork ==
  \A e \in Entities :
    /\ \A i \in DOMAIN queue[e] : queue[e][i].id = accepted[e] - Len(queue[e]) + i
    /\ Busy(e) => current[e].id <= accepted[e] - Len(queue[e])

\* Nothing from before a restart is part of the state after it, and an
\* update of the current generation runs on the state it will replace.
CurrentGen(c) == Busy(c) /\ current[c].gen = generation[c]
GenerationIsolation ==
  \A c \in Cells :
    /\ state[c].gen = generation[c]
    /\ \A i \in DOMAIN state[c].log : state[c].log[i].gen = generation[c]
    /\ phase[c] = "callback" /\ CurrentGen(c) => input[c] = state[c]

\* An open cell loses no accepted update: since the last restart the updates
\* applied, the one running and those queued are consecutive admissions, up to
\* the last one accepted.
Ahead(c) ==
  (IF phase[c] \in {"read", "callback"} /\ CurrentGen(c) THEN <<current[c]>> ELSE <<>>) \o queue[c]
NoUpdateLost ==
  \A c \in Cells : status[c] # "failed" /\ phase[c] # "exited" =>
    LET all == state[c].log \o Ahead(c) IN
      \A i \in DOMAIN all : all[i].id = accepted[c] - Len(all) + i

\* The sends of a callback that failed or went stale are never accepted by
\* anybody, at any depth of nesting.
Sent(e) == {queue[e][i] : i \in DOMAIN queue[e]} \cup {current[e]}
RollbackIsComplete ==
  \A e \in Entities : \A item \in Sent(e) : <<item.from.by, item.from.parent>> \notin rolledBack

\* Sends staged by one callback to the same target are accepted in program
\* order.
ProgramOrder ==
  \A e \in Entities : \A a, b \in Sent(e) :
    /\ a.from.by = b.from.by
    /\ a.from.by # "client"
    /\ a.from.parent = b.from.parent
    /\ a.from.pos < b.from.pos
    => a.id < b.id

\* The cached error text is present exactly while an entity is failed, and a
\* failed entity has nothing left to run in the failed generation.
FailureClosed ==
  /\ \A c \in Cells : (status[c] = "failed") = error[c]
  /\ \A c \in Cells : status[c] = "failed" => queue[c] = <<>> /\ ~CurrentGen(c)
  /\ \A p \in Processes : failed[p] = reason[p]
  /\ \A p \in Processes : failed[p] => queue[p] = <<>> /\ ~Busy(p)

\* A send to a failed process is rejected, and that is all that happens: "it
\* rejects later sends" (docs/r25-e25-3-process-audit.md:20-21).  The direct
\* send does; a staged one ends the program.
SendToFailedRejected == ~terminated

-----------------------------------------------------------------------------
(* Action properties.                                                      *)

\* A cell's value changes only by the update its worker is running, applied
\* to the value it replaces, or by a restart: a failed or stale update leaves
\* the last good value, and no update overwrites another.
ValueSteps ==
  [][\A c \in Cells : state'[c] # state[c] =>
       \/ /\ generation'[c] = generation[c]
          /\ status'[c] # "failed"
          /\ state'[c].log = Append(state[c].log, current[c])
       \/ generation'[c] = generation[c] + 1 /\ state'[c].log = <<>>]_vars

\* A wait returns only at a moment when what it waits for is settled.
WaitReturnsQuiet ==
  [][\A t \in Clients : awaiting[t] # "none" /\ awaiting'[t] = "none" =>
       \A e \in Entities : awaiting[t] \in {"all", e} => Quiet(e)]_vars

-----------------------------------------------------------------------------
(* The shared counter and its barrier implement CausalWork.                *)

Causal == INSTANCE CausalWork WITH
  Threads <- Clients,
  opened <- UNION {{e} \X (1 .. accepted[e]) : e \in Entities},
  open <- AllOutstanding,
  waiting <- {t \in Clients : awaiting[t] = "all"}

\* Every step opens, closes or awaits work as the barrier's contract allows.
ImplementsCausalWork == Causal!WorkSpec

\* Zero is a causal fixed point: when the roots are in and nothing is pending,
\* nothing will ever be pending again.
QuietIsFinal == [][pending = 0 /\ roots = MaxRoots => pending' = 0]_vars

-----------------------------------------------------------------------------
(* Liveness.                                                               *)

\* Every wait returns, unless the program is ended first: no notification
\* is lost and no accepted item stays outstanding for ever.
WaitReturns == \A t \in Clients : (awaiting[t] # "none") ~> (awaiting[t] = "none" \/ terminated)

\* Work a cell accepted before it was stopped is still consumed.
StopDrains == \A c \in Cells : (status[c] = "stopped" /\ queue[c] # <<>>) ~> (queue[c] = <<>> \/ terminated)
=============================================================================
