-------------------------- MODULE TransactionProofs --------------------------
(***************************************************************************)
(* More theorems about R25, for every size and bound: what becomes of the  *)
(* value of a Cell through updates, failures and restarts, and of the      *)
(* sends a callback stages, in order when it commits and not at all when   *)
(* it does not.                                                            *)
(***************************************************************************)
EXTENDS R25Proofs

-----------------------------------------------------------------------------
(* What one step does to one cell.                                         *)

\* The worker's place is kept, or it moves around its wait.
Rests(c) ==
  \/ phase'[c] = phase[c]
  \/ phase[c] \in {"check", "asleep"} /\ phase'[c] \in {"check", "asleep", "exited"}

SameValue(c) == state'[c] = state[c] /\ input'[c] = input[c] /\ generation'[c] = generation[c]
SameWork(c) == queue'[c] = queue[c] /\ accepted'[c] = accepted[c]
SameStatus(c) == status'[c] = status[c] /\ error'[c] = error[c]

Untouched(c) == Rests(c) /\ SameValue(c) /\ SameWork(c) /\ SameStatus(c) /\ current'[c] = current[c]

Accepts(c) ==
  /\ status[c] = "ready"
  /\ \E from \in Origins :
       queue'[c] = Append(queue[c], [id |-> accepted[c] + 1, gen |-> generation[c], from |-> from])
  /\ accepted'[c] = accepted[c] + 1
  /\ Rests(c) /\ SameValue(c) /\ SameStatus(c) /\ current'[c] = current[c]

Stops(c) ==
  /\ status[c] = "ready" /\ status'[c] = "stopped" /\ error'[c] = error[c]
  /\ Rests(c) /\ SameValue(c) /\ SameWork(c) /\ current'[c] = current[c]

Restarts(c) ==
  /\ generation'[c] = generation[c] + 1
  /\ state'[c] = Fresh(generation[c] + 1)
  /\ status'[c] = "ready" /\ error'[c] = FALSE
  /\ queue'[c] = <<>> /\ accepted'[c] = accepted[c]
  /\ Rests(c) /\ input'[c] = input[c] /\ current'[c] = current[c]

Begins(c) ==
  /\ phase[c] = "check" /\ phase'[c] = "read"
  /\ queue[c] # <<>> /\ current'[c] = Head(queue[c]) /\ queue'[c] = Tail(queue[c])
  /\ accepted'[c] = accepted[c]
  /\ SameValue(c) /\ SameStatus(c)

Reads(c) ==
  /\ phase[c] = "read" /\ phase'[c] = "callback"
  /\ input'[c] = state[c] /\ state'[c] = state[c] /\ generation'[c] = generation[c]
  /\ SameWork(c) /\ SameStatus(c) /\ current'[c] = current[c]

Commits(c) ==
  /\ phase[c] = "callback" /\ phase'[c] = "dispatch"
  /\ current[c].gen = generation[c]
  /\ state'[c] = Replacement(c) /\ input'[c] = input[c] /\ generation'[c] = generation[c]
  /\ SameWork(c) /\ SameStatus(c) /\ current'[c] = current[c]

Finishes(c) ==
  /\ phase[c] = "dispatch" \/ (phase[c] = "callback" /\ current[c].gen # generation[c])
  /\ phase'[c] = "check" /\ current'[c] = NoItem
  /\ SameValue(c) /\ SameWork(c) /\ SameStatus(c)

Fails(c) ==
  /\ phase[c] = "callback" /\ current[c].gen = generation[c]
  /\ phase'[c] = "check" /\ current'[c] = NoItem
  /\ status'[c] = "failed" /\ error'[c] = TRUE
  /\ queue'[c] = <<>> /\ accepted'[c] = accepted[c]
  /\ SameValue(c)

Empties(c) ==
  /\ phase[c] = "exited" /\ phase'[c] = "exited"
  /\ queue'[c] = <<>> /\ accepted'[c] = accepted[c] /\ current'[c] = current[c]
  /\ SameValue(c) /\ SameStatus(c)

CellStep(c) ==
  \/ Untouched(c) \/ Accepts(c) \/ Stops(c) \/ Restarts(c) \/ Begins(c) \/ Reads(c)
  \/ Commits(c) \/ Finishes(c) \/ Fails(c) \/ Empties(c)

\* Every step is, for each Cell, one of the kinds its counters tell apart.
LEMMA CellSteps ==
  ASSUME Typed, [Next]_vars, NEW c \in Cells
  PROVE  CellStep(c)
<1>. USE DEF Typed, CellStep, Untouched, Rests, SameValue, SameWork, SameStatus
<1>0. Cells \subseteq Entities /\ Processes \subseteq Entities /\ c \in Entities
  BY DEF Entities
<1>1. ASSUME NEW x \in Cells, NEW from \in Origins, CellAdmit(x, from), UNCHANGED current
      PROVE  Untouched(c) \/ Accepts(c)
  BY <1>0, <1>1 DEF CellAdmit, Admit, Notified, cellVars, Accepts
<1>2. ASSUME NEW p \in Processes, NEW from \in Origins, ProcessAdmit(p, from), UNCHANGED current, UNCHANGED cellVars
      PROVE  Untouched(c)
  BY <1>0, <1>2, EntitiesAssumption DEF ProcessAdmit, Admit, Notified, cellVars
<1>3. ASSUME NEW e \in Entities, RootSend(e) PROVE CellStep(c)
  BY <1>1, <1>2, <1>3, ClientOrigin DEF RootSend
<1>4. ASSUME NEW e \in Entities, DestroyEntity(e) PROVE CellStep(c)
  BY <1>0, <1>4 DEF DestroyEntity, Terminate, Notified, cellVars
<1>5. ASSUME NEW e \in Entities, JoinWorker(e) PROVE CellStep(c)
  BY <1>0, <1>5 DEF JoinWorker, Join, cellVars, Empties
<1>6. ASSUME NEW x \in Cells, StopCell(x) PROVE CellStep(c)
  BY <1>0, <1>6 DEF StopCell, Stop, Notified, Stops
<1>7. ASSUME NEW x \in Cells, RestartCell(x) PROVE CellStep(c)
  BY <1>0, <1>7 DEF RestartCell, Restart, Reopen, Settle, Notified, Restarts
<1>8. ASSUME NEW x \in Cells, CellWorker(x) PROVE CellStep(c)
  <2>1. CASE CellSleep(x)
    BY <1>0, <2>1 DEF CellSleep, Sleep, cellVars
  <2>2. CASE CellExit(x)
    BY <1>0, <2>2 DEF CellExit, Exit, cellVars
  <2>3. CASE CellDequeue(x)
    BY <1>0, <2>3 DEF CellDequeue, Dequeue, cellVars, Begins
  <2>4. CASE ReadState(x)
    BY <1>0, <2>4 DEF ReadState, Reads
  <2>5. CASE CommitUpdate(x)
    BY <1>0, <2>5 DEF CommitUpdate, Store, Commits
  <2>6. CASE DiscardStale(x)
    BY <1>0, <2>6 DEF DiscardStale, EndTransaction, Settle, cellVars, Finishes
  <2>7. CASE FailUpdate(x)
    BY <1>0, <2>7 DEF FailUpdate, Fail, EndTransaction, Settle, Fails
  <2> QED BY <1>8, <2>1, <2>2, <2>3, <2>4, <2>5, <2>6, <2>7 DEF CellWorker
<1>9. ASSUME NEW p \in Processes, ProcessWorker(p) PROVE CellStep(c)
  <2>1. p # c
    BY EntitiesAssumption
  <2> QED BY <1>0, <1>9, <2>1 DEF ProcessWorker, ProcessSleep, Sleep, ProcessExit, Exit, ProcessDequeue, Dequeue,
             CommitHandler, FailHandler, Settle, cellVars
<1>10. ASSUME NEW e \in Entities, NEW target \in Entities, Stage(e, target) PROVE CellStep(c)
  BY <1>10 DEF Stage, StageSend, cellVars
<1>11. ASSUME NEW e \in Entities, Dispatch(e) PROVE CellStep(c)
  <2>1. CASE DispatchAdmitted(e)
    <3>1. PICK send \in Sends : send = Head(staged[e])
      BY <2>1 DEF DispatchAdmitted, Dispatching
    <3>2. send.to \in Entities /\ send.from \in Origins
      BY DEF Sends
    <3> QED BY <1>1, <1>2, <2>1, <3>1, <3>2 DEF DispatchAdmitted, Deliver
  <2>2. CASE DispatchRefused(e)
    BY <2>2 DEF DispatchRefused, cellVars
  <2>3. CASE DispatchThrows(e)
    BY <2>3 DEF DispatchThrows, cellVars, mailboxVars
  <2> QED BY <1>11, <2>1, <2>2, <2>3 DEF Dispatch
<1>12. ASSUME NEW e \in Entities, RetireItem(e) PROVE CellStep(c)
  <2>1. CASE e = c
    <3>1. phase[c] = "dispatch" /\ phase'[c] = "check" /\ current'[c] = NoItem
      BY <1>0, <1>12, <2>1 DEF RetireItem, Retire
    <3>2. SameValue(c) /\ SameWork(c) /\ SameStatus(c)
      BY <1>12 DEF RetireItem, Retire, cellVars
    <3>3. Finishes(c)
      BY <3>1, <3>2 DEF Finishes
    <3> QED BY <3>3, Zenon
  <2>2. CASE e # c
    BY <1>0, <1>12, <2>2 DEF RetireItem, Retire, cellVars
  <2> QED BY <2>1, <2>2
<1>13. ASSUME NEW t \in Clients, Recheck(t) \/ \E on \in Entities \cup {"all"} : BeginAwait(t, on)
       PROVE CellStep(c)
  BY <1>13 DEF Recheck, BeginAwait, mailboxVars, cellVars
<1>14. CASE UNCHANGED vars
  BY <1>14, Zenon DEF vars, mailboxVars, cellVars
<1> QED BY <1>3, <1>4, <1>5, <1>6, <1>7, <1>8, <1>9, <1>10, <1>11, <1>12, <1>13, <1>14 DEF Next

-----------------------------------------------------------------------------
(* Generations and failure.                                                *)

CellInv(c) ==
  /\ state[c].gen = generation[c]
  /\ \A i \in DOMAIN state[c].log : state[c].log[i].gen = generation[c]
  /\ phase[c] = "callback" /\ current[c].gen = generation[c] => input[c] = state[c]
  /\ \A i \in DOMAIN queue[c] : queue[c][i].gen = generation[c]
  /\ Busy(c) => current[c].gen <= generation[c]
  /\ error[c] = TRUE <=> status[c] = "failed"
  /\ status[c] = "failed" => queue[c] = <<>> /\ ~Busy(c)

\* A new Cell is of one generation throughout.
LEMMA CellInvInit == Init => \A c \in Cells : CellInv(c)
<1> SUFFICES ASSUME Init, NEW c \in Cells PROVE CellInv(c)
  OBVIOUS
<1>1. c \in Entities
  BY DEF Entities
<1> QED BY <1>1 DEF Init, MailboxInit, CellInit, CellInv, Fresh, Busy

\* State, log, queue and running item of a Cell stay of one generation.
LEMMA CellInvNext ==
  ASSUME Typed, Typed', NEW c \in Cells, CellInv(c), CellStep(c)
  PROVE  CellInv(c)'
<1>0. /\ c \in Entities
      /\ queue[c] \in Seq(Items) /\ current[c] \in Items /\ state[c] \in Values /\ input[c] \in Values
      /\ state[c].log \in Seq(Items) /\ generation[c] \in Nat /\ current[c].gen \in Nat
      /\ accepted[c] \in Nat
  BY DEF Typed, Entities, Values, Items
<1>. USE DEF CellInv, Busy
<1>1. CASE Untouched(c)
  BY <1>0, <1>1 DEF Untouched, Rests, SameValue, SameWork, SameStatus
<1>2. CASE Accepts(c)
  <2>1. PICK from \in Origins :
          queue'[c] = Append(queue[c], [id |-> accepted[c] + 1, gen |-> generation[c], from |-> from])
    BY <1>2 DEF Accepts
  <2>2. PICK new \in Items : new = [id |-> accepted[c] + 1, gen |-> generation[c], from |-> from]
    <3>1. [id |-> accepted[c] + 1, gen |-> generation[c], from |-> from] \in Items
      BY <1>0 DEF Items
    <3> QED BY <3>1
  <2>3. \A i \in DOMAIN queue'[c] : queue'[c][i].gen = generation[c]
    <3>1. /\ DOMAIN queue'[c] = 1 .. Len(queue[c]) + 1
          /\ \A i \in 1 .. Len(queue[c]) : queue'[c][i] = queue[c][i]
          /\ queue'[c][Len(queue[c]) + 1] = new
      BY <1>0, <2>1, <2>2
    <3>2. DOMAIN queue[c] = 1 .. Len(queue[c]) /\ Len(queue[c]) \in Nat
      BY <1>0
    <3>3. new.gen = generation[c]
      BY <2>2
    <3> QED BY <3>1, <3>2, <3>3
  <2> QED BY <1>0, <1>2, <2>3 DEF Accepts, Rests, SameValue, SameStatus
<1>3. CASE Stops(c)
  BY <1>0, <1>3 DEF Stops, Rests, SameValue, SameWork
<1>4. CASE Restarts(c)
  BY <1>0, <1>4 DEF Restarts, Rests, Fresh
<1>5. CASE Begins(c)
  <2>1. queue'[c] = Tail(queue[c]) /\ current'[c] = Head(queue[c]) /\ queue[c] # <<>>
    BY <1>5 DEF Begins
  <2>2. /\ Len(queue[c]) > 0
        /\ DOMAIN queue'[c] = 1 .. Len(queue[c]) - 1
        /\ \A i \in 1 .. Len(queue[c]) - 1 : queue'[c][i] = queue[c][i + 1]
        /\ current'[c] = queue[c][1]
    BY <1>0, <2>1
  <2>3. DOMAIN queue[c] = 1 .. Len(queue[c]) /\ Len(queue[c]) \in Nat
    BY <1>0
  <2>4. \A i \in 1 .. Len(queue[c]) : queue[c][i].gen = generation[c]
    BY <2>3
  <2>5. \A i \in DOMAIN queue'[c] : queue'[c][i].gen = generation[c]
    <3>1. \A i \in 1 .. Len(queue[c]) - 1 : i + 1 \in 1 .. Len(queue[c])
      BY <2>3
    <3> QED BY <2>2, <2>4, <3>1
  <2>6. current'[c].gen = generation[c]
    BY <2>2, <2>3, <2>4
  <2> QED BY <1>0, <1>5, <2>1, <2>5, <2>6 DEF Begins, SameValue, SameStatus
<1>6. CASE Reads(c)
  BY <1>0, <1>6 DEF Reads, SameWork, SameStatus
<1>7. CASE Commits(c)
  <2>1. input[c] = state[c] /\ current[c].gen = generation[c] /\ state'[c] = Replacement(c)
    BY <1>7 DEF Commits
  <2>2. state'[c].gen = state[c].gen /\ state'[c].log = Append(state[c].log, current[c])
    BY <2>1 DEF Replacement
  <2>3. \A i \in DOMAIN state'[c].log : state'[c].log[i].gen = generation[c]
    <3>1. /\ DOMAIN state'[c].log = 1 .. Len(state[c].log) + 1
          /\ \A i \in 1 .. Len(state[c].log) : state'[c].log[i] = state[c].log[i]
          /\ state'[c].log[Len(state[c].log) + 1] = current[c]
      BY <1>0, <2>2
    <3>2. DOMAIN state[c].log = 1 .. Len(state[c].log) /\ Len(state[c].log) \in Nat
      BY <1>0
    <3>3. \A i \in 1 .. Len(state[c].log) + 1 : i \in 1 .. Len(state[c].log) \/ i = Len(state[c].log) + 1
      BY <3>2
    <3>4. \A i \in 1 .. Len(state[c].log) : state[c].log[i].gen = generation[c]
      BY <3>2
    <3> QED BY <2>1, <3>1, <3>3, <3>4
  <2> QED BY <1>0, <1>7, <2>2, <2>3 DEF Commits, SameWork, SameStatus
<1>8. CASE Finishes(c)
  BY <1>0, <1>8 DEF Finishes, SameValue, SameWork, SameStatus
<1>9. CASE Fails(c)
  BY <1>0, <1>9 DEF Fails, SameValue
<1>10. CASE Empties(c)
  BY <1>0, <1>10 DEF Empties, SameValue, SameStatus
<1> QED BY <1>1, <1>2, <1>3, <1>4, <1>5, <1>6, <1>7, <1>8, <1>9, <1>10 DEF CellStep

-----------------------------------------------------------------------------
(* What is lost and what is kept.                                          *)

\* The update that is applied next or fails: the worker has it, and it is of
\* the present generation.
Pending(c) == phase[c] \in {"read", "callback"} /\ current[c].gen = generation[c]
Before(c) == Len(queue[c]) + (IF Pending(c) THEN 1 ELSE 0)

\* The log, the running update and the queue are numbered without a gap.
LogInv(c) ==
  status[c] # "failed" /\ phase[c] # "exited" =>
    /\ \A i \in DOMAIN state[c].log :
         state[c].log[i].id = accepted[c] - Before(c) - Len(state[c].log) + i
    /\ Pending(c) => current[c].id = accepted[c] - Len(queue[c])

\* No Cell has committed anything at first.
LEMMA LogInvInit == Init => \A c \in Cells : LogInv(c)
BY DEF Init, MailboxInit, CellInit, LogInv, Pending, Fresh, Entities

\* The log of commits stays in step with what has been accepted.
LEMMA LogInvNext ==
  ASSUME Typed, Typed', NEW c \in Cells, CellInv(c), LogInv(c), EntityInv(c), CellStep(c)
  PROVE  LogInv(c)'
<1>0. /\ c \in Entities
      /\ queue[c] \in Seq(Items) /\ current[c] \in Items /\ state[c].log \in Seq(Items)
      /\ generation[c] \in Nat /\ accepted[c] \in Nat
      /\ Len(queue[c]) \in Nat /\ Len(state[c].log) \in Nat
      /\ current[c].id \in Nat /\ current[c].gen \in Nat
  <2>1. c \in Entities
    BY DEF Entities
  <2>2. queue[c] \in Seq(Items) /\ current[c] \in Items /\ generation[c] \in Nat /\ accepted[c] \in Nat
    BY <2>1 DEF Typed
  <2>3. state[c].log \in Seq(Items)
    BY DEF Typed, Values
  <2> QED BY <2>1, <2>2, <2>3, LenProperties, FieldTypes
<1>1. CASE Untouched(c) \/ Stops(c)
  BY <1>0, <1>1 DEF Untouched, Stops, Rests, SameValue, SameWork, SameStatus, LogInv, Pending, Before
<1>2. CASE Accepts(c)
  <2>1. PICK from \in Origins :
          queue'[c] = Append(queue[c], [id |-> accepted[c] + 1, gen |-> generation[c], from |-> from])
    BY <1>2 DEF Accepts
  <2>2. [id |-> accepted[c] + 1, gen |-> generation[c], from |-> from] \in Items
    BY <1>0 DEF Items
  <2>3. Len(queue'[c]) = Len(queue[c]) + 1
    BY <1>0, <2>1, <2>2
  <2>4. (Pending(c)' <=> Pending(c)) /\ Before(c)' = Before(c) + 1
    <3>1. Pending(c)' <=> Pending(c)
      BY <1>2 DEF Accepts, Rests, SameValue, Pending
    <3>2. CASE Pending(c)
      BY <1>0, <2>3, <3>1, <3>2 DEF Before
    <3>3. CASE ~Pending(c)
      <4>1. Before(c) = Len(queue[c]) + 0 /\ Before(c)' = Len(queue'[c]) + 0
        BY <3>1, <3>3, Zenon DEF Before
      <4> QED BY <1>0, <2>3, <3>1, <4>1
    <3> QED BY <3>1, <3>2, <3>3
  <2>5. /\ accepted'[c] = accepted[c] + 1 /\ state'[c] = state[c] /\ current'[c] = current[c]
        /\ status[c] = "ready" /\ status'[c] = "ready"
        /\ phase'[c] # "exited" => phase[c] # "exited"
    BY <1>2 DEF Accepts, Rests, SameValue, SameStatus
  <2>6. Before(c) \in Nat
    <3>1. CASE Pending(c)
      BY <1>0, <3>1 DEF Before
    <3>2. CASE ~Pending(c)
      BY <1>0, <3>2 DEF Before
    <3> QED BY <3>1, <3>2
  <2>7. accepted'[c] - Before(c)' = accepted[c] - Before(c)
    BY <1>0, <2>4, <2>5, <2>6
  <2>8. Pending(c)' /\ status'[c] # "failed" /\ phase'[c] # "exited" => current'[c].id = accepted'[c] - Len(queue'[c])
    BY <1>0, <2>3, <2>4, <2>5 DEF LogInv
  <2> QED BY <2>5, <2>7, <2>8 DEF LogInv
<1>3. CASE Restarts(c)
  <2>1. state'[c].log = <<>> /\ ~Pending(c)'
    BY <1>0, <1>3 DEF Restarts, Rests, Fresh, Pending, CellInv, Busy
  <2> QED BY <2>1 DEF LogInv
<1>4. CASE Begins(c)
  <2>1. /\ Len(queue[c]) > 0 /\ Len(queue'[c]) = Len(queue[c]) - 1
        /\ current'[c] = queue[c][1] /\ 1 \in DOMAIN queue[c]
    BY <1>0, <1>4 DEF Begins
  <2>2. current'[c].gen = generation[c] /\ current'[c].id = accepted[c] - Len(queue[c]) + 1
    BY <1>0, <2>1 DEF CellInv, EntityInv
  <2>3. /\ phase[c] = "check" /\ phase'[c] = "read" /\ accepted'[c] = accepted[c]
        /\ state'[c] = state[c] /\ generation'[c] = generation[c] /\ status'[c] = status[c]
    BY <1>4 DEF Begins, SameValue, SameStatus
  <2>4. ~Pending(c) /\ Pending(c)' /\ Before(c)' = Before(c)
    BY <1>0, <2>1, <2>2, <2>3 DEF Pending, Before
  <2> QED BY <1>0, <2>1, <2>2, <2>3, <2>4 DEF LogInv
<1>5. CASE Reads(c)
  BY <1>0, <1>5 DEF Reads, SameWork, SameStatus, LogInv, Pending, Before
<1>6. CASE Commits(c)
  <2>1. state'[c].log = Append(state[c].log, current[c])
    BY <1>6 DEF Commits, CellInv, Replacement
  <2>2. /\ Pending(c) /\ ~Pending(c)' /\ Before(c) = Len(queue[c]) + 1 /\ Before(c)' = Len(queue[c])
        /\ status'[c] = status[c] /\ phase[c] # "exited" /\ accepted'[c] = accepted[c]
    BY <1>6 DEF Commits, SameWork, SameStatus, Pending, Before
  <2>. SUFFICES ASSUME status[c] # "failed", NEW i \in DOMAIN state'[c].log
                PROVE  state'[c].log[i].id = accepted[c] - Len(queue[c]) - Len(state'[c].log) + i
    BY <2>2 DEF LogInv
  <2>3. /\ DOMAIN state'[c].log = 1 .. Len(state[c].log) + 1
        /\ Len(state'[c].log) = Len(state[c].log) + 1
        /\ \A j \in 1 .. Len(state[c].log) : state'[c].log[j] = state[c].log[j]
        /\ state'[c].log[Len(state[c].log) + 1] = current[c]
        /\ DOMAIN state[c].log = 1 .. Len(state[c].log)
    BY <1>0, <2>1
  <2>4. CASE i = Len(state[c].log) + 1
    <3>1. current[c].id = accepted[c] - Len(queue[c])
      BY <2>2 DEF LogInv
    <3>2. state'[c].log[i] = current[c]
      BY <2>3, <2>4
    <3>3. \A a, q, l \in Int : a - q = a - q - (l + 1) + (l + 1)
      OBVIOUS
    <3>4. accepted[c] - Len(queue[c]) = accepted[c] - Len(queue[c]) - Len(state'[c].log) + i
      BY <1>0, <2>3, <2>4, <3>3
    <3> QED BY <3>1, <3>2, <3>4, Zenon
  <2>5. CASE i \in 1 .. Len(state[c].log)
    <3>1. state[c].log[i].id = accepted[c] - (Len(queue[c]) + 1) - Len(state[c].log) + i
      BY <2>2, <2>3, <2>5 DEF LogInv
    <3>2. state'[c].log[i].id = state[c].log[i].id /\ i \in Nat
      BY <2>3, <2>5
    <3>3. PICK n \in Int, q \in Int, l \in Int : n = accepted[c] /\ q = Len(queue[c]) /\ l = Len(state[c].log)
      BY <1>0
    <3>4. state'[c].log[i].id = n - (q + 1) - l + i
      BY <3>1, <3>2, <3>3, Zenon
    <3>5. n - (q + 1) - l + i = n - q - (l + 1) + i
      BY <3>2
    <3>6. Len(state'[c].log) = l + 1
      BY <2>3, <3>3, Zenon
    <3> QED BY <3>3, <3>4, <3>5, <3>6, Zenon
  <2> QED BY <1>0, <2>3, <2>4, <2>5
<1>7. CASE Finishes(c)
  <2>1. ~Pending(c) /\ ~Pending(c)'
    BY <1>7 DEF Finishes, Pending
  <2>2. /\ Len(queue'[c]) = Len(queue[c]) /\ accepted'[c] = accepted[c] /\ state'[c] = state[c]
        /\ status'[c] = status[c] /\ phase[c] # "exited"
    BY <1>7 DEF Finishes, SameValue, SameWork, SameStatus
  <2> QED BY <1>0, <2>1, <2>2 DEF LogInv, Before
<1>8. CASE Fails(c)
  BY <1>8 DEF Fails, LogInv
<1>9. CASE Empties(c)
  BY <1>9 DEF Empties, LogInv
<1> QED BY <1>1, <1>2, <1>3, <1>4, <1>5, <1>6, <1>7, <1>8, <1>9 DEF CellStep

CellsInv == IInv /\ \A c \in Cells : CellInv(c) /\ LogInv(c)

\* The invariant of all Cells.
LEMMA CellsInductive == Spec => []CellsInv
<1>1. Init => CellsInv
  BY IInvInit, CellInvInit, LogInvInit DEF CellsInv
<1>2. CellsInv /\ [Next]_vars => CellsInv'
  <2>1. SUFFICES ASSUME CellsInv, [Next]_vars PROVE CellsInv'
    OBVIOUS
  <2>2. IInv' /\ Typed /\ Typed' /\ \A e \in Entities : EntityInv(e)
    BY <2>1, IInvNext DEF CellsInv, IInv
  <2>3. ASSUME NEW c \in Cells PROVE CellInv(c)' /\ LogInv(c)'
    <3>1. CellInv(c) /\ LogInv(c) /\ EntityInv(c)
      BY <2>1, <2>2 DEF CellsInv, Entities
    <3>2. CellStep(c)
      BY <2>1, <2>2, CellSteps
    <3> QED BY <2>2, <3>1, <3>2, CellInvNext, LogInvNext
  <2> QED BY <2>2, <2>3 DEF CellsInv
<1> QED BY <1>1, <1>2, PTL DEF Spec

-----------------------------------------------------------------------------
(* The theorems.                                                           *)

\* Nothing from before a restart is part of the state after it: run() compares
\* the generation of what it ran before it commits (cell.hpp:206).
THEOREM GenerationIsolationHolds == Spec => []GenerationIsolation
<1>1. CellsInv => GenerationIsolation
  BY DEF CellsInv, CellInv, GenerationIsolation, CurrentGen
<1> QED BY <1>1, CellsInductive, PTL

\* What is ahead of the log is numbered up to the last admission.
LEMMA AheadNumbered ==
  ASSUME CellsInv, NEW c \in Cells, status[c] # "failed", phase[c] # "exited"
  PROVE  /\ Ahead(c) \in Seq(Items) /\ Len(Ahead(c)) = Before(c)
         /\ \A j \in 1 .. Before(c) : Ahead(c)[j].id = accepted[c] - Before(c) + j
<1>1. c \in Entities /\ Typed /\ EntityInv(c) /\ LogInv(c)
  BY DEF CellsInv, IInv, Entities
<1>2. /\ queue[c] \in Seq(Items) /\ current[c] \in Items /\ accepted[c] \in Nat
      /\ Len(queue[c]) \in Nat /\ DOMAIN queue[c] = 1 .. Len(queue[c])
  BY <1>1, LenProperties DEF Typed
<1>3. \A i \in 1 .. Len(queue[c]) : queue[c][i].id = accepted[c] - Len(queue[c]) + i
  BY <1>1, <1>2 DEF EntityInv
<1>4. CASE Pending(c)
  <2>1. Ahead(c) = <<current[c]>> \o queue[c] /\ Before(c) = Len(queue[c]) + 1
    BY <1>4 DEF Ahead, CurrentGen, Busy, Pending, Before
  <2>2. <<current[c]>> \in Seq(Items) /\ Len(<<current[c]>>) = 1 /\ <<current[c]>>[1] = current[c]
    BY <1>2
  <2>3. /\ Ahead(c) \in Seq(Items) /\ Len(Ahead(c)) = Len(queue[c]) + 1
        /\ Ahead(c)[1] = current[c]
        /\ \A j \in 2 .. Len(queue[c]) + 1 : Ahead(c)[j] = queue[c][j - 1]
    BY <1>2, <2>1, <2>2
  <2>4. current[c].id = accepted[c] - Len(queue[c])
    BY <1>1, <1>4 DEF LogInv
  <2>5. ASSUME NEW j \in 1 .. Len(queue[c]) + 1
        PROVE  Ahead(c)[j].id = accepted[c] - (Len(queue[c]) + 1) + j
    <3>1. CASE j = 1
      <4>1. \A a, q \in Int : a - q = a - (q + 1) + 1
        OBVIOUS
      <4>2. accepted[c] - Len(queue[c]) = accepted[c] - (Len(queue[c]) + 1) + j
        BY <1>2, <3>1, <4>1
      <4>3. Ahead(c)[j] = current[c]
        BY <2>3, <3>1
      <4> QED BY <2>4, <4>2, <4>3, Zenon
    <3>2. CASE j # 1
      <4>1. j - 1 \in 1 .. Len(queue[c]) /\ Ahead(c)[j] = queue[c][j - 1]
        BY <1>2, <2>3, <3>2
      <4>2. queue[c][j - 1].id = accepted[c] - Len(queue[c]) + (j - 1)
        BY <1>3, <4>1
      <4> QED BY <1>2, <4>1, <4>2
    <3> QED BY <3>1, <3>2
  <2> QED BY <2>1, <2>3, <2>5
<1>5. CASE ~Pending(c)
  <2>1. Ahead(c) = <<>> \o queue[c] /\ Before(c) = Len(queue[c]) + 0
    BY <1>5 DEF Ahead, CurrentGen, Busy, Pending, Before
  <2>2. Ahead(c) = queue[c] /\ Before(c) = Len(queue[c])
    BY <1>2, <2>1
  <2> QED BY <1>2, <1>3, <2>2
<1> QED BY <1>4, <1>5

\* An open cell loses no update it accepted, through commits, stale results
\* and restarts.
THEOREM NoUpdateLostHolds == Spec => []NoUpdateLost
<1> SUFFICES ASSUME CellsInv, NEW c \in Cells, status[c] # "failed", phase[c] # "exited"
             PROVE  LET all == state[c].log \o Ahead(c)
                    IN  \A i \in DOMAIN all : all[i].id = accepted[c] - Len(all) + i
  <2>1. CellsInv => NoUpdateLost
    BY DEF NoUpdateLost
  <2> QED BY <2>1, CellsInductive, PTL
<1>. DEFINE log == state[c].log
            n == Before(c)
            all == log \o Ahead(c)
<1>1. Typed /\ LogInv(c) /\ c \in Entities
  BY DEF CellsInv, IInv, Entities
<1>2. log \in Seq(Items) /\ Len(log) \in Nat /\ DOMAIN log = 1 .. Len(log) /\ accepted[c] \in Nat
  BY <1>1, LenProperties DEF Typed, Values
<1>3. Ahead(c) \in Seq(Items) /\ Len(Ahead(c)) = n /\ n \in Nat
  BY AheadNumbered, LenProperties
<1>4. Len(all) = Len(log) + n /\ DOMAIN all = 1 .. Len(log) + n
  BY <1>2, <1>3, SMTT(60)
<1>5. ASSUME NEW i \in 1 .. Len(log) + n PROVE all[i].id = accepted[c] - (Len(log) + n) + i
  <2>1. CASE i \in 1 .. Len(log)
    <3>1. all[i] = log[i]
      BY <1>2, <1>3, <2>1
    <3>2. log[i].id = accepted[c] - n - Len(log) + i
      BY <1>1, <1>2, <2>1 DEF LogInv
    <3> QED BY <1>2, <1>3, <3>1, <3>2
  <2>2. CASE i \in Len(log) + 1 .. Len(log) + n
    <3>1. all[i] = Ahead(c)[i - Len(log)] /\ i - Len(log) \in 1 .. n
      BY <1>2, <1>3, <2>2, SMTT(60)
    <3>2. Ahead(c)[i - Len(log)].id = accepted[c] - n + (i - Len(log))
      BY <3>1, AheadNumbered
    <3> QED BY <1>2, <1>3, <2>2, <3>1, <3>2
  <2> QED BY <1>2, <1>3, <2>1, <2>2
<1> QED BY <1>4, <1>5

\* A cell's value changes only by the update its worker is running, applied to
\* the value it replaces, or by a restart.
THEOREM ValueStepsHolds == Spec => ValueSteps
<1>1. ASSUME CellsInv, [Next]_vars, NEW c \in Cells, state'[c] # state[c]
      PROVE  \/ /\ generation'[c] = generation[c]
                /\ status'[c] # "failed"
                /\ state'[c].log = Append(state[c].log, current[c])
             \/ generation'[c] = generation[c] + 1 /\ state'[c].log = <<>>
  <2>1. CellStep(c) /\ CellInv(c)
    BY <1>1, CellSteps DEF CellsInv, IInv
  <2>2. Commits(c) \/ Restarts(c)
    BY <1>1, <2>1 DEF CellStep, Untouched, Accepts, Stops, Begins, Reads, Finishes, Fails, Empties, SameValue
  <2> QED BY <2>1, <2>2 DEF Commits, Restarts, SameStatus, Replacement, Fresh, CellInv, Busy
<1>2. CellsInv /\ [Next]_vars => [\A c \in Cells : state'[c] # state[c] =>
        \/ /\ generation'[c] = generation[c]
           /\ status'[c] # "failed"
           /\ state'[c].log = Append(state[c].log, current[c])
        \/ generation'[c] = generation[c] + 1 /\ state'[c].log = <<>>]_vars
  BY <1>1
<1> QED BY <1>2, CellsInductive, PTL DEF Spec, ValueSteps

-----------------------------------------------------------------------------
(* Failure is closed.                                                      *)

ProcessInv(p) ==
  /\ reason[p] = failed[p]
  /\ failed[p] => queue[p] = <<>> /\ ~Busy(p)

\* A failed Process keeps its reason and has no work.
LEMMA ProcessInvNext ==
  ASSUME Typed, NEW p \in Processes, ProcessInv(p), [Next]_vars
  PROVE  ProcessInv(p)'
<1>. USE DEF ProcessInv, Busy
<1>0. p \in Entities /\ Cells \subseteq Entities /\ p \notin Cells
  BY EntitiesAssumption DEF Entities
<1>. DEFINE Same == failed'[p] = failed[p] /\ reason'[p] = reason[p]
            Still == queue'[p] = queue[p] /\ (Busy(p)' => Busy(p))
<1>1. Same /\ Still => ProcessInv(p)'
  OBVIOUS
<1>2. Same /\ queue'[p] = <<>> /\ (Busy(p)' => Busy(p)) => ProcessInv(p)'
  OBVIOUS
<1>3. Same /\ ~failed[p] => ProcessInv(p)'
  OBVIOUS
<1>4. ASSUME NEW x \in Entities, NEW from \in Origins,
             \/ x \in Cells /\ CellAdmit(x, from) /\ UNCHANGED processVars
             \/ x \in Processes /\ ProcessAdmit(x, from) /\ UNCHANGED cellVars
      PROVE  ProcessInv(p)'
  <2>1. Same
    BY <1>4 DEF ProcessAdmit, processVars
  <2>2. CASE x = p
    BY <1>0, <1>3, <1>4, <2>1, <2>2 DEF ProcessAdmit
  <2>3. CASE x # p
    <3>1. Still
      BY <1>0, <1>4, <2>3 DEF ProcessAdmit, CellAdmit, Admit, Notified, Typed
    <3> QED BY <1>1, <2>1, <3>1
  <2> QED BY <2>2, <2>3
<1>5. ASSUME NEW x \in Entities, RootSend(x) PROVE ProcessInv(p)'
  BY <1>4, <1>5, ClientOrigin DEF RootSend
<1>6. ASSUME NEW x \in Entities, DestroyEntity(x) \/ RetireItem(x) PROVE ProcessInv(p)'
  <2>1. Same
    BY <1>6 DEF DestroyEntity, RetireItem, processVars
  <2>2. Still
    BY <1>0, <1>6 DEF DestroyEntity, RetireItem, Terminate, Notified, Retire, Typed
  <2> QED BY <1>1, <2>1, <2>2
<1>7. ASSUME NEW x \in Entities, JoinWorker(x) PROVE ProcessInv(p)'
  <2>1. Same /\ (Busy(p)' => Busy(p))
    BY <1>7 DEF JoinWorker, Join, processVars
  <2>2. queue'[p] = queue[p] \/ queue'[p] = <<>>
    BY <1>0, <1>7 DEF JoinWorker, Join, Typed
  <2> QED BY <1>1, <1>2, <2>1, <2>2
<1>8. ASSUME NEW c \in Cells, StopCell(c) \/ RestartCell(c) \/ CellWorker(c) PROVE ProcessInv(p)'
  <2>1. Same
    BY <1>8 DEF StopCell, RestartCell, CellWorker, processVars
  <2>2. Still
    <3>1. CASE StopCell(c) \/ RestartCell(c)
      BY <1>0, <3>1 DEF StopCell, Stop, RestartCell, Restart, Reopen, Notified, Typed
    <3>2. CASE CellWorker(c)
      BY <1>0, <3>2 DEF CellWorker, CellSleep, Sleep, CellExit, Exit, CellDequeue, Dequeue, ReadState, CommitUpdate, Store,
         DiscardStale, FailUpdate, Fail, EndTransaction, Typed
    <3> QED BY <1>8, <3>1, <3>2
  <2> QED BY <1>1, <2>1, <2>2
<1>9. ASSUME NEW x \in Processes, ProcessWorker(x) PROVE ProcessInv(p)'
  <2>1. CASE ProcessSleep(x) \/ ProcessExit(x) \/ CommitHandler(x)
    <3>1. Same
      BY <2>1 DEF ProcessSleep, ProcessExit, CommitHandler, processVars
    <3>2. Still
      BY <1>0, <2>1 DEF ProcessSleep, Sleep, ProcessExit, Exit, CommitHandler, Typed
    <3> QED BY <1>1, <3>1, <3>2
  <2>2. CASE ProcessDequeue(x)
    <3>1. Same
      BY <2>2 DEF ProcessDequeue, processVars
    <3>2. CASE x = p
      BY <1>3, <2>2, <3>1, <3>2 DEF ProcessDequeue, Dequeue
    <3>3. CASE x # p
      <4>1. Still
        BY <1>0, <2>2, <3>3 DEF ProcessDequeue, Dequeue, Typed
      <4> QED BY <1>1, <3>1, <4>1
    <3> QED BY <3>2, <3>3
  <2>3. CASE FailHandler(x)
    <3>1. CASE x = p
      BY <1>0, <2>3, <3>1 DEF FailHandler, Typed
    <3>2. CASE x # p
      <4>1. Same
        BY <2>3, <3>2 DEF FailHandler, Typed
      <4>2. Still
        BY <1>0, <2>3, <3>2 DEF FailHandler, Typed
      <4> QED BY <1>1, <4>1, <4>2
    <3> QED BY <3>1, <3>2
  <2> QED BY <1>9, <2>1, <2>2, <2>3 DEF ProcessWorker
<1>10. ASSUME NEW x \in Entities, NEW target \in Entities, Stage(x, target) PROVE ProcessInv(p)'
  BY <1>1, <1>10 DEF Stage, StageSend, processVars
<1>11. ASSUME NEW x \in Entities, Dispatch(x) PROVE ProcessInv(p)'
  <2>1. CASE DispatchAdmitted(x)
    <3>1. PICK send \in Sends : send = Head(staged[x])
      BY <2>1 DEF DispatchAdmitted, Dispatching, Typed
    <3>2. send.to \in Entities /\ send.from \in Origins
      BY DEF Sends
    <3> QED BY <1>4, <2>1, <3>1, <3>2 DEF DispatchAdmitted, Deliver
  <2>2. CASE DispatchRefused(x)
    BY <1>1, <2>2 DEF DispatchRefused, processVars
  <2>3. CASE DispatchThrows(x)
    BY <1>1, <2>3 DEF DispatchThrows, processVars, mailboxVars
  <2> QED BY <1>11, <2>1, <2>2, <2>3 DEF Dispatch
<1>12. ASSUME NEW t \in Clients, Recheck(t) \/ \E on \in Entities \cup {"all"} : BeginAwait(t, on)
       PROVE ProcessInv(p)'
  BY <1>1, <1>12 DEF Recheck, BeginAwait, mailboxVars, processVars
<1>13. CASE UNCHANGED vars
  BY <1>1, <1>13 DEF vars, mailboxVars, processVars
<1> QED BY <1>5, <1>6, <1>7, <1>8, <1>9, <1>10, <1>11, <1>12, <1>13 DEF Next

\* The invariant of all Processes.
LEMMA ProcessesInductive == Spec => [](\A p \in Processes : ProcessInv(p))
<1>1. Init => \A p \in Processes : ProcessInv(p)
  BY DEF Init, MailboxInit, ProcessInit, ProcessInv, Busy, Entities
<1>2. IInv /\ (\A p \in Processes : ProcessInv(p)) /\ [Next]_vars => (\A p \in Processes : ProcessInv(p))'
  BY ProcessInvNext DEF IInv
<1> QED BY <1>1, <1>2, Inductive, PTL DEF Spec

\* A failure is cached until a restart, and a failed entity has nothing left to
\* run: cell.hpp:214 and process.hpp:145 discard the queue with the failure.
THEOREM FailureClosedHolds == Spec => []FailureClosed
<1>1. ASSUME CellsInv, \A p \in Processes : ProcessInv(p) PROVE FailureClosed
  <2>1. ASSUME NEW c \in Cells PROVE (status[c] = "failed") = error[c]
    <3>1. (error[c] = TRUE <=> status[c] = "failed") /\ error[c] \in BOOLEAN
      BY <1>1 DEF CellsInv, CellInv, IInv, Typed
    <3> QED BY <3>1, Zenon
  <2>2. \A c \in Cells : status[c] = "failed" => queue[c] = <<>> /\ ~CurrentGen(c)
    BY <1>1 DEF CellsInv, CellInv, CurrentGen
  <2>3. \A p \in Processes : failed[p] = reason[p]
    BY <1>1, Zenon DEF ProcessInv
  <2>4. \A p \in Processes : failed[p] => queue[p] = <<>> /\ ~Busy(p)
    BY <1>1, Zenon DEF ProcessInv
  <2> QED BY <2>1, <2>2, <2>3, <2>4, Zenon DEF FailureClosed
<1> QED BY <1>1, CellsInductive, ProcessesInductive, PTL

-----------------------------------------------------------------------------
(* What a step does to the items in the system and to staged sends.        *)

\* The number of the last item that left the queue.
Taken(e) == accepted[e] - Len(queue[e])

Running(e) == phase[e] \in {"read", "callback"}
Committed(e) == phase[e] = "dispatch"

NoNews == \A e \in Entities : Sent(e)' \subseteq Sent(e) \cup {NoItem}
Onward == \A e \in Entities : Taken(e) <= Taken(e)'
Placed(e) ==
  /\ current'[e] = current[e] /\ staged'[e] = staged[e]
  /\ (Running(e)' <=> Running(e)) /\ (Committed(e)' <=> Committed(e))
Others(w) == \A e \in Entities \ {w} : Placed(e)

\* No transaction is touched.
Aside == NoNews /\ Onward /\ (\A e \in Entities : Placed(e)) /\ rolledBack' = rolledBack

\* w begins a transaction.
Picks(w) ==
  /\ NoNews /\ Onward /\ Others(w) /\ rolledBack' = rolledBack
  /\ ~Busy(w) /\ Running(w)' /\ ~Committed(w)' /\ staged'[w] = staged[w]
  /\ current'[w].id = Taken(w) + 1 /\ current'[w].id = Taken(w)'

\* w stages a send.
Stages(w) ==
  /\ NoNews /\ Onward /\ Others(w) /\ rolledBack' = rolledBack
  /\ phase[w] = "callback" /\ phase'[w] = "callback" /\ current'[w] = current[w]
  /\ \E target \in Entities : staged'[w] = Append(staged[w], [to |-> target, from |-> Origin(w)])

\* w commits.
Passes(w) ==
  /\ NoNews /\ Onward /\ Others(w) /\ rolledBack' = rolledBack
  /\ phase[w] = "callback" /\ phase'[w] = "dispatch"
  /\ current'[w] = current[w] /\ staged'[w] = staged[w]

\* w's transaction is rolled back.
RollsBack(w) ==
  /\ NoNews /\ Onward /\ Others(w)
  /\ rolledBack' = rolledBack \cup {<<w, current[w].id>>}
  /\ phase[w] = "callback" /\ phase'[w] = "check" /\ current'[w] = NoItem /\ staged'[w] = <<>>

\* w's transaction is over.
Closes(w) ==
  /\ NoNews /\ Onward /\ Others(w) /\ rolledBack' = rolledBack
  /\ phase[w] = "dispatch" /\ phase'[w] = "check" /\ current'[w] = NoItem /\ staged'[w] = <<>>

\* A send of w is refused.
Skips(w) ==
  /\ NoNews /\ Onward /\ Others(w) /\ rolledBack' = rolledBack
  /\ phase[w] = "dispatch" /\ phase'[w] = "dispatch" /\ current'[w] = current[w]
  /\ staged[w] # <<>> /\ staged'[w] = Tail(staged[w])

\* A new item reaches x.
News(x, from) ==
  /\ Onward /\ rolledBack' = rolledBack
  /\ \E new \in Items :
       /\ new.id = accepted[x] + 1 /\ new.from = from
       /\ Sent(x)' \subseteq Sent(x) \cup {new}
  /\ \A e \in Entities \ {x} : Sent(e)' \subseteq Sent(e)

Enters(x) == News(x, FromClient) /\ \A e \in Entities : Placed(e)

Delivers(w, x) ==
  /\ News(x, Head(staged[w]).from) /\ Others(w)
  /\ phase[w] = "dispatch" /\ phase'[w] = "dispatch" /\ current'[w] = current[w]
  /\ staged[w] # <<>> /\ staged'[w] = Tail(staged[w])

SendStep ==
  \/ Aside
  \/ \E w \in Entities : Picks(w) \/ Stages(w) \/ Passes(w) \/ RollsBack(w) \/ Closes(w) \/ Skips(w)
  \/ \E w, x \in Entities : Enters(x) \/ Delivers(w, x)

\* The worker's own step leaves the others alone.
LEMMA SentKept ==
  ASSUME NEW e, queue'[e] = queue[e], current'[e] = current[e] \/ current'[e] = NoItem
  PROVE  Sent(e)' \subseteq Sent(e) \cup {NoItem}
BY DEF Sent

\* Taking an item out of a queue sends nothing new.
LEMMA SentTaken ==
  ASSUME NEW e, queue[e] \in Seq(Items), queue[e] # <<>>,
         queue'[e] = Tail(queue[e]), current'[e] = Head(queue[e])
  PROVE  Sent(e)' \subseteq Sent(e)
<1>1. /\ DOMAIN queue[e] = 1 .. Len(queue[e]) /\ Len(queue[e]) \in Nat /\ Len(queue[e]) > 0
      /\ DOMAIN queue'[e] = 1 .. Len(queue[e]) - 1
      /\ \A i \in 1 .. Len(queue[e]) - 1 : queue'[e][i] = queue[e][i + 1]
      /\ current'[e] = queue[e][1]
  OBVIOUS
<1>2. \A i \in DOMAIN queue'[e] : i + 1 \in DOMAIN queue[e]
  BY <1>1
<1>3. 1 \in DOMAIN queue[e]
  BY <1>1
<1> QED BY <1>1, <1>2, <1>3 DEF Sent

\* Clearing a queue sends nothing new.
LEMMA SentCleared ==
  ASSUME NEW e, queue'[e] = <<>>, current'[e] = current[e] \/ current'[e] = NoItem
  PROVE  Sent(e)' \subseteq Sent(e) \cup {NoItem}
BY DEF Sent

\* An admission is news to one entity.
LEMMA AdmitNews ==
  ASSUME Typed, NEW x \in Entities, NEW gen \in Nat, NEW from \in Origins, Admit(x, gen, from),
         UNCHANGED <<current, rolledBack>>
  PROVE  News(x, from)
<1>1. [id |-> accepted[x] + 1, gen |-> gen, from |-> from] \in Items
  BY DEF Typed, Items
<1>2. PICK new \in Items : new = [id |-> accepted[x] + 1, gen |-> gen, from |-> from]
  BY <1>1
<1>3. /\ new.id = accepted[x] + 1 /\ new.from = from
      /\ queue'[x] = Append(queue[x], new) /\ queue[x] \in Seq(Items)
      /\ accepted'[x] = accepted[x] + 1 /\ accepted[x] \in Nat
      /\ \A e \in Entities \ {x} : queue'[e] = queue[e] /\ accepted'[e] = accepted[e]
  BY <1>2 DEF Admit, Typed
<1>4. /\ DOMAIN queue'[x] = 1 .. Len(queue[x]) + 1 /\ DOMAIN queue[x] = 1 .. Len(queue[x])
      /\ Len(queue[x]) \in Nat /\ Len(queue'[x]) = Len(queue[x]) + 1
      /\ \A i \in 1 .. Len(queue[x]) : queue'[x][i] = queue[x][i]
      /\ queue'[x][Len(queue[x]) + 1] = new
  BY <1>3
<1>5. \A i \in DOMAIN queue'[x] : i \in DOMAIN queue[x] \/ i = Len(queue[x]) + 1
  BY <1>4
<1>6. Sent(x)' \subseteq Sent(x) \cup {new}
  BY <1>4, <1>5 DEF Sent
<1>7. \A e \in Entities \ {x} : Sent(e)' \subseteq Sent(e)
  BY <1>3 DEF Sent
<1>8. ASSUME NEW e \in Entities PROVE Taken(e) <= Taken(e)'
  <2>1. queue[e] \in Seq(Items) /\ Len(queue[e]) \in Nat /\ accepted[e] \in Nat
    BY LenProperties DEF Typed
  <2>2. accepted'[e] - Len(queue'[e]) = accepted[e] - Len(queue[e])
    BY <1>3, <1>4, <2>1
  <2> QED BY <2>1, <2>2 DEF Taken
<1> QED BY <1>3, <1>6, <1>7, <1>8 DEF News, Onward

\* Items taken are never given back.
LEMMA TakenNext ==
  ASSUME Typed, NEW e \in Entities, accepted'[e] = accepted[e],
         \/ queue'[e] = queue[e]
         \/ queue'[e] = <<>>
         \/ queue[e] # <<>> /\ queue'[e] = Tail(queue[e])
  PROVE  Taken(e) <= Taken(e)'
<1>1. queue[e] \in Seq(Items) /\ Len(queue[e]) \in Nat /\ accepted[e] \in Nat
  BY LenProperties DEF Typed
<1>2. Len(queue'[e]) \in Nat /\ Len(queue'[e]) <= Len(queue[e])
  <2>1. CASE queue'[e] = queue[e]
    BY <1>1, <2>1
  <2>2. CASE queue'[e] = <<>>
    BY <1>1, <2>2
  <2>3. CASE queue[e] # <<>> /\ queue'[e] = Tail(queue[e])
    BY <1>1, <2>3
  <2> QED BY <2>1, <2>2, <2>3
<1> QED BY <1>1, <1>2 DEF Taken

\* A step that leaves queues, counters and items alone.
LEMMA QuietQueues ==
  ASSUME Typed, UNCHANGED <<queue, accepted>>, NEW w,
         \A e \in Entities \ {w} : current'[e] = current[e],
         current'[w] = current[w] \/ current'[w] = NoItem
  PROVE  NoNews /\ Onward
<1>1. \A e \in Entities : Taken(e) <= Taken(e)'
  BY TakenNext
<1>2. ASSUME NEW e \in Entities PROVE Sent(e)' \subseteq Sent(e) \cup {NoItem}
  BY <1>2, SentKept
<1> QED BY <1>1, <1>2 DEF NoNews, Onward

\* A step that clears one queue.
LEMMA ClearedQueue ==
  ASSUME Typed, UNCHANGED accepted, NEW w \in Entities, queue' = [queue EXCEPT ![w] = <<>>],
         \A e \in Entities \ {w} : current'[e] = current[e],
         current'[w] = current[w] \/ current'[w] = NoItem
  PROVE  NoNews /\ Onward
<1>1. queue'[w] = <<>> /\ \A e \in Entities \ {w} : queue'[e] = queue[e]
  BY DEF Typed
<1>2. ASSUME NEW e \in Entities PROVE Taken(e) <= Taken(e)' /\ Sent(e)' \subseteq Sent(e) \cup {NoItem}
  <2>1. CASE e = w
    BY <1>1, <2>1, TakenNext, SentCleared
  <2>2. CASE e # w
    BY <1>1, <2>2, TakenNext, SentKept
  <2> QED BY <2>1, <2>2
<1> QED BY <1>2 DEF NoNews, Onward

\* Every step sends at most what is staged next.
LEMMA SendSteps ==
  ASSUME IInv, [Next]_vars
  PROVE  SendStep
<1>0. /\ Typed /\ Cells \subseteq Entities /\ Processes \subseteq Entities
      /\ \A e \in Entities : StagedInside(e) /\ EntityInv(e)
  BY DEF IInv, Entities
<1>1. ASSUME NEW e \in Entities, RootSend(e) PROVE Enters(e)
  <2>1. PICK gen \in Nat : Admit(e, gen, FromClient)
    BY <1>0, <1>1 DEF RootSend, CellAdmit, ProcessAdmit, Typed
  <2>2. phase' = Notified(e) /\ UNCHANGED <<current, staged, rolledBack>>
    BY <1>1 DEF RootSend, CellAdmit, ProcessAdmit
  <2>3. News(e, FromClient)
    BY <1>0, <2>1, <2>2, AdmitNews, ClientOrigin
  <2>4. \A x \in Entities : Placed(x)
    BY <1>0, <2>2 DEF Notified, Typed, Placed, Running, Committed
  <2> QED BY <2>3, <2>4 DEF Enters
<1>2. ASSUME NEW e \in Entities, DestroyEntity(e) PROVE Aside
  <2>1. UNCHANGED <<queue, accepted, current, staged, rolledBack>> /\ phase' = Notified(e)
    BY <1>2 DEF DestroyEntity, Terminate, boundVars
  <2>2. NoNews /\ Onward
    BY <1>0, <2>1, QuietQueues
  <2> QED BY <1>0, <2>1, <2>2 DEF Aside, Notified, Typed, Placed, Running, Committed
<1>3. ASSUME NEW e \in Entities, JoinWorker(e) PROVE Aside
  <2>1. UNCHANGED <<accepted, current, staged, phase, rolledBack>> /\ queue' = [queue EXCEPT ![e] = <<>>]
    BY <1>3 DEF JoinWorker, Join, boundVars
  <2>2. NoNews /\ Onward
    BY <1>0, <2>1, ClearedQueue
  <2> QED BY <2>1, <2>2 DEF Aside, Placed, Running, Committed
<1>4. ASSUME NEW c \in Cells, StopCell(c) PROVE Aside
  <2>1. UNCHANGED <<queue, accepted, current, staged, rolledBack>> /\ phase' = Notified(c)
    BY <1>4 DEF StopCell, Stop, boundVars
  <2>2. NoNews /\ Onward
    BY <1>0, <2>1, QuietQueues
  <2> QED BY <1>0, <2>1, <2>2 DEF Aside, Notified, Typed, Placed, Running, Committed
<1>5. ASSUME NEW c \in Cells, RestartCell(c) PROVE Aside
  <2>1. /\ UNCHANGED <<accepted, current, staged, rolledBack>> /\ queue' = [queue EXCEPT ![c] = <<>>]
        /\ phase' = Notified(c)
    BY <1>5 DEF RestartCell, Restart, Reopen, boundVars
  <2>2. NoNews /\ Onward
    BY <1>0, <2>1, ClearedQueue
  <2> QED BY <1>0, <2>1, <2>2 DEF Aside, Notified, Typed, Placed, Running, Committed
<1>6. ASSUME NEW e \in Entities, Sleep(e) \/ Exit(e), UNCHANGED rolledBack PROVE Aside
  <2>1. UNCHANGED <<queue, accepted, current, staged>> /\ phase[e] = "check"
    BY <1>6 DEF Sleep, Exit
  <2>2. NoNews /\ Onward
    BY <1>0, <2>1, QuietQueues
  <2>3. phase' = [phase EXCEPT ![e] = "asleep"] \/ phase' = [phase EXCEPT ![e] = "exited"]
    BY <1>6 DEF Sleep, Exit
  <2> QED BY <1>0, <1>6, <2>1, <2>2, <2>3 DEF Aside, Typed, Placed, Running, Committed
<1>7. ASSUME NEW e \in Entities, NEW next \in {"read", "callback"}, Dequeue(e, next), UNCHANGED rolledBack
      PROVE  Picks(e)
  <2>1. /\ phase[e] = "check" /\ queue[e] # <<>> /\ queue[e] \in Seq(Items)
        /\ current'[e] = Head(queue[e]) /\ queue'[e] = Tail(queue[e]) /\ phase'[e] = next
        /\ UNCHANGED <<accepted, staged>>
        /\ \A x \in Entities \ {e} : phase'[x] = phase[x] /\ queue'[x] = queue[x] /\ current'[x] = current[x]
    BY <1>0, <1>7 DEF Dequeue, Typed
  <2>2. \A x \in Entities : Taken(x) <= Taken(x)'
    BY <1>0, <2>1, TakenNext
  <2>3. ASSUME NEW x \in Entities PROVE Sent(x)' \subseteq Sent(x) \cup {NoItem}
    BY <2>1, SentTaken, SentKept
  <2>4. \A x \in Entities \ {e} : Placed(x)
    BY <2>1 DEF Placed, Running, Committed
  <2>5. current'[e].id = Taken(e) + 1 /\ current'[e].id = Taken(e)'
    <3>1. /\ Len(queue[e]) \in Nat /\ Len(queue[e]) > 0 /\ 1 \in DOMAIN queue[e]
          /\ Head(queue[e]) = queue[e][1] /\ Len(Tail(queue[e])) = Len(queue[e]) - 1
      BY <2>1
    <3>2. queue[e][1].id = accepted[e] - Len(queue[e]) + 1 /\ accepted[e] \in Nat
      BY <1>0, <3>1 DEF EntityInv, Typed
    <3> QED BY <2>1, <3>1, <3>2 DEF Taken
  <2> QED BY <1>7, <2>1, <2>2, <2>3, <2>4, <2>5 DEF Picks, NoNews, Onward, Others, Busy, Running, Committed
<1>8. ASSUME NEW c \in Cells, CellWorker(c) PROVE SendStep
  <2>1. CASE (CellSleep(c) \/ CellExit(c)) /\ UNCHANGED rolledBack
    BY <1>0, <1>6, <2>1 DEF CellSleep, CellExit, SendStep
  <2>2. CASE CellDequeue(c) /\ UNCHANGED rolledBack
    BY <1>0, <1>7, <2>2 DEF CellDequeue, SendStep
  <2>3. CASE ReadState(c) /\ UNCHANGED rolledBack
    <3>1. UNCHANGED <<queue, accepted, current, staged>>
      BY <2>3 DEF ReadState
    <3>2. NoNews /\ Onward
      BY <1>0, <3>1, QuietQueues
    <3>3. \A e \in Entities : Placed(e)
      BY <1>0, <2>3, <3>1 DEF ReadState, Typed, Placed, Running, Committed
    <3> QED BY <2>3, <3>2, <3>3 DEF Aside, SendStep
  <2>4. CASE CommitUpdate(c) /\ UNCHANGED rolledBack
    <3>1. UNCHANGED <<queue, accepted, current, staged>>
      BY <2>4 DEF CommitUpdate, Store
    <3>2. NoNews /\ Onward
      BY <1>0, <3>1, QuietQueues
    <3>3. Others(c)
      BY <1>0, <2>4, <3>1 DEF CommitUpdate, Store, Typed, Others, Placed, Running, Committed
    <3>4. phase[c] = "callback" /\ phase'[c] = "dispatch"
      BY <1>0, <2>4 DEF CommitUpdate, Store, Typed
    <3>5. Passes(c)
      BY <2>4, <3>1, <3>2, <3>3, <3>4 DEF Passes
    <3> QED BY <1>0, <3>5 DEF SendStep
  <2>5. CASE (DiscardStale(c) \/ FailUpdate(c)) /\ rolledBack' = rolledBack \cup {<<c, current[c].id>>}
    <3>1. /\ EndTransaction(c) /\ UNCHANGED accepted /\ phase[c] = "callback"
          /\ queue' = queue \/ queue' = [queue EXCEPT ![c] = <<>>]
      BY <2>5 DEF DiscardStale, FailUpdate, Fail
    <3>2. /\ phase'[c] = "check" /\ current'[c] = NoItem /\ staged'[c] = <<>>
          /\ \A e \in Entities \ {c} : phase'[e] = phase[e] /\ current'[e] = current[e] /\ staged'[e] = staged[e]
      BY <1>0, <3>1 DEF EndTransaction, Typed
    <3>3. NoNews /\ Onward
      BY <1>0, <3>1, <3>2, QuietQueues, ClearedQueue
    <3>4. RollsBack(c)
      BY <2>5, <3>1, <3>2, <3>3 DEF RollsBack, Others, Placed, Running, Committed
    <3> QED BY <1>0, <3>4 DEF SendStep
  <2> QED BY <1>8, <2>1, <2>2, <2>3, <2>4, <2>5 DEF CellWorker
<1>9. ASSUME NEW p \in Processes, ProcessWorker(p) PROVE SendStep
  <2>1. CASE (ProcessSleep(p) \/ ProcessExit(p)) /\ UNCHANGED rolledBack
    BY <1>0, <1>6, <2>1 DEF ProcessSleep, ProcessExit, SendStep
  <2>2. CASE ProcessDequeue(p) /\ UNCHANGED rolledBack
    BY <1>0, <1>7, <2>2 DEF ProcessDequeue, SendStep
  <2>3. CASE CommitHandler(p) /\ UNCHANGED rolledBack
    <3>1. UNCHANGED <<queue, accepted, current, staged>>
      BY <2>3 DEF CommitHandler
    <3>2. NoNews /\ Onward
      BY <1>0, <3>1, QuietQueues
    <3>3. Others(p)
      BY <1>0, <2>3, <3>1 DEF CommitHandler, Typed, Others, Placed, Running, Committed
    <3>4. phase[p] = "callback" /\ phase'[p] = "dispatch"
      BY <1>0, <2>3 DEF CommitHandler, Typed
    <3>5. Passes(p)
      BY <2>3, <3>1, <3>2, <3>3, <3>4 DEF Passes
    <3> QED BY <1>0, <3>5 DEF SendStep
  <2>4. CASE FailHandler(p) /\ rolledBack' = rolledBack \cup {<<p, current[p].id>>}
    <3>1. /\ UNCHANGED accepted /\ phase[p] = "callback" /\ queue' = [queue EXCEPT ![p] = <<>>]
          /\ phase' = [phase EXCEPT ![p] = "check"] /\ current' = [current EXCEPT ![p] = NoItem]
          /\ staged' = [staged EXCEPT ![p] = <<>>]
      BY <2>4 DEF FailHandler
    <3>2. /\ phase'[p] = "check" /\ current'[p] = NoItem /\ staged'[p] = <<>>
          /\ \A e \in Entities \ {p} : phase'[e] = phase[e] /\ current'[e] = current[e] /\ staged'[e] = staged[e]
      BY <1>0, <3>1 DEF Typed
    <3>3. NoNews /\ Onward
      BY <1>0, <3>1, <3>2, ClearedQueue
    <3>4. RollsBack(p)
      BY <2>4, <3>1, <3>2, <3>3 DEF RollsBack, Others, Placed, Running, Committed
    <3> QED BY <1>0, <3>4 DEF SendStep
  <2> QED BY <1>9, <2>1, <2>2, <2>3, <2>4 DEF ProcessWorker
<1>10. ASSUME NEW e \in Entities, NEW target \in Entities, Stage(e, target) PROVE SendStep
  <2>1. /\ UNCHANGED <<queue, accepted, current, phase, rolledBack>> /\ phase[e] = "callback"
        /\ staged' = [staged EXCEPT ![e] = Append(@, [to |-> target, from |-> Origin(e)])]
    BY <1>10 DEF Stage, StageSend, boundVars
  <2>2. NoNews /\ Onward
    BY <1>0, <2>1, QuietQueues
  <2>3. Stages(e)
    BY <1>0, <2>1, <2>2 DEF Stages, Others, Placed, Running, Committed, Typed
  <2> QED BY <2>3 DEF SendStep
<1>11. ASSUME NEW e \in Entities, Dispatch(e) PROVE SendStep
  <2>1. CASE DispatchAdmitted(e)
    <3>1. /\ phase[e] = "dispatch" /\ staged[e] # <<>> /\ staged' = [staged EXCEPT ![e] = Tail(@)]
          /\ UNCHANGED <<current, rolledBack>> /\ Deliver(Head(staged[e]))
      BY <2>1 DEF DispatchAdmitted, Dispatching, boundVars
    <3>2. PICK send \in Sends : send = Head(staged[e])
      BY <1>0, <3>1 DEF Typed
    <3>3. send.to \in Entities /\ send.from \in Origins
      BY DEF Sends
    <3>4. PICK gen \in Nat : Admit(send.to, gen, send.from)
      BY <1>0, <3>1, <3>2 DEF Deliver, CellAdmit, ProcessAdmit, Typed
    <3>5. phase' = Notified(send.to)
      BY <3>1, <3>2 DEF Deliver, CellAdmit, ProcessAdmit
    <3>6. News(send.to, send.from)
      BY <1>0, <3>1, <3>3, <3>4, AdmitNews
    <3>7. Others(e) /\ phase'[e] = "dispatch" /\ current'[e] = current[e] /\ staged'[e] = Tail(staged[e])
      BY <1>0, <3>1, <3>3, <3>5 DEF Others, Placed, Running, Committed, Notified, Typed
    <3>8. Delivers(e, send.to)
      BY <3>1, <3>2, <3>6, <3>7 DEF Delivers
    <3> QED BY <3>3, <3>8 DEF SendStep
  <2>2. CASE DispatchRefused(e)
    <3>1. /\ phase[e] = "dispatch" /\ staged[e] # <<>> /\ staged' = [staged EXCEPT ![e] = Tail(@)]
          /\ UNCHANGED <<queue, accepted, current, phase, rolledBack>>
      BY <2>2 DEF DispatchRefused, Dispatching, boundVars
    <3>2. NoNews /\ Onward
      BY <1>0, <3>1, QuietQueues
    <3>3. Skips(e)
      BY <1>0, <3>1, <3>2 DEF Skips, Others, Placed, Running, Committed, Typed
    <3> QED BY <3>3 DEF SendStep
  <2>3. CASE DispatchThrows(e)
    <3>1. UNCHANGED <<queue, accepted, current, staged, phase, rolledBack>>
      BY <2>3 DEF DispatchThrows, mailboxVars
    <3>2. NoNews /\ Onward
      BY <1>0, <3>1, QuietQueues
    <3> QED BY <3>1, <3>2 DEF Aside, Placed, Running, Committed, SendStep
  <2> QED BY <1>11, <2>1, <2>2, <2>3 DEF Dispatch
<1>12. ASSUME NEW e \in Entities, RetireItem(e) PROVE SendStep
  <2>1. /\ UNCHANGED <<queue, accepted, staged, rolledBack>> /\ phase[e] = "dispatch" /\ staged[e] = <<>>
        /\ phase' = [phase EXCEPT ![e] = "check"] /\ current' = [current EXCEPT ![e] = NoItem]
    BY <1>12 DEF RetireItem, Retire, boundVars
  <2>2. NoNews /\ Onward
    BY <1>0, <2>1, QuietQueues DEF Typed
  <2>3. Closes(e)
    BY <1>0, <2>1, <2>2 DEF Closes, Others, Placed, Running, Committed, Typed
  <2> QED BY <2>3 DEF SendStep
<1>13. ASSUME NEW t \in Clients, Recheck(t) \/ \E on \in Entities \cup {"all"} : BeginAwait(t, on)
       PROVE Aside
  <2>1. UNCHANGED <<queue, accepted, current, staged, phase, rolledBack>>
    BY <1>13 DEF Recheck, BeginAwait, mailboxVars, boundVars
  <2>2. NoNews /\ Onward
    BY <1>0, <2>1, QuietQueues
  <2> QED BY <2>1, <2>2 DEF Aside, Placed, Running, Committed
<1>14. CASE UNCHANGED vars
  <2>1. UNCHANGED <<queue, accepted, current, staged, phase, rolledBack>>
    BY <1>14 DEF vars, mailboxVars, boundVars
  <2>2. NoNews /\ Onward
    BY <1>0, <2>1, QuietQueues
  <2> QED BY <2>1, <2>2 DEF Aside, Placed, Running, Committed, SendStep
<1>15. Aside => SendStep
  BY DEF SendStep
<1>16. \A e \in Entities : Enters(e) => SendStep
  BY DEF SendStep
<1> QED
  BY <1>0, <1>1, <1>2, <1>3, <1>4, <1>5, <1>8, <1>9, <1>10, <1>11, <1>12, <1>13, <1>14, <1>15, <1>16, Zenon DEF Next

-----------------------------------------------------------------------------
(* The invariant.                                                          *)

Resting == \A e \in Entities : ~Busy(e) => current[e] = NoItem

\* What w has staged bears w's stamp and is in program order.
Stamped(w) ==
  /\ \A i \in DOMAIN staged[w] :
       /\ staged[w][i].from.by = w
       /\ staged[w][i].from.parent = current[w].id
       /\ ~Committed(w) => staged[w][i].from.pos = i
  /\ \A i, j \in DOMAIN staged[w] : i < j => staged[w][i].from.pos < staged[w][j].from.pos

\* An item was sent by a transaction that has committed; if that transaction
\* is still sending, it is ahead of all it has left to send.
Behind(item, w) ==
  /\ item.from.parent <= Taken(w)
  /\ Running(w) => item.from.parent < current[w].id
  /\ Committed(w) /\ item.from.parent = current[w].id =>
       \A i \in DOMAIN staged[w] : item.from.pos < staged[w][i].from.pos
Sourced == \A e, w \in Entities : \A item \in Sent(e) : item.from.by = w => Behind(item, w)

\* A transaction that was rolled back is over.
Undone ==
  \A w \in Entities, n \in Nat : <<w, n>> \in rolledBack =>
    n <= Taken(w) /\ (Busy(w) => n < current[w].id)

SendInv ==
  /\ IInv
  /\ Resting /\ Sourced /\ Undone
  /\ \A w \in Entities : Stamped(w)
  /\ RollbackIsComplete
  /\ ProgramOrder

\* The types of what the invariant compares.
LEMMA Numbers2 ==
  ASSUME Typed, NEW e \in Entities
  PROVE  /\ queue[e] \in Seq(Items) /\ Len(queue[e]) \in Nat /\ accepted[e] \in Nat
         /\ current[e] \in Items /\ current[e].id \in Nat
         /\ staged[e] \in Seq(Sends) /\ Len(staged[e]) \in Nat /\ DOMAIN staged[e] = 1 .. Len(staged[e])
         /\ Taken(e) \in Int
<1>1. /\ queue[e] \in Seq(Items) /\ accepted[e] \in Nat /\ current[e] \in Items /\ staged[e] \in Seq(Sends)
  BY DEF Typed
<1> QED BY <1>1, FieldTypes, LenProperties DEF Taken

\* The fields of an origin.
LEMMA OriginTypes ==
  ASSUME NEW o \in Origins
  PROVE  o.by \in Senders /\ o.parent \in Nat /\ o.pos \in Nat
BY DEF Origins

\* What has been sent are items.
LEMMA SentTypes ==
  ASSUME Typed, NEW e \in Entities, NEW item \in Sent(e)
  PROVE  item \in Items /\ item.id \in Nat /\ item.from \in Origins
<1>1. item \in Items
  BY Numbers2 DEF Sent
<1> QED BY <1>1, FieldTypes

\* What is staged are sends.
LEMMA SendTypes ==
  ASSUME Typed, NEW w \in Entities, NEW i \in DOMAIN staged[w]
  PROVE  staged[w][i] \in Sends /\ staged[w][i].from \in Origins
<1>1. staged[w][i] \in Sends
  BY Numbers2
<1> QED BY <1>1 DEF Sends

\* Numbers are given out once: an item is not newer than the last admission.
LEMMA SentBounded ==
  ASSUME IInv, Resting, NEW e \in Entities, NEW item \in Sent(e)
  PROVE  item.id <= accepted[e]
<1>1. Typed /\ EntityInv(e)
  BY DEF IInv
<1>2. /\ queue[e] \in Seq(Items) /\ Len(queue[e]) \in Nat /\ accepted[e] \in Nat
      /\ DOMAIN queue[e] = 1 .. Len(queue[e]) /\ current[e].id \in Nat
  BY <1>1, Numbers2, LenProperties
<1>3. CASE \E i \in DOMAIN queue[e] : item = queue[e][i]
  BY <1>1, <1>2, <1>3 DEF EntityInv
<1>4. CASE item = current[e]
  <2>1. CASE Busy(e)
    BY <1>1, <1>2, <1>4, <2>1 DEF EntityInv
  <2>2. CASE ~Busy(e)
    BY <1>2, <1>4, <2>2 DEF Resting, NoItem
  <2> QED BY <2>1, <2>2
<1> QED BY <1>3, <1>4 DEF Sent

\* Nothing has been sent at first.
LEMMA SendInvInit == Init => SendInv
<1> SUFFICES ASSUME Init PROVE SendInv
  OBVIOUS
<1>1. IInv
  BY IInvInit
<1>2. \A e \in Entities : Sent(e) = {NoItem} /\ staged[e] = <<>> /\ current[e] = NoItem
  BY DEF Init, MailboxInit, Sent
<1>3. NoItem.from.by = "client" /\ "client" \notin Entities
  BY SendersAssumption DEF NoItem, FromClient
<1>4. rolledBack = {}
  BY DEF Init
<1>5. Sourced
  BY <1>2, <1>3 DEF Sourced
<1>6. ProgramOrder
  BY <1>2, <1>3 DEF ProgramOrder
<1> QED BY <1>1, <1>2, <1>4, <1>5, <1>6 DEF SendInv, Resting, Undone, Stamped, RollbackIsComplete

-----------------------------------------------------------------------------
(* The invariant is preserved.                                             *)

\* A step is w's own or leaves w in its place.
LEMMA OwnStep ==
  ASSUME SendStep, NEW w \in Entities
  PROVE  \/ Placed(w) \/ Picks(w) \/ Stages(w) \/ Passes(w) \/ RollsBack(w) \/ Closes(w) \/ Skips(w)
         \/ \E x \in Entities : Delivers(w, x)
<1>1. CASE Aside \/ \E x \in Entities : Enters(x)
  BY <1>1 DEF Aside, Enters
<1>2. ASSUME NEW v \in Entities, Others(v), v # w PROVE Placed(w)
  BY <1>2 DEF Others
<1>3. ASSUME NEW v \in Entities, Picks(v) \/ Stages(v) \/ Passes(v) \/ RollsBack(v) \/ Closes(v) \/ Skips(v)
      PROVE  Others(v)
  BY <1>3 DEF Picks, Stages, Passes, RollsBack, Closes, Skips
<1>4. ASSUME NEW v \in Entities, NEW x \in Entities, Delivers(v, x) PROVE Others(v)
  BY <1>4 DEF Delivers
<1> QED BY <1>1, <1>2, <1>3, <1>4 DEF SendStep

\* Items do not appear from nowhere.
NewFor(e, item) ==
  \E w \in Entities :
    /\ Delivers(w, e)
    /\ item.from = Head(staged[w]).from
    /\ item.id = accepted[e] + 1

\* A step's new item comes from a client or from the worker that dispatches.
LEMMA SentStep ==
  ASSUME SendStep, NEW e \in Entities, NEW item \in Sent(e)'
  PROVE  item \in Sent(e) \/ item.from.by = "client" \/ NewFor(e, item)
<1>1. CASE NoNews
  BY <1>1 DEF NoNews, NoItem, FromClient
<1>2. ASSUME NEW x \in Entities, Enters(x) PROVE item \in Sent(e) \/ item.from.by = "client"
  BY <1>2 DEF Enters, News, FromClient
<1>3. ASSUME NEW w \in Entities, NEW x \in Entities, Delivers(w, x) PROVE item \in Sent(e) \/ NewFor(e, item)
  BY <1>3 DEF Delivers, News, NewFor
<1> QED
  BY <1>1, <1>2, <1>3 DEF SendStep, Aside, Picks, Stages, Passes, RollsBack, Closes, Skips

\* No step takes back an item taken.
LEMMA Progress ==
  ASSUME SendStep, NEW e \in Entities
  PROVE  Taken(e) <= Taken(e)'
BY DEF SendStep, Aside, Picks, Stages, Passes, RollsBack, Closes, Skips, Enters, Delivers, News, Onward

\* What is left of the staged sends after the first is gone.
LEMMA TailOf ==
  ASSUME Typed, NEW w \in Entities, staged[w] # <<>>, staged'[w] = Tail(staged[w])
  PROVE  /\ DOMAIN staged'[w] = 1 .. Len(staged[w]) - 1
         /\ 1 \in DOMAIN staged[w] /\ Head(staged[w]) = staged[w][1]
         /\ \A i \in DOMAIN staged'[w] : staged'[w][i] = staged[w][i + 1] /\ i + 1 \in DOMAIN staged[w] /\ i \in Nat
BY Numbers2

\* Staged sends keep their stamp and their order.
LEMMA StampedNext ==
  ASSUME SendInv, SendStep, NEW w \in Entities
  PROVE  Stamped(w)'
<1>0. Typed /\ Stamped(w) /\ StagedInside(w)
  BY DEF SendInv, IInv
<1>1. CASE Placed(w) \/ Passes(w)
  BY <1>0, <1>1 DEF Placed, Passes, Stamped, Committed
<1>2. CASE Picks(w)
  <2>1. staged'[w] = <<>>
    BY <1>0, <1>2 DEF Picks, StagedInside, Busy
  <2> QED BY <2>1 DEF Stamped
<1>3. CASE RollsBack(w) \/ Closes(w)
  BY <1>3 DEF RollsBack, Closes, Stamped
<1>4. CASE Stages(w)
  <2>1. PICK target \in Entities : staged'[w] = Append(staged[w], [to |-> target, from |-> Origin(w)])
    BY <1>4 DEF Stages
  <2>. DEFINE new == [to |-> target, from |-> Origin(w)]
  <2>2. new.from.by = w /\ new.from.parent = current[w].id /\ new.from.pos = Len(staged[w]) + 1
    BY DEF Origin
  <2>3. /\ DOMAIN staged'[w] = 1 .. Len(staged[w]) + 1 /\ DOMAIN staged[w] = 1 .. Len(staged[w])
        /\ Len(staged[w]) \in Nat
        /\ \A i \in 1 .. Len(staged[w]) : staged'[w][i] = staged[w][i]
        /\ staged'[w][Len(staged[w]) + 1] = new
    BY <1>0, <2>1, Numbers2
  <2>. HIDE DEF new
  <2>4. ~Committed(w) /\ current'[w] = current[w]
    BY <1>4 DEF Stages, Committed
  <2>5. ASSUME NEW i \in DOMAIN staged'[w]
        PROVE  /\ staged'[w][i].from.by = w /\ staged'[w][i].from.parent = current'[w].id
               /\ staged'[w][i].from.pos = i
    <3>1. CASE i \in 1 .. Len(staged[w])
      BY <1>0, <2>3, <2>4, <3>1 DEF Stamped
    <3>2. CASE i = Len(staged[w]) + 1
      BY <2>2, <2>3, <2>4, <3>2
    <3> QED BY <2>3, <3>1, <3>2
  <2> QED BY <2>5 DEF Stamped
<1>5. CASE Skips(w) \/ \E x \in Entities : Delivers(w, x)
  <2>1. staged[w] # <<>> /\ staged'[w] = Tail(staged[w]) /\ current'[w] = current[w] /\ Committed(w)'
    BY <1>5 DEF Skips, Delivers, Committed
  <2>2. \A i \in DOMAIN staged'[w] : staged'[w][i] = staged[w][i + 1] /\ i + 1 \in DOMAIN staged[w] /\ i \in Nat
    BY <1>0, <2>1, TailOf
  <2>3. ASSUME NEW i \in DOMAIN staged'[w]
        PROVE  staged'[w][i].from.by = w /\ staged'[w][i].from.parent = current'[w].id
    BY <1>0, <2>1, <2>2 DEF Stamped
  <2>4. ASSUME NEW i \in DOMAIN staged'[w], NEW j \in DOMAIN staged'[w], i < j
        PROVE  staged'[w][i].from.pos < staged'[w][j].from.pos
    <3>1. i + 1 < j + 1
      BY <2>2, <2>4
    <3> QED BY <1>0, <2>2, <3>1 DEF Stamped
  <2> QED BY <2>1, <2>3, <2>4 DEF Stamped
<1> QED BY <1>1, <1>2, <1>3, <1>4, <1>5, OwnStep

\* An item stays behind the worker that sent it.
LEMMA BehindNext ==
  ASSUME SendInv, SendStep, Typed', NEW w \in Entities, NEW item \in Items, Behind(item, w)
  PROVE  Behind(item, w)'
<1>0. /\ Typed /\ Taken(w) \in Int /\ Taken(w)' \in Int /\ item.from.parent \in Nat /\ Taken(w) <= Taken(w)'
      /\ EntityInv(w) /\ current[w].id \in Nat
  <2>1. Typed /\ EntityInv(w)
    BY DEF SendInv, IInv
  <2>2. accepted'[w] \in Nat /\ queue'[w] \in Seq(Items)
    BY DEF Typed
  <2>3. Taken(w)' \in Int
    BY <2>2, LenProperties DEF Taken
  <2> QED BY <2>1, <2>3, Numbers2, Progress, FieldTypes, OriginTypes
<1>1. item.from.parent <= Taken(w)'
  BY <1>0 DEF Behind
<1>2. CASE Placed(w)
  BY <1>1, <1>2 DEF Placed, Behind
<1>3. CASE Picks(w)
  <2>1. item.from.parent < current'[w].id
    BY <1>0, <1>3 DEF Picks, Behind
  <2> QED BY <1>1, <1>3, <2>1 DEF Picks, Behind
<1>4. CASE Stages(w)
  BY <1>1, <1>4 DEF Stages, Behind, Running, Committed
<1>5. CASE Passes(w)
  <2>1. item.from.parent # current'[w].id /\ ~Running(w)'
    BY <1>0, <1>5 DEF Passes, Behind, Running
  <2> QED BY <1>1, <2>1 DEF Behind
<1>6. CASE RollsBack(w) \/ Closes(w)
  BY <1>1, <1>6 DEF RollsBack, Closes, Behind, Running, Committed
<1>7. CASE Skips(w) \/ \E x \in Entities : Delivers(w, x)
  <2>1. /\ staged[w] # <<>> /\ staged'[w] = Tail(staged[w]) /\ current'[w] = current[w]
        /\ Committed(w) /\ ~Running(w)'
    BY <1>7 DEF Skips, Delivers, Committed, Running
  <2>2. \A i \in DOMAIN staged'[w] : staged'[w][i] = staged[w][i + 1] /\ i + 1 \in DOMAIN staged[w]
    BY <1>0, <2>1, TailOf
  <2> QED BY <1>1, <2>1, <2>2 DEF Behind
<1> QED BY <1>2, <1>3, <1>4, <1>5, <1>6, <1>7, OwnStep

\* The item a committed transaction has just sent.
LEMMA NewItem ==
  ASSUME SendInv, NEW w \in Entities, NEW e \in Entities, Delivers(w, e)
  PROVE  LET from == Head(staged[w]).from
         IN  /\ from.by = w /\ from.parent = current[w].id /\ from.pos \in Nat
             /\ Busy(w) /\ Committed(w) /\ ~Running(w)'
             /\ \A i \in DOMAIN staged'[w] : from.pos < staged'[w][i].from.pos
<1>1. /\ staged[w] # <<>> /\ staged'[w] = Tail(staged[w]) /\ phase[w] = "dispatch" /\ phase'[w] = "dispatch"
  BY DEF Delivers
<1>2. Typed /\ Stamped(w)
  BY DEF SendInv, IInv
<1>3. /\ 1 \in DOMAIN staged[w] /\ Head(staged[w]) = staged[w][1]
      /\ \A i \in DOMAIN staged'[w] : staged'[w][i] = staged[w][i + 1] /\ i + 1 \in DOMAIN staged[w] /\ i \in Nat
      /\ DOMAIN staged'[w] = 1 .. Len(staged[w]) - 1
  BY <1>1, <1>2, TailOf
<1>4. staged[w][1].from.pos \in Nat
  BY <1>2, <1>3, SendTypes, OriginTypes
<1>5. \A i \in DOMAIN staged'[w] : staged[w][1].from.pos < staged'[w][i].from.pos
  <2> SUFFICES ASSUME NEW i \in DOMAIN staged'[w] PROVE staged[w][1].from.pos < staged[w][i + 1].from.pos
    BY <1>3
  <2>1. 1 < i + 1
    BY <1>2, <1>3, Numbers2
  <2> QED BY <1>2, <1>3, <2>1 DEF Stamped
<1> QED BY <1>1, <1>2, <1>3, <1>4, <1>5 DEF Stamped, Busy, Committed, Running

\* Every item sent keeps its source.
LEMMA SourcedNext ==
  ASSUME SendInv, SendStep, Typed'
  PROVE  Sourced'
<1> SUFFICES ASSUME NEW e \in Entities, NEW w \in Entities, NEW item \in Sent(e)', item.from.by = w
             PROVE  Behind(item, w)'
  BY DEF Sourced
<1>0. Typed /\ "client" # w
  BY SendersAssumption DEF SendInv, IInv
<1>1. CASE item \in Sent(e)
  <2>1. item \in Items /\ Behind(item, w)
    BY <1>0, <1>1, SentTypes DEF SendInv, Sourced
  <2> QED BY <2>1, BehindNext
<1>2. CASE NewFor(e, item)
  <2>1. PICK v \in Entities : Delivers(v, e) /\ item.from = Head(staged[v]).from
    BY <1>2 DEF NewFor
  <2>2. /\ v = w /\ item.from.parent = current[w].id /\ Busy(w) /\ ~Running(w)'
        /\ \A i \in DOMAIN staged'[w] : item.from.pos < staged'[w][i].from.pos
    BY <2>1, NewItem
  <2>3. current[w].id <= Taken(w) /\ Taken(w) <= Taken(w)' /\ Taken(w) \in Int /\ current[w].id \in Nat
    BY <1>0, <2>2, Progress, Numbers2 DEF SendInv, IInv, EntityInv, Taken
  <2>4. Taken(w)' \in Int
    <3>1. accepted'[w] \in Nat /\ queue'[w] \in Seq(Items)
      BY DEF Typed
    <3> QED BY <3>1, LenProperties DEF Taken
  <2> QED BY <2>2, <2>3, <2>4 DEF Behind
<1> QED BY <1>0, <1>1, <1>2, SentStep

\* A worker between items has no current one.
LEMMA RestingNext ==
  ASSUME SendInv, SendStep
  PROVE  Resting'
<1> SUFFICES ASSUME NEW w \in Entities PROVE (~Busy(w) => current[w] = NoItem)'
  BY DEF Resting
<1>. ~Busy(w) => current[w] = NoItem
  BY DEF SendInv, Resting
<1> QED BY OwnStep DEF Placed, Picks, Stages, Passes, RollsBack, Closes, Skips, Delivers, Running, Committed, Busy

\* A transaction that was rolled back stays over.
LEMMA UndoneNext ==
  ASSUME SendInv, SendStep, Typed'
  PROVE  Undone'
<1> SUFFICES ASSUME NEW w \in Entities, NEW n \in Nat, <<w, n>> \in rolledBack'
             PROVE  n <= Taken(w)' /\ (Busy(w)' => n < current'[w].id)
  BY DEF Undone
<1>0. /\ Typed /\ EntityInv(w) /\ Taken(w) <= Taken(w)' /\ Taken(w) \in Int /\ current[w].id \in Nat
  BY Progress, Numbers2 DEF SendInv, IInv
<1>1. Taken(w)' \in Int
  <2>1. accepted'[w] \in Nat /\ queue'[w] \in Seq(Items)
    BY DEF Typed
  <2> QED BY <2>1, LenProperties DEF Taken
<1>2. CASE <<w, n>> \in rolledBack
  <2>1. n <= Taken(w) /\ (Busy(w) => n < current[w].id)
    BY <1>2 DEF SendInv, Undone
  <2>2. CASE Picks(w)
    BY <1>0, <1>1, <2>1, <2>2 DEF Picks
  <2>3. CASE ~Picks(w)
    <3>1. ~Busy(w)' \/ (Busy(w) /\ current'[w] = current[w])
      BY <2>3, OwnStep DEF Placed, Stages, Passes, RollsBack, Closes, Skips, Delivers, Running, Committed, Busy
    <3> QED BY <1>0, <1>1, <2>1, <3>1
  <2> QED BY <2>2, <2>3
<1>3. CASE <<w, n>> \notin rolledBack
  <2>1. PICK v \in Entities : RollsBack(v)
    BY <1>3 DEF SendStep, Aside, Picks, Stages, Passes, Closes, Skips, Enters, Delivers, News
  <2>2. v = w /\ n = current[w].id /\ Busy(w) /\ ~Busy(w)'
    BY <1>3, <2>1 DEF RollsBack, Busy
  <2> QED BY <1>0, <1>1, <2>2 DEF EntityInv, Taken
<1> QED BY <1>2, <1>3

\* Items of rolled back transactions do not arrive, and none that has arrived
\* is rolled back.
LEMMA RollbackNext ==
  ASSUME SendInv, SendStep
  PROVE  RollbackIsComplete'
<1> SUFFICES ASSUME NEW e \in Entities, NEW item \in Sent(e)', <<item.from.by, item.from.parent>> \in rolledBack'
             PROVE  FALSE
  BY DEF RollbackIsComplete
<1>0. Typed /\ "client" \notin Entities
  BY SendersAssumption DEF SendInv, IInv
<1>1. CASE \E v \in Entities : RollsBack(v)
  <2>1. PICK v \in Entities : RollsBack(v)
    BY <1>1
  <2>2. item \in Sent(e) \/ item.from.by = "client"
    BY <2>1 DEF RollsBack, NoNews, NoItem, FromClient
  <2>3. rolledBack' = rolledBack \cup {<<v, current[v].id>>} /\ Running(v)
    BY <2>1 DEF RollsBack, Running
  <2>4. rolledBack \subseteq Entities \X Nat
    BY <1>0 DEF Typed
  <2>5. item \in Sent(e)
    BY <1>0, <2>2, <2>3, <2>4
  <2>6. item.from.by = v /\ item.from.parent = current[v].id
    BY <2>3, <2>5 DEF SendInv, RollbackIsComplete
  <2>7. Behind(item, v)
    BY <2>5, <2>6 DEF SendInv, Sourced
  <2> QED BY <1>0, <2>3, <2>6, <2>7, Numbers2 DEF Behind
<1>2. CASE ~\E v \in Entities : RollsBack(v)
  <2>1. rolledBack' = rolledBack
    BY <1>2 DEF SendStep, Aside, Picks, Stages, Passes, Closes, Skips, Enters, Delivers, News
  <2>2. item \notin Sent(e)
    BY <2>1 DEF SendInv, RollbackIsComplete
  <2>3. item.from.by # "client"
    BY <1>0, <2>1 DEF Typed
  <2>4. NewFor(e, item)
    BY <2>2, <2>3, SentStep
  <2>5. PICK w \in Entities : Delivers(w, e) /\ item.from = Head(staged[w]).from
    BY <2>4 DEF NewFor
  <2>6. item.from.by = w /\ item.from.parent = current[w].id /\ Busy(w)
    BY <2>5, NewItem
  <2>7. current[w].id \in Nat
    BY <1>0, Numbers2
  <2> QED BY <2>1, <2>6, <2>7 DEF SendInv, Undone
<1> QED BY <1>1, <1>2

\* Sends of one item arrive in program order.
LEMMA OrderNext ==
  ASSUME SendInv, SendStep
  PROVE  ProgramOrder'
<1> SUFFICES ASSUME NEW e \in Entities, NEW a \in Sent(e)', NEW b \in Sent(e)',
                    a.from.by = b.from.by, a.from.by # "client",
                    a.from.parent = b.from.parent, a.from.pos < b.from.pos
             PROVE  a.id < b.id
  BY DEF ProgramOrder
<1>0. Typed /\ accepted[e] \in Nat
  BY Numbers2 DEF SendInv, IInv
<1>1. CASE a \in Sent(e) /\ b \in Sent(e)
  BY <1>1 DEF SendInv, ProgramOrder
<1>2. CASE a \in Sent(e) /\ NewFor(e, b)
  <2>1. a.id <= accepted[e] /\ a.id \in Nat
    BY <1>0, <1>2, SentBounded, SentTypes DEF SendInv
  <2>2. b.id = accepted[e] + 1
    BY <1>2 DEF NewFor
  <2> QED BY <1>0, <2>1, <2>2
<1>3. CASE b \in Sent(e) /\ NewFor(e, a)
  <2>1. PICK w \in Entities : Delivers(w, e) /\ a.from = Head(staged[w]).from
    BY <1>3 DEF NewFor
  <2>2. /\ a.from.by = w /\ a.from.parent = current[w].id /\ a.from.pos \in Nat /\ Committed(w)
        /\ staged[w] # <<>>
    BY <2>1, NewItem DEF Delivers
  <2>3. Behind(b, w) /\ b.from.parent = current[w].id
    BY <1>3, <2>2 DEF SendInv, Sourced
  <2>4. 1 \in DOMAIN staged[w] /\ Head(staged[w]) = staged[w][1]
    BY <1>0, <2>2, Numbers2
  <2>5. b.from.pos < a.from.pos /\ b.from.pos \in Nat
    BY <1>0, <1>3, <2>1, <2>2, <2>3, <2>4, SentTypes, OriginTypes DEF Behind
  <2> QED BY <2>2, <2>5
<1>4. CASE NewFor(e, a) /\ NewFor(e, b)
  <2>1. PICK v \in Entities : Delivers(v, e) /\ a.from = Head(staged[v]).from
    BY <1>4 DEF NewFor
  <2>2. PICK w \in Entities : Delivers(w, e) /\ b.from = Head(staged[w]).from
    BY <1>4 DEF NewFor
  <2>3. a.from.by = v /\ b.from.by = w /\ a.from.pos \in Nat
    BY <2>1, <2>2, NewItem
  <2>4. a.from.pos = b.from.pos
    BY <2>1, <2>2, <2>3
  <2> QED BY <2>3, <2>4
<1> QED BY <1>1, <1>2, <1>3, <1>4, SentStep

\* The inductive invariant of sends.
LEMMA SendInductive == Spec => []SendInv
<1>1. ASSUME SendInv, [Next]_vars PROVE SendInv'
  <2>1. IInv' /\ SendStep
    BY <1>1, IInvNext, SendSteps DEF SendInv
  <2>2. Typed'
    BY <2>1 DEF IInv
  <2>3. \A w \in Entities : Stamped(w)'
    BY <1>1, <2>1, StampedNext
  <2> QED
    BY <1>1, <2>1, <2>2, <2>3, RestingNext, SourcedNext, UndoneNext, RollbackNext, OrderNext DEF SendInv
<1> QED BY <1>1, SendInvInit, PTL DEF Spec

-----------------------------------------------------------------------------
(* Theorems.                                                               *)

\* The sends of a callback that failed or went stale are never accepted by
\* anybody: run() calls the staged actions only after the commit
\* (cell.hpp:222, process.hpp:150).
THEOREM RollbackIsCompleteHolds == Spec => []RollbackIsComplete
<1>1. SendInv => RollbackIsComplete
  BY DEF SendInv
<1> QED BY <1>1, SendInductive, PTL

\* What one callback sends to one target is accepted in program order, however
\* the sends of other threads come in between.
THEOREM ProgramOrderHolds == Spec => []ProgramOrder
<1>1. SendInv => ProgramOrder
  BY DEF SendInv
<1> QED BY <1>1, SendInductive, PTL

=============================================================================
