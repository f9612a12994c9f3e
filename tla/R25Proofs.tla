----------------------------- MODULE R25Proofs -----------------------------
(***************************************************************************)
(* Theorems about R25, for every set of Cells, Processes and Clients and   *)
(* every value of the bounds.                                              *)
(***************************************************************************)
EXTENDS R25, FiniteSetTheorems, SequenceTheorems, TLAPS

USE EntitiesAssumption, BoundsAssumption

-----------------------------------------------------------------------------
(* Types.                                                                  *)

\* The steps that retire items keep the counters typed only because of the
\* accounting invariants, so the type of pending is proved with them below.
Typed ==
  /\ awaiting \in [Clients -> Entities \cup {"all", "none"}]
  /\ asleep \in SUBSET Clients
  /\ queue \in [Entities -> Seq(Items)]
  /\ accepted \in [Entities -> Nat]
  /\ completed \in [Entities -> Nat]
  /\ phase \in [Entities -> Phases]
  /\ current \in [Entities -> Items]
  /\ staged \in [Entities -> Seq(Sends)]
  /\ terminate \in [Entities -> BOOLEAN]
  /\ status \in [Cells -> Statuses]
  /\ error \in [Cells -> BOOLEAN]
  /\ generation \in [Cells -> Nat]
  /\ state \in [Cells -> Values]
  /\ input \in [Cells -> Values]
  /\ failed \in [Processes -> BOOLEAN]
  /\ reason \in [Processes -> BOOLEAN]
  /\ roots \in Nat
  /\ terminated \in BOOLEAN
  /\ rolledBack \in SUBSET (Entities \X Nat)

\* The fields of an item.
LEMMA FieldTypes ==
  ASSUME NEW item \in Items
  PROVE  item.id \in Nat /\ item.gen \in Nat /\ item.from \in Origins
BY DEF Items

\* What a client sends, and the absence of an item, are typed.
LEMMA ClientOrigin == FromClient \in Origins /\ NoItem \in Items
BY DEF Origins, FromClient, NoItem, Items, Senders

\* A fresh value is a value.
LEMMA FreshType == ASSUME NEW n \in Nat PROVE Fresh(n) \in Values
BY DEF Fresh, Values

\* The types at first.
LEMMA TypedInit == Init => Typed
<1> SUFFICES ASSUME Init PROVE Typed
  OBVIOUS
<1>1. Fresh(0) \in Values /\ NoItem \in Items
  BY ClientOrigin, FreshType
<1>2. QuiescenceInit => awaiting \in [Clients -> Entities \cup {"all", "none"}] /\ asleep \in SUBSET Clients
  BY DEF QuiescenceInit
<1>3. MailboxInit =>
        /\ queue \in [Entities -> Seq(Items)]
        /\ accepted \in [Entities -> Nat]
        /\ completed \in [Entities -> Nat]
        /\ phase \in [Entities -> Phases]
        /\ current \in [Entities -> Items]
        /\ staged \in [Entities -> Seq(Sends)]
        /\ terminate \in [Entities -> BOOLEAN]
  BY <1>1 DEF MailboxInit, Phases
<1>4. CellInit =>
        /\ status \in [Cells -> Statuses]
        /\ error \in [Cells -> BOOLEAN]
        /\ generation \in [Cells -> Nat]
        /\ state \in [Cells -> Values]
        /\ input \in [Cells -> Values]
  BY <1>1 DEF CellInit, Statuses
<1> QED BY <1>2, <1>3, <1>4 DEF Init, ProcessInit, Typed

\* An admission appends a typed item.
LEMMA AdmitType ==
  ASSUME Typed, NEW e \in Entities, NEW gen \in Nat, NEW from \in Origins, Admit(e, gen, from)
  PROVE  queue' \in [Entities -> Seq(Items)] /\ accepted' \in [Entities -> Nat]
<1>1. [id |-> accepted[e] + 1, gen |-> gen, from |-> from] \in Items
  BY DEF Typed, Items
<1> QED BY <1>1 DEF Typed, Admit

\* Waking the workers of an entity leaves phases.
LEMMA NotifiedType ==
  ASSUME Typed, NEW e \in Entities PROVE Notified(e) \in [Entities -> Phases]
BY DEF Typed, Notified, Phases

\* Every step keeps the types.
LEMMA TypedNext == Typed /\ [Next]_vars => Typed'
<1> SUFFICES ASSUME Typed, [Next]_vars PROVE Typed'
  OBVIOUS
<1>. USE DEF Typed
<1>1. ASSUME NEW e \in Entities, RootSend(e) PROVE Typed'
  <2>1. CASE e \in Cells /\ CellAdmit(e, FromClient) /\ UNCHANGED processVars
    <3>1. queue' \in [Entities -> Seq(Items)] /\ accepted' \in [Entities -> Nat]
      BY <2>1, AdmitType, ClientOrigin DEF CellAdmit
    <3>2. phase' \in [Entities -> Phases]
      BY <2>1, NotifiedType DEF CellAdmit
    <3>3. UNCHANGED <<status, error, generation, state, input, failed, reason>>
      BY <2>1 DEF CellAdmit, cellVars, processVars
    <3>4. UNCHANGED <<awaiting, asleep, completed, current, staged, terminate>>
      BY <1>1 DEF RootSend
    <3>5. UNCHANGED <<terminated, rolledBack>> /\ roots' \in Nat
      BY <1>1 DEF RootSend
    <3>6. /\ awaiting' \in [Clients -> Entities \cup {"all", "none"}]
          /\ asleep' \in SUBSET Clients
          /\ completed' \in [Entities -> Nat]
          /\ current' \in [Entities -> Items]
          /\ staged' \in [Entities -> Seq(Sends)]
          /\ terminate' \in [Entities -> BOOLEAN]
      BY <3>4
    <3>7. /\ status' \in [Cells -> Statuses]
          /\ error' \in [Cells -> BOOLEAN]
          /\ generation' \in [Cells -> Nat]
          /\ state' \in [Cells -> Values]
          /\ input' \in [Cells -> Values]
          /\ failed' \in [Processes -> BOOLEAN]
          /\ reason' \in [Processes -> BOOLEAN]
      BY <3>3
    <3>8. terminated' \in BOOLEAN /\ rolledBack' \in SUBSET (Entities \X Nat)
      BY <3>5
    <3> QED BY <3>1, <3>2, <3>5, <3>6, <3>7, <3>8
  <2>2. CASE e \in Processes /\ ProcessAdmit(e, FromClient) /\ UNCHANGED cellVars
    <3>1. queue' \in [Entities -> Seq(Items)] /\ accepted' \in [Entities -> Nat]
      BY <2>2, AdmitType, ClientOrigin DEF ProcessAdmit
    <3>2. phase' \in [Entities -> Phases]
      BY <2>2, NotifiedType DEF ProcessAdmit
    <3>3. UNCHANGED <<status, error, generation, state, input, failed, reason>>
      BY <2>2 DEF ProcessAdmit, cellVars, processVars
    <3>4. UNCHANGED <<awaiting, asleep, completed, current, staged, terminate>>
      BY <1>1 DEF RootSend
    <3>5. UNCHANGED <<terminated, rolledBack>> /\ roots' \in Nat
      BY <1>1 DEF RootSend
    <3>6. /\ awaiting' \in [Clients -> Entities \cup {"all", "none"}]
          /\ asleep' \in SUBSET Clients
          /\ completed' \in [Entities -> Nat]
          /\ current' \in [Entities -> Items]
          /\ staged' \in [Entities -> Seq(Sends)]
          /\ terminate' \in [Entities -> BOOLEAN]
      BY <3>4
    <3>7. /\ status' \in [Cells -> Statuses]
          /\ error' \in [Cells -> BOOLEAN]
          /\ generation' \in [Cells -> Nat]
          /\ state' \in [Cells -> Values]
          /\ input' \in [Cells -> Values]
          /\ failed' \in [Processes -> BOOLEAN]
          /\ reason' \in [Processes -> BOOLEAN]
      BY <3>3
    <3>8. terminated' \in BOOLEAN /\ rolledBack' \in SUBSET (Entities \X Nat)
      BY <3>5
    <3> QED BY <3>1, <3>2, <3>5, <3>6, <3>7, <3>8
  <2> QED BY <1>1, <2>1, <2>2 DEF RootSend
<1>2. ASSUME NEW e \in Entities, DestroyEntity(e) PROVE Typed'
  BY <1>2 DEF DestroyEntity, Terminate, Notified, Phases, quiescenceVars, cellVars, processVars, boundVars
<1>3. ASSUME NEW e \in Entities, JoinWorker(e) PROVE Typed'
  BY <1>3 DEF JoinWorker, Join, cellVars, processVars, boundVars
<1>4. ASSUME NEW c \in Cells, StopCell(c) PROVE Typed'
  BY <1>4 DEF StopCell, Stop, Notified, Phases, Statuses, quiescenceVars, processVars, boundVars, Entities
<1>5. ASSUME NEW c \in Cells, RestartCell(c) PROVE Typed'
  BY <1>5, FreshType DEF RestartCell, Restart, Reopen, Settle, Notified, Phases, Statuses, processVars, boundVars, Entities
<1>6. ASSUME NEW c \in Cells, CellWorker(c) PROVE Typed'
  <2>1. CASE CellSleep(c) /\ UNCHANGED <<processVars, roots, terminated, rolledBack>>
    BY <2>1 DEF CellSleep, Sleep, Phases, quiescenceVars, cellVars, processVars, Entities
  <2>2. CASE CellExit(c) /\ UNCHANGED <<processVars, roots, terminated, rolledBack>>
    BY <2>2 DEF CellExit, Exit, Phases, quiescenceVars, cellVars, processVars, Entities
  <2>3. CASE CellDequeue(c) /\ UNCHANGED <<processVars, roots, terminated, rolledBack>>
    BY <2>3 DEF CellDequeue, Dequeue, Phases, quiescenceVars, cellVars, processVars, Entities
  <2>4. CASE ReadState(c) /\ UNCHANGED <<processVars, roots, terminated, rolledBack>>
    BY <2>4 DEF ReadState, Phases, quiescenceVars, processVars, Entities
  <2>5. CASE CommitUpdate(c) /\ UNCHANGED <<processVars, roots, terminated, rolledBack>>
    <3>1. Replacement(c) \in Values
      BY DEF Replacement, Values, Entities
    <3> QED BY <2>5, <3>1 DEF CommitUpdate, Store, Phases, processVars, Entities
  <2>6. CASE DiscardStale(c) /\ rolledBack' = rolledBack \cup {<<c, current[c].id>>} /\ UNCHANGED <<processVars, roots, terminated>>
    <3>1. rolledBack' \in SUBSET (Entities \X Nat)
      BY <2>6, FieldTypes DEF Entities
    <3>2. completed' \in [Entities -> Nat] /\ asleep' \in SUBSET Clients
      BY <2>6 DEF DiscardStale, Settle, Entities
    <3>3. /\ current' \in [Entities -> Items]
          /\ staged' \in [Entities -> Seq(Sends)]
          /\ phase' \in [Entities -> Phases]
      BY <2>6, ClientOrigin DEF DiscardStale, EndTransaction, Phases, Entities
    <3>4. UNCHANGED <<awaiting, accepted, terminate, queue, status, error, generation, state, input>>
      BY <2>6 DEF DiscardStale, EndTransaction, cellVars
    <3>5. UNCHANGED <<failed, reason, roots, terminated>>
      BY <2>6 DEF processVars
    <3> QED BY <3>1, <3>2, <3>3, <3>4, <3>5
  <2>7. CASE FailUpdate(c) /\ rolledBack' = rolledBack \cup {<<c, current[c].id>>} /\ UNCHANGED <<processVars, roots, terminated>>
    <3>1. rolledBack' \in SUBSET (Entities \X Nat)
      BY <2>7, FieldTypes DEF Entities
    <3>2. completed' \in [Entities -> Nat] /\ asleep' \in SUBSET Clients
      BY <2>7 DEF FailUpdate, Fail, Settle, Entities
    <3>3. /\ current' \in [Entities -> Items]
          /\ staged' \in [Entities -> Seq(Sends)]
          /\ phase' \in [Entities -> Phases]
      BY <2>7, ClientOrigin DEF FailUpdate, Fail, EndTransaction, Phases, Entities
    <3>4. queue' \in [Entities -> Seq(Items)]
      BY <2>7 DEF FailUpdate, Fail, Entities
    <3>5. status' \in [Cells -> Statuses] /\ error' \in [Cells -> BOOLEAN]
      BY <2>7 DEF FailUpdate, Fail, Statuses
    <3>6. UNCHANGED <<awaiting, accepted, terminate, generation, state, input>>
      BY <2>7 DEF FailUpdate, Fail, EndTransaction
    <3>7. UNCHANGED <<failed, reason, roots, terminated>>
      BY <2>7 DEF processVars
    <3> QED BY <3>1, <3>2, <3>3, <3>4, <3>5, <3>6, <3>7
  <2> QED BY <1>6, <2>1, <2>2, <2>3, <2>4, <2>5, <2>6, <2>7 DEF CellWorker
<1>7. ASSUME NEW p \in Processes, ProcessWorker(p) PROVE Typed'
  <2>1. CASE ProcessSleep(p) /\ UNCHANGED <<cellVars, roots, terminated, rolledBack>>
    BY <2>1 DEF ProcessSleep, Sleep, Phases, quiescenceVars, cellVars, processVars, Entities
  <2>2. CASE ProcessExit(p) /\ UNCHANGED <<cellVars, roots, terminated, rolledBack>>
    BY <2>2 DEF ProcessExit, Exit, Phases, quiescenceVars, cellVars, processVars, Entities
  <2>3. CASE ProcessDequeue(p) /\ UNCHANGED <<cellVars, roots, terminated, rolledBack>>
    BY <2>3 DEF ProcessDequeue, Dequeue, Phases, quiescenceVars, cellVars, processVars, Entities
  <2>4. CASE CommitHandler(p) /\ UNCHANGED <<cellVars, roots, terminated, rolledBack>>
    BY <2>4 DEF CommitHandler, Phases, cellVars, processVars, Entities
  <2>5. CASE FailHandler(p) /\ rolledBack' = rolledBack \cup {<<p, current[p].id>>} /\ UNCHANGED <<cellVars, roots, terminated>>
    <3>1. rolledBack' \in SUBSET (Entities \X Nat)
      BY <2>5, FieldTypes DEF Entities
    <3>2. completed' \in [Entities -> Nat] /\ asleep' \in SUBSET Clients
      BY <2>5 DEF FailHandler, Settle, Entities
    <3>3. /\ current' \in [Entities -> Items]
          /\ staged' \in [Entities -> Seq(Sends)]
          /\ phase' \in [Entities -> Phases]
      BY <2>5, ClientOrigin DEF FailHandler, Phases, Entities
    <3>4. queue' \in [Entities -> Seq(Items)]
      BY <2>5 DEF FailHandler, Entities
    <3>5. failed' \in [Processes -> BOOLEAN] /\ reason' \in [Processes -> BOOLEAN]
      BY <2>5 DEF FailHandler
    <3>6. UNCHANGED <<awaiting, accepted, terminate, status, error, generation, state, input, roots, terminated>>
      BY <2>5 DEF FailHandler, cellVars
    <3> QED BY <3>1, <3>2, <3>3, <3>4, <3>5, <3>6
  <2> QED BY <1>7, <2>1, <2>2, <2>3, <2>4, <2>5 DEF ProcessWorker
<1>8. ASSUME NEW e \in Entities, NEW target \in Entities, Stage(e, target) PROVE Typed'
  <2>1. Origin(e) \in Origins
    BY DEF Origin, Origins, Senders, Items
  <2>2. [to |-> target, from |-> Origin(e)] \in Sends
    BY <2>1 DEF Sends
  <2>3. staged' \in [Entities -> Seq(Sends)]
    BY <1>8, <2>2 DEF Stage, StageSend
  <2>4. /\ UNCHANGED <<awaiting, asleep, queue, accepted, completed, phase, current, terminate>>
        /\ UNCHANGED <<status, error, generation, state, input, failed, reason, roots, terminated, rolledBack>>
    BY <1>8 DEF Stage, StageSend, quiescenceVars, cellVars, processVars, boundVars
  <2> QED BY <2>3, <2>4
<1>9. ASSUME NEW e \in Entities, Dispatch(e) PROVE Typed'
  <2>1. CASE DispatchAdmitted(e)
    <3>1. Head(staged[e]) \in Sends /\ Tail(staged[e]) \in Seq(Sends)
      BY <2>1 DEF DispatchAdmitted, Dispatching
    <3>2. PICK send \in Sends : send = Head(staged[e])
      BY <3>1
    <3>3. send.to \in Entities /\ send.from \in Origins
      BY DEF Sends
    <3>4. CASE send.to \in Cells /\ CellAdmit(send.to, send.from) /\ UNCHANGED processVars
      <4>1. queue' \in [Entities -> Seq(Items)] /\ accepted' \in [Entities -> Nat]
        BY <3>3, <3>4, AdmitType DEF CellAdmit
      <4>2. phase' \in [Entities -> Phases]
        BY <3>3, <3>4, NotifiedType DEF CellAdmit
      <4> QED BY <2>1, <3>1, <3>4, <4>1, <4>2 DEF DispatchAdmitted, CellAdmit, cellVars, processVars, boundVars
    <3>5. CASE send.to \in Processes /\ ProcessAdmit(send.to, send.from) /\ UNCHANGED cellVars
      <4>1. queue' \in [Entities -> Seq(Items)] /\ accepted' \in [Entities -> Nat]
        BY <3>3, <3>5, AdmitType DEF ProcessAdmit
      <4>2. phase' \in [Entities -> Phases]
        BY <3>3, <3>5, NotifiedType DEF ProcessAdmit
      <4> QED BY <2>1, <3>1, <3>5, <4>1, <4>2 DEF DispatchAdmitted, ProcessAdmit, cellVars, processVars, boundVars
    <3> QED BY <2>1, <3>2, <3>4, <3>5 DEF DispatchAdmitted, Deliver
  <2>2. CASE DispatchRefused(e)
    BY <2>2 DEF DispatchRefused, Dispatching, quiescenceVars, cellVars, processVars, boundVars
  <2>3. CASE DispatchThrows(e)
    BY <2>3 DEF DispatchThrows, quiescenceVars, mailboxVars, cellVars, processVars, boundVars
  <2> QED BY <1>9, <2>1, <2>2, <2>3 DEF Dispatch
<1>10. ASSUME NEW e \in Entities, RetireItem(e) PROVE Typed'
  BY <1>10, ClientOrigin DEF RetireItem, Retire, Settle, Phases, cellVars, processVars, boundVars
<1>11. ASSUME NEW t \in Clients, Recheck(t) PROVE Typed'
  BY <1>11 DEF Recheck, mailboxVars, cellVars, processVars, boundVars
<1>12. ASSUME NEW t \in Clients, NEW on \in Entities \cup {"all"}, BeginAwait(t, on) PROVE Typed'
  BY <1>12 DEF BeginAwait, mailboxVars, cellVars, processVars, boundVars
<1>13. CASE UNCHANGED vars
  BY <1>13 DEF vars, quiescenceVars, mailboxVars, cellVars, processVars, boundVars
<1> QED BY <1>1, <1>2, <1>3, <1>4, <1>5, <1>6, <1>7, <1>8, <1>9, <1>10, <1>11, <1>12, <1>13 DEF Next

-----------------------------------------------------------------------------
(* Accounting.  Every step does one of six things to the work of at most   *)
(* one entity; the invariant is preserved by each kind, and the theorem    *)
(* that R25 implements CausalWork uses the same classification.            *)

Ids(e) == {<<e, queue[e][i].id>> : i \in DOMAIN queue[e]}

BusyKept(S) == \A x \in S : Busy(x)' <=> Busy(x)

\* A thread starts to wait, or finds that its wait is over.
Waits ==
  \/ \E t \in Clients, on \in Entities \cup {"all"} :
       awaiting[t] = "none" /\ awaiting' = [awaiting EXCEPT ![t] = on]
  \/ \E t \in Clients :
       /\ awaiting[t] # "none"
       /\ IdleFor(awaiting[t])
       /\ awaiting' = [awaiting EXCEPT ![t] = "none"]

\* Nothing happens to the work of anybody.
Keeps ==
  /\ UNCHANGED <<pending, queue, accepted, completed, current, roots>>
  /\ UNCHANGED awaiting \/ Waits
  /\ BusyKept(Entities)

\* A new item joins e's queue, sent by a client or by running work.
Opens(e) ==
  /\ \E gen \in Nat, from \in Origins : Admit(e, gen, from)
  /\ \/ roots < MaxRoots /\ roots' = roots + 1
     \/ UNCHANGED roots /\ \E x \in Entities : Busy(x)
  /\ UNCHANGED <<completed, current, awaiting>>
  /\ BusyKept(Entities)

\* e's oldest item becomes the running one.
Takes(e) ==
  /\ queue[e] # <<>>
  /\ ~Busy(e)
  /\ Busy(e)'
  /\ current' = [current EXCEPT ![e] = Head(queue[e])]
  /\ queue' = [queue EXCEPT ![e] = Tail(@)]
  /\ UNCHANGED <<pending, accepted, completed>>
  /\ UNCHANGED <<roots, awaiting>>
  /\ BusyKept(Entities \ {e})

\* e's running item is finished.
Retires(e) ==
  /\ Busy(e)
  /\ ~Busy(e)'
  /\ current' = [current EXCEPT ![e] = NoItem]
  /\ completed' = [completed EXCEPT ![e] = @ + 1]
  /\ pending' = pending - 1
  /\ UNCHANGED <<queue, accepted>>
  /\ UNCHANGED <<roots, awaiting>>
  /\ BusyKept(Entities \ {e})

\* e's queue is discarded.
Drops(e) ==
  /\ queue' = [queue EXCEPT ![e] = <<>>]
  /\ completed' = [completed EXCEPT ![e] = @ + Len(queue[e])]
  /\ pending' = pending - Len(queue[e])
  /\ UNCHANGED <<accepted, current>>
  /\ UNCHANGED <<roots, awaiting>>
  /\ BusyKept(Entities)

\* e's running item is finished and its queue discarded.
RetiresAll(e) ==
  /\ Busy(e)
  /\ ~Busy(e)'
  /\ current' = [current EXCEPT ![e] = NoItem]
  /\ queue' = [queue EXCEPT ![e] = <<>>]
  /\ completed' = [completed EXCEPT ![e] = @ + (1 + Len(queue[e]))]
  /\ pending' = pending - (1 + Len(queue[e]))
  /\ UNCHANGED accepted
  /\ UNCHANGED <<roots, awaiting>>
  /\ BusyKept(Entities \ {e})

AnyKind(e) == Opens(e) \/ Takes(e) \/ Retires(e) \/ Drops(e) \/ RetiresAll(e)

\* Every step is, for each entity, one of a few kinds.
LEMMA Kinds ==
  ASSUME Typed, [Next]_vars
  PROVE  Keeps \/ \E e \in Entities : AnyKind(e)
<1>. USE DEF Typed, AnyKind, BusyKept, Busy
<1>1. ASSUME NEW e \in Entities, RootSend(e) PROVE Opens(e)
  <2>1. CASE e \in Cells /\ CellAdmit(e, FromClient)
    BY <1>1, <2>1, ClientOrigin DEF RootSend, Opens, CellAdmit, Notified
  <2>2. CASE e \in Processes /\ ProcessAdmit(e, FromClient)
    BY <1>1, <2>2, ClientOrigin DEF RootSend, Opens, ProcessAdmit, Notified
  <2> QED BY <1>1, <2>1, <2>2 DEF RootSend
<1>2. ASSUME NEW e \in Entities, DestroyEntity(e) PROVE Keeps
  BY <1>2 DEF DestroyEntity, boundVars, Terminate, Notified, Keeps, quiescenceVars
<1>3. ASSUME NEW e \in Entities, JoinWorker(e) PROVE Drops(e)
  BY <1>3 DEF JoinWorker, boundVars, Join, Drops, Complete
<1>4. ASSUME NEW c \in Cells, StopCell(c) PROVE Keeps
  BY <1>4 DEF StopCell, boundVars, Stop, Notified, Keeps, quiescenceVars, Entities
<1>5. ASSUME NEW c \in Cells, RestartCell(c) PROVE Drops(c)
  BY <1>5 DEF RestartCell, boundVars, Restart, Reopen, Settle, Notified, Drops, Complete, Entities
<1>6. ASSUME NEW c \in Cells, CellWorker(c) PROVE Keeps \/ AnyKind(c)
  <2>1. CASE CellSleep(c)
    BY <1>6, <2>1 DEF CellWorker, CellSleep, Sleep, Keeps, quiescenceVars, boundVars, Entities
  <2>2. CASE CellExit(c)
    BY <1>6, <2>2 DEF CellWorker, CellExit, Exit, Keeps, quiescenceVars, boundVars, Entities
  <2>3. CASE CellDequeue(c)
    BY <1>6, <2>3 DEF CellWorker, CellDequeue, Dequeue, Takes, quiescenceVars, Entities
  <2>4. CASE ReadState(c)
    BY <1>6, <2>4 DEF CellWorker, ReadState, Keeps, quiescenceVars, boundVars, Entities
  <2>5. CASE CommitUpdate(c)
    BY <1>6, <2>5 DEF CellWorker, CommitUpdate, Store, Keeps, Entities
  <2>6. CASE DiscardStale(c)
    BY <1>6, <2>6 DEF CellWorker, DiscardStale, EndTransaction, Settle, Complete, Retires, Entities
  <2>7. CASE FailUpdate(c)
    BY <1>6, <2>7 DEF CellWorker, FailUpdate, Fail, EndTransaction, Settle, Complete, RetiresAll, Entities
  <2> QED BY <1>6, <2>1, <2>2, <2>3, <2>4, <2>5, <2>6, <2>7 DEF CellWorker
<1>7. ASSUME NEW p \in Processes, ProcessWorker(p) PROVE Keeps \/ AnyKind(p)
  <2>1. CASE ProcessSleep(p)
    BY <1>7, <2>1 DEF ProcessWorker, ProcessSleep, Sleep, Keeps, quiescenceVars, boundVars, Entities
  <2>2. CASE ProcessExit(p)
    BY <1>7, <2>2 DEF ProcessWorker, ProcessExit, Exit, Keeps, quiescenceVars, boundVars, Entities
  <2>3. CASE ProcessDequeue(p)
    BY <1>7, <2>3 DEF ProcessWorker, ProcessDequeue, Dequeue, Takes, quiescenceVars, Entities
  <2>4. CASE CommitHandler(p)
    BY <1>7, <2>4 DEF ProcessWorker, CommitHandler, Keeps, Entities
  <2>5. CASE FailHandler(p)
    BY <1>7, <2>5 DEF ProcessWorker, FailHandler, Settle, Complete, RetiresAll, Entities
  <2> QED BY <1>7, <2>1, <2>2, <2>3, <2>4, <2>5 DEF ProcessWorker
<1>8. ASSUME NEW e \in Entities, NEW target \in Entities, Stage(e, target) PROVE Keeps
  BY <1>8 DEF Stage, StageSend, Keeps, quiescenceVars, boundVars
<1>9. ASSUME NEW e \in Entities, Dispatch(e) PROVE Keeps \/ \E x \in Entities : Opens(x)
  <2>1. CASE DispatchAdmitted(e)
    <3>1. PICK send \in Sends : send = Head(staged[e])
      BY <2>1 DEF DispatchAdmitted, Dispatching
    <3>2. send.to \in Entities /\ send.from \in Origins
      BY DEF Sends
    <3>3. CASE send.to \in Cells /\ CellAdmit(send.to, send.from)
      BY <2>1, <3>2, <3>3 DEF DispatchAdmitted, Dispatching, boundVars, Opens, CellAdmit, Notified
    <3>4. CASE send.to \in Processes /\ ProcessAdmit(send.to, send.from)
      BY <2>1, <3>2, <3>4 DEF DispatchAdmitted, Dispatching, boundVars, Opens, ProcessAdmit, Notified
    <3> QED BY <2>1, <3>1, <3>2, <3>3, <3>4 DEF DispatchAdmitted, Deliver
  <2>2. CASE DispatchRefused(e)
    BY <2>2 DEF DispatchRefused, Keeps, quiescenceVars, boundVars
  <2>3. CASE DispatchThrows(e)
    BY <2>3 DEF DispatchThrows, Keeps, quiescenceVars, boundVars, mailboxVars
  <2> QED BY <1>9, <2>1, <2>2, <2>3 DEF Dispatch
<1>10. ASSUME NEW e \in Entities, RetireItem(e) PROVE Retires(e)
  BY <1>10 DEF RetireItem, boundVars, Retire, Settle, Complete, Retires
<1>11. ASSUME NEW t \in Clients, Recheck(t) PROVE Keeps
  BY <1>11 DEF Recheck, Keeps, Waits, mailboxVars, boundVars
<1>12. ASSUME NEW t \in Clients, NEW on \in Entities \cup {"all"}, BeginAwait(t, on) PROVE Keeps
  BY <1>12 DEF BeginAwait, Keeps, Waits, mailboxVars, boundVars
<1>13. CASE UNCHANGED vars
  BY <1>13 DEF vars, Keeps, quiescenceVars, mailboxVars, boundVars
<1>14. Cells \subseteq Entities /\ Processes \subseteq Entities
  BY DEF Entities
<1> QED
  BY <1>1, <1>2, <1>3, <1>4, <1>5, <1>6, <1>7, <1>8, <1>9, <1>10, <1>11, <1>12, <1>13, <1>14 DEF Next

-----------------------------------------------------------------------------
(* The invariant of one entity.                                            *)

\* Every item has a number of its own, in admission order, and the counters
\* differ by what the entity holds.
EntityInv(e) ==
  /\ \A i \in DOMAIN queue[e] : queue[e][i].id = accepted[e] - Len(queue[e]) + i
  /\ Busy(e) => current[e].id <= accepted[e] - Len(queue[e])
  /\ accepted[e] - completed[e] = Len(queue[e]) + InFlight(e)
  /\ completed[e] <= accepted[e]

\* The counters of a new entity agree.
LEMMA EntityInvInit == Init => \A e \in Entities : EntityInv(e)
BY DEF Init, MailboxInit, EntityInv, InFlight, Busy

\* The counters of an entity agree after every step.
LEMMA EntityInvNext ==
  ASSUME Typed, Typed', \A e \in Entities : EntityInv(e), [Next]_vars
  PROVE  \A e \in Entities : EntityInv(e)'
<1>1. ASSUME Keeps PROVE \A x \in Entities : EntityInv(x)'
  BY <1>1 DEF Keeps, BusyKept, EntityInv, InFlight
<1>2. ASSUME NEW e \in Entities, AnyKind(e), NEW x \in Entities, x # e PROVE EntityInv(x)'
  <2>1. /\ queue'[x] = queue[x]
        /\ accepted'[x] = accepted[x]
        /\ completed'[x] = completed[x]
        /\ current'[x] = current[x]
        /\ Busy(x)' <=> Busy(x)
    BY <1>2 DEF AnyKind, Opens, Takes, Retires, Drops, RetiresAll, Admit, BusyKept, Typed
  <2> QED BY <1>2, <2>1 DEF EntityInv, InFlight
<1>3. ASSUME NEW e \in Entities, AnyKind(e) PROVE EntityInv(e)'
  <2>. DEFINE q == queue[e]
              a == accepted[e]
  <2>1. q \in Seq(Items) /\ Len(q) \in Nat /\ a \in Nat /\ completed[e] \in Nat /\ current[e].id \in Nat
    BY FieldTypes DEF Typed
  <2>2. EntityInv(e)
    BY <1>3
  <2>3. CASE Opens(e)
    <3>1. PICK gen \in Nat, from \in Origins : Admit(e, gen, from)
      BY <2>3 DEF Opens
    <3>2. [id |-> a + 1, gen |-> gen, from |-> from] \in Items
      BY <2>1 DEF Items
    <3>3. PICK new \in Items : new = [id |-> a + 1, gen |-> gen, from |-> from]
      BY <3>2
    <3>4. queue'[e] = Append(q, new) /\ accepted'[e] = a + 1 /\ new.id = a + 1
      BY <3>1, <3>3 DEF Admit, Typed
    <3>5. completed'[e] = completed[e] /\ current'[e] = current[e] /\ (Busy(e)' <=> Busy(e))
      BY <2>3 DEF Opens, BusyKept
    <3>6. Len(queue'[e]) = Len(q) + 1 /\ DOMAIN queue'[e] = 1 .. Len(q) + 1
      BY <2>1, <3>4
    <3>7. \A i \in 1 .. Len(q) : queue'[e][i] = q[i]
      BY <2>1, <3>4
    <3>8. queue'[e][Len(q) + 1] = new
      BY <2>1, <3>4
    <3>9. \A i \in DOMAIN queue'[e] : queue'[e][i].id = accepted'[e] - Len(queue'[e]) + i
      <4>. SUFFICES ASSUME NEW i \in 1 .. Len(q) + 1
                    PROVE  queue'[e][i].id = a - Len(q) + i
        BY <2>1, <3>4, <3>6, SMTT(60)
      <4>1. CASE i = Len(q) + 1
        BY <2>1, <3>4, <3>8, <4>1
      <4>2. CASE i \in 1 .. Len(q)
        <5>1. i \in DOMAIN q
          BY <2>1, <4>2
        <5>2. q[i].id = a - Len(q) + i
          BY <2>2, <5>1 DEF EntityInv
        <5> QED BY <3>7, <4>2, <5>2
      <4> QED BY <2>1, <4>1, <4>2
    <3>10. InFlight(e)' = InFlight(e) /\ InFlight(e) \in {0, 1}
      BY <3>5 DEF InFlight
    <3>11. accepted[e] - completed[e] = Len(q) + InFlight(e) /\ completed[e] <= a
      BY <2>2 DEF EntityInv
    <3>12. accepted'[e] - completed'[e] = Len(queue'[e]) + InFlight(e)' /\ completed'[e] <= accepted'[e]
      BY <2>1, <3>4, <3>5, <3>6, <3>10, <3>11
    <3>13. Busy(e)' => current'[e].id <= accepted'[e] - Len(queue'[e])
      BY <2>1, <2>2, <3>4, <3>5, <3>6 DEF EntityInv
    <3> QED BY <3>9, <3>12, <3>13 DEF EntityInv
  <2>4. CASE Takes(e)
    <3>1. q # <<>> /\ ~Busy(e) /\ Busy(e)' /\ queue'[e] = Tail(q) /\ current'[e] = Head(q)
      BY <2>4 DEF Takes, Typed
    <3>2. accepted'[e] = a /\ completed'[e] = completed[e]
      BY <2>4 DEF Takes
    <3>3. /\ Len(q) > 0
          /\ Len(queue'[e]) = Len(q) - 1
          /\ \A i \in 1 .. Len(q) - 1 : queue'[e][i] = q[i + 1]
          /\ current'[e] = q[1]
          /\ DOMAIN queue'[e] = 1 .. Len(q) - 1
      BY <2>1, <3>1
    <3>4. \A i \in DOMAIN q : q[i].id = a - Len(q) + i
      BY <2>2 DEF EntityInv
    <3>5. current'[e].id = a - Len(q) + 1
      BY <2>1, <3>3, <3>4
    <3>6. \A i \in DOMAIN queue'[e] : queue'[e][i].id = a - Len(queue'[e]) + i
      <4>. SUFFICES ASSUME NEW i \in 1 .. Len(q) - 1
                    PROVE  q[i + 1].id = a - (Len(q) - 1) + i
        BY <3>3
      <4>1. i + 1 \in DOMAIN q /\ i \in Int
        BY <2>1
      <4>2. q[i + 1].id = a - Len(q) + (i + 1)
        BY <3>4, <4>1
      <4>3. \A l, m, j \in Int : m - l + (j + 1) = m - (l - 1) + j
        OBVIOUS
      <4>4. a - Len(q) + (i + 1) = a - (Len(q) - 1) + i
        BY <2>1, <4>1, <4>3
      <4> QED BY <4>2, <4>4, Zenon
    <3>7. InFlight(e) = 0 /\ InFlight(e)' = 1
      BY <3>1 DEF InFlight
    <3>8. a - completed[e] = Len(q) + InFlight(e) /\ completed[e] <= a
      BY <2>2 DEF EntityInv
    <3>9. accepted'[e] - completed'[e] = Len(queue'[e]) + InFlight(e)'
      BY <2>1, <3>2, <3>3, <3>7, <3>8
    <3>10. current'[e].id <= accepted'[e] - Len(queue'[e]) /\ completed'[e] <= accepted'[e]
      BY <2>1, <3>2, <3>3, <3>5, <3>8
    <3> QED BY <3>2, <3>6, <3>9, <3>10 DEF EntityInv
  <2>5. CASE Retires(e)
    BY <2>1, <2>2, <2>5 DEF Retires, Typed, EntityInv, InFlight
  <2>6. CASE Drops(e) \/ RetiresAll(e)
    <3>1. queue'[e] = <<>> /\ Len(queue'[e]) = 0 /\ DOMAIN queue'[e] = {} /\ accepted'[e] = a
      BY <2>6 DEF Drops, RetiresAll, Typed
    <3>2. CASE Drops(e)
      BY <2>1, <2>2, <3>1, <3>2 DEF Drops, BusyKept, Typed, EntityInv, InFlight
    <3>3. CASE RetiresAll(e)
      BY <2>1, <2>2, <3>1, <3>3 DEF RetiresAll, Typed, EntityInv, InFlight
    <3> QED BY <2>6, <3>2, <3>3
  <2> QED BY <1>3, <2>3, <2>4, <2>5, <2>6 DEF AnyKind
<1> QED BY <1>1, <1>2, <1>3, Kinds

-----------------------------------------------------------------------------
(* The shared counter.                                                     *)

\* n consecutive numbers of one entity name n things.
Numbers(e, a, n) == {<<e, a + i>> : i \in 1 .. n}

\* As many items as there are numbers.
LEMMA NumbersCount ==
  ASSUME NEW e, NEW a \in Int, NEW n \in Nat
  PROVE  IsFiniteSet(Numbers(e, a, n)) /\ Cardinality(Numbers(e, a, n)) = n
<1>. DEFINE S == {<<e, a + i>> : i \in 1 .. n}
            f == [i \in 1 .. n |-> <<e, a + i>>]
<1>1. f \in Bijection(1 .. n, S)
  <2>1. f \in [1 .. n -> S] /\ \A i \in 1 .. n : f[i] = <<e, a + i>>
    OBVIOUS
  <2>2. \A i, j \in 1 .. n : f[i] = f[j] => i = j
    BY <2>1
  <2>3. \A y \in S : \E i \in 1 .. n : f[i] = y
    BY <2>1
  <2> QED BY <2>1, <2>2, <2>3 DEF Bijection, Injection, IsInjective, Surjection
<1>2. ExistsBijection(1 .. n, S)
  BY <1>1 DEF ExistsBijection
<1>3. IsFiniteSet(1 .. n) /\ Cardinality(1 .. n) = n
  BY FS_Interval
<1> QED BY <1>2, <1>3, FS_Bijection DEF Numbers

\* The items of a queue are as many as the queue is long.
LEMMA IdsCount ==
  ASSUME Typed, NEW e \in Entities, EntityInv(e)
  PROVE  IsFiniteSet(Ids(e)) /\ Cardinality(Ids(e)) = Len(queue[e])
<1>. DEFINE n == Len(queue[e])
            a == accepted[e] - n
<1>1. n \in Nat /\ a \in Int /\ DOMAIN queue[e] = 1 .. n
  BY DEF Typed
<1>2. \A i \in 1 .. n : queue[e][i].id = a + i
  BY <1>1 DEF EntityInv
<1>3. Ids(e) = Numbers(e, a, n)
  BY <1>1, <1>2 DEF Ids, Numbers
<1> QED BY <1>1, <1>3, NumbersCount

\* Taking a finite part away subtracts its size.
LEMMA RemovePart ==
  ASSUME NEW S, IsFiniteSet(S), NEW D \in SUBSET S
  PROVE  /\ IsFiniteSet(S \ D) /\ IsFiniteSet(D)
         /\ Cardinality(S \ D) = Cardinality(S) - Cardinality(D)
<1>1. IsFiniteSet(S \ D) /\ IsFiniteSet(D)
  BY FS_Subset
<1>2. (S \ D) \cup D = S /\ (S \ D) \cap D = {}
  OBVIOUS
<1>3. Cardinality(S) = Cardinality(S \ D) + Cardinality(D) - Cardinality({})
  BY <1>1, <1>2, FS_Union
<1>4. Cardinality(S) \in Nat /\ Cardinality(D) \in Nat /\ Cardinality(S \ D) \in Nat /\ Cardinality({}) = 0
  BY <1>1, FS_CardinalityType, FS_EmptySet
<1> QED BY <1>1, <1>3, <1>4

\* What each kind of step does to the outstanding work.
LEMMA OutstandingNext ==
  ASSUME Typed, \A x \in Entities : EntityInv(x), NEW e \in Entities
  PROVE  /\ Keeps \/ Takes(e) => AllOutstanding' = AllOutstanding
         /\ Opens(e) => /\ AllOutstanding' = AllOutstanding \cup {<<e, accepted[e] + 1>>}
                        /\ <<e, accepted[e] + 1>> \notin AllOutstanding
         /\ Retires(e) => /\ AllOutstanding' = AllOutstanding \ {<<e, current[e].id>>}
                          /\ <<e, current[e].id>> \in AllOutstanding
         /\ Drops(e) => AllOutstanding' = AllOutstanding \ Ids(e)
         /\ RetiresAll(e) => /\ AllOutstanding' = AllOutstanding \ (Ids(e) \cup {<<e, current[e].id>>})
                             /\ <<e, current[e].id>> \in AllOutstanding \ Ids(e)
         /\ Ids(e) \subseteq AllOutstanding
<1>. DEFINE Running(x) == IF Busy(x) THEN {<<x, current[x].id>>} ELSE {}
            Others == UNION {Outstanding(x) : x \in Entities \ {e}}
<1>1. \A x : Outstanding(x) = Ids(x) \cup Running(x)
  BY DEF Outstanding, Ids
<1>2. /\ AllOutstanding = Outstanding(e) \cup Others
      /\ AllOutstanding' = Outstanding(e)' \cup Others'
  BY DEF AllOutstanding
<1>3. \A y \in Others : \A n : y # <<e, n>>
  BY DEF Outstanding
<1>4. \A y \in Ids(e) : y \notin Others
  BY <1>3 DEF Ids
<1>5. ASSUME Keeps PROVE AllOutstanding' = AllOutstanding
  BY <1>5 DEF Keeps, BusyKept, AllOutstanding, Outstanding
<1>6. ASSUME AnyKind(e) PROVE Others' = Others
  <2>. SUFFICES ASSUME NEW x \in Entities \ {e} PROVE Outstanding(x)' = Outstanding(x)
    OBVIOUS
  <2>1. queue'[x] = queue[x] /\ current'[x] = current[x] /\ (Busy(x)' <=> Busy(x))
    BY <1>6 DEF AnyKind, Opens, Takes, Retires, Drops, RetiresAll, Admit, BusyKept, Typed
  <2> QED BY <2>1 DEF Outstanding
<1>7. /\ Len(queue[e]) \in Nat /\ accepted[e] \in Nat /\ current[e].id \in Nat
      /\ DOMAIN queue[e] = 1 .. Len(queue[e])
      /\ \A i \in DOMAIN queue[e] : queue[e][i].id = accepted[e] - Len(queue[e]) + i
      /\ Busy(e) => current[e].id <= accepted[e] - Len(queue[e])
  BY FieldTypes DEF Typed, EntityInv
<1>8. \A n : <<e, n>> \in Outstanding(e) => n <= accepted[e]
  BY <1>7 DEF Outstanding
<1>9. Busy(e) => <<e, current[e].id>> \notin Ids(e)
  BY <1>7 DEF Ids
<1>10. ASSUME Takes(e) PROVE AllOutstanding' = AllOutstanding
  <2>1. /\ queue[e] # <<>> /\ ~Busy(e) /\ Busy(e)'
        /\ queue'[e] = Tail(queue[e]) /\ current'[e] = Head(queue[e])
    BY <1>10 DEF Takes, Typed
  <2>2. /\ current'[e] = queue[e][1]
        /\ DOMAIN queue'[e] = 1 .. Len(queue[e]) - 1
        /\ \A i \in 1 .. Len(queue[e]) - 1 : queue'[e][i] = queue[e][i + 1]
        /\ 1 \in DOMAIN queue[e]
    BY <2>1 DEF Typed
  <2>3. Outstanding(e)' = Ids(e)
    <3>1. ASSUME NEW y \in Outstanding(e)' PROVE y \in Ids(e)
      <4>1. CASE \E i \in DOMAIN queue'[e] : y = <<e, queue'[e][i].id>>
        <5>1. PICK i \in DOMAIN queue'[e] : y = <<e, queue'[e][i].id>>
          BY <4>1
        <5>2. i + 1 \in DOMAIN queue[e] /\ queue'[e][i] = queue[e][i + 1]
          BY <1>7, <2>2
        <5> QED BY <5>1, <5>2 DEF Ids
      <4>2. CASE y = <<e, current'[e].id>>
        BY <2>2, <4>2 DEF Ids
      <4> QED BY <3>1, <4>1, <4>2 DEF Outstanding
    <3>2. ASSUME NEW y \in Ids(e) PROVE y \in Outstanding(e)'
      <4>1. PICK i \in DOMAIN queue[e] : y = <<e, queue[e][i].id>>
        BY <3>2 DEF Ids
      <4>2. CASE i = 1
        BY <2>1, <2>2, <4>1, <4>2 DEF Outstanding
      <4>3. CASE i # 1
        <5>1. i - 1 \in DOMAIN queue'[e] /\ queue'[e][i - 1] = queue[e][i]
          BY <1>7, <2>2, <4>3
        <5> QED BY <4>1, <5>1 DEF Outstanding
      <4> QED BY <4>2, <4>3
    <3> QED BY <3>1, <3>2
  <2>4. Outstanding(e) = Ids(e)
    BY <1>1, <2>1
  <2> QED BY <1>2, <1>6, <1>10, <2>3, <2>4 DEF AnyKind
<1>11. ASSUME Opens(e)
       PROVE  /\ AllOutstanding' = AllOutstanding \cup {<<e, accepted[e] + 1>>}
              /\ <<e, accepted[e] + 1>> \notin AllOutstanding
  <2>1. PICK gen \in Nat, from \in Origins : Admit(e, gen, from)
    BY <1>11 DEF Opens
  <2>. DEFINE r == [id |-> accepted[e] + 1, gen |-> gen, from |-> from]
  <2>8. r \in Items
    BY <1>7 DEF Items
  <2>2. PICK new \in Items : new = r
    BY <2>8
  <2>3. queue'[e] = Append(queue[e], new) /\ new.id = accepted[e] + 1
    BY <2>1, <2>2 DEF Admit, Typed
  <2>4. current'[e] = current[e] /\ (Busy(e)' <=> Busy(e))
    BY <1>11 DEF Opens, BusyKept
  <2>5. /\ DOMAIN queue'[e] = DOMAIN queue[e] \cup {Len(queue[e]) + 1}
        /\ \A i \in DOMAIN queue[e] : queue'[e][i] = queue[e][i]
        /\ queue'[e][Len(queue[e]) + 1] = new
    BY <1>7, <2>3 DEF Typed
  <2>6. Outstanding(e)' = Outstanding(e) \cup {<<e, accepted[e] + 1>>}
    BY <2>3, <2>4, <2>5 DEF Outstanding
  <2>7. <<e, accepted[e] + 1>> \notin Outstanding(e)
    BY <1>7, <1>8
  <2> QED BY <1>2, <1>3, <1>6, <1>11, <2>6, <2>7 DEF AnyKind
<1>12. ASSUME Retires(e)
       PROVE  /\ AllOutstanding' = AllOutstanding \ {<<e, current[e].id>>}
              /\ <<e, current[e].id>> \in AllOutstanding
  <2>1. Outstanding(e)' = Ids(e) /\ Outstanding(e) = Ids(e) \cup {<<e, current[e].id>>} /\ Busy(e)
    BY <1>12 DEF Retires, Outstanding, Ids
  <2> QED BY <1>2, <1>3, <1>6, <1>9, <1>12, <2>1 DEF AnyKind
<1>13. ASSUME Drops(e) \/ RetiresAll(e) PROVE queue'[e] = <<>> /\ Ids(e)' = {}
  BY <1>13 DEF Drops, RetiresAll, Typed, Ids
<1>14. ASSUME Drops(e) PROVE AllOutstanding' = AllOutstanding \ Ids(e)
  <2>1. Outstanding(e)' = Running(e)
    <3>1. current'[e] = current[e] /\ (Busy(e)' <=> Busy(e)) /\ DOMAIN queue'[e] = {}
      BY <1>13, <1>14 DEF Drops, BusyKept
    <3> QED BY <3>1 DEF Outstanding
  <2>2. Outstanding(e) = Ids(e) \cup Running(e) /\ Running(e) \cap Ids(e) = {}
    BY <1>1, <1>9
  <2> QED BY <1>2, <1>4, <1>6, <1>14, <2>1, <2>2 DEF AnyKind
<1>15. ASSUME RetiresAll(e)
       PROVE  /\ AllOutstanding' = AllOutstanding \ (Ids(e) \cup {<<e, current[e].id>>})
              /\ <<e, current[e].id>> \in AllOutstanding \ Ids(e)
  <2>1. Outstanding(e)' = {}
    BY <1>13, <1>15 DEF RetiresAll, Outstanding, Ids
  <2>2. Outstanding(e) = Ids(e) \cup {<<e, current[e].id>>} /\ Busy(e)
    BY <1>1, <1>15 DEF RetiresAll
  <2> QED BY <1>2, <1>3, <1>4, <1>6, <1>9, <1>15, <2>1, <2>2 DEF AnyKind
<1>16. Ids(e) \subseteq AllOutstanding
  BY <1>1, <1>2
<1> QED BY <1>5, <1>10, <1>11, <1>12, <1>14, <1>15, <1>16

-----------------------------------------------------------------------------
(* The inductive invariant.                                                *)

\* A worker holds staged sends only inside a transaction.
StagedInside(e) == phase[e] \notin {"callback", "dispatch"} => staged[e] = <<>>

IInv ==
  /\ Typed
  /\ \A e \in Entities : EntityInv(e)
  /\ \A e \in Entities : StagedInside(e)
  /\ IsFiniteSet(AllOutstanding)
  /\ SharedAccounting

\* Sends stay staged only inside a callback or its dispatch.
LEMMA StagedInsideNext ==
  ASSUME Typed, \A e \in Entities : StagedInside(e), [Next]_vars
  PROVE  \A e \in Entities : StagedInside(e)'
<1>. SUFFICES ASSUME NEW e \in Entities PROVE StagedInside(e)'
  OBVIOUS
<1>. USE DEF Typed, StagedInside
<1>1. ASSUME NEW x \in Entities, RootSend(x) PROVE StagedInside(e)'
  BY <1>1 DEF RootSend, CellAdmit, ProcessAdmit, Notified
<1>2. ASSUME NEW x \in Entities, DestroyEntity(x) \/ JoinWorker(x) PROVE StagedInside(e)'
  <2>1. CASE DestroyEntity(x)
    BY <2>1 DEF DestroyEntity, Terminate, Notified
  <2>2. CASE JoinWorker(x)
    BY <2>2 DEF JoinWorker, Join
  <2> QED BY <1>2, <2>1, <2>2
<1>3. ASSUME NEW c \in Cells, StopCell(c) \/ RestartCell(c) PROVE StagedInside(e)'
  BY <1>3 DEF StopCell, Stop, RestartCell, Restart, Reopen, Notified
<1>4. ASSUME NEW c \in Cells, CellWorker(c) PROVE StagedInside(e)'
  <2>1. CASE CellSleep(c) \/ CellExit(c) \/ CellDequeue(c) \/ ReadState(c) \/ CommitUpdate(c)
    BY <2>1 DEF CellSleep, Sleep, CellExit, Exit, CellDequeue, Dequeue, ReadState, CommitUpdate, Store
  <2>2. CASE DiscardStale(c) \/ FailUpdate(c)
    BY <2>2 DEF DiscardStale, FailUpdate, Fail, EndTransaction
  <2> QED BY <1>4, <2>1, <2>2 DEF CellWorker
<1>5. ASSUME NEW p \in Processes, ProcessWorker(p) PROVE StagedInside(e)'
  BY <1>5 DEF ProcessWorker, ProcessSleep, Sleep, ProcessExit, Exit, ProcessDequeue, Dequeue, CommitHandler, FailHandler
<1>6. ASSUME NEW x \in Entities, NEW target \in Entities, Stage(x, target) PROVE StagedInside(e)'
  BY <1>6 DEF Stage, StageSend
<1>7. ASSUME NEW x \in Entities, Dispatch(x) PROVE StagedInside(e)'
  <2>1. CASE DispatchAdmitted(x)
    BY <2>1 DEF DispatchAdmitted, Dispatching, Deliver, CellAdmit, ProcessAdmit, Notified
  <2>2. CASE DispatchRefused(x) \/ DispatchThrows(x)
    BY <2>2 DEF DispatchRefused, DispatchThrows, Dispatching, mailboxVars
  <2> QED BY <1>7, <2>1, <2>2 DEF Dispatch
<1>8. ASSUME NEW x \in Entities, RetireItem(x) PROVE StagedInside(e)'
  BY <1>8 DEF RetireItem, Retire
<1>9. ASSUME NEW t \in Clients, Recheck(t) \/ \E on \in Entities \cup {"all"} : BeginAwait(t, on)
      PROVE StagedInside(e)'
  BY <1>9 DEF Recheck, BeginAwait, mailboxVars
<1>10. CASE UNCHANGED vars
  BY <1>10 DEF vars, mailboxVars
<1> QED BY <1>1, <1>2, <1>3, <1>4, <1>5, <1>6, <1>7, <1>8, <1>9, <1>10 DEF Next

\* The invariant at first.
LEMMA IInvInit == Init => IInv
<1> SUFFICES ASSUME Init PROVE IInv
  OBVIOUS
<1>1. \A e \in Entities : Outstanding(e) = {} /\ StagedInside(e)
  BY DEF Init, MailboxInit, Outstanding, Busy, StagedInside
<1>2. AllOutstanding = {} /\ pending = 0
  BY <1>1 DEF AllOutstanding, Init, QuiescenceInit
<1> QED BY <1>1, <1>2, TypedInit, EntityInvInit, FS_EmptySet DEF IInv, SharedAccounting

\* What a step adds to the outstanding work or takes from it, it adds to
\* pending or takes from it.
LEMMA CountNext ==
  ASSUME IInv, [Next]_vars
  PROVE  /\ IsFiniteSet(AllOutstanding')
         /\ pending' = Cardinality(AllOutstanding')
<1>1. /\ Typed /\ \A x \in Entities : EntityInv(x)
      /\ IsFiniteSet(AllOutstanding) /\ pending = Cardinality(AllOutstanding)
      /\ pending \in Nat
  BY FS_CardinalityType DEF IInv, SharedAccounting
<1>2. CASE Keeps
  <2>1. AllOutstanding' = AllOutstanding
    <3>1. CASE Entities = {}
      BY <3>1 DEF AllOutstanding
    <3>2. CASE Entities # {}
      BY <1>1, <1>2, <3>2, OutstandingNext
    <3> QED BY <3>1, <3>2
  <2> QED BY <1>1, <1>2, <2>1 DEF Keeps
<1>3. ASSUME NEW e \in Entities, AnyKind(e)
      PROVE  IsFiniteSet(AllOutstanding') /\ pending' = Cardinality(AllOutstanding')
  <2>. DEFINE run == <<e, current[e].id>>
  <2>1. IsFiniteSet(Ids(e)) /\ Cardinality(Ids(e)) = Len(queue[e]) /\ Ids(e) \subseteq AllOutstanding
    BY <1>1, IdsCount, OutstandingNext
  <2>2. CASE Opens(e)
    <3>1. /\ AllOutstanding' = AllOutstanding \cup {<<e, accepted[e] + 1>>}
          /\ <<e, accepted[e] + 1>> \notin AllOutstanding
      BY <1>1, <2>2, OutstandingNext
    <3>2. pending' = pending + 1
      BY <2>2 DEF Opens, Admit, Accept
    <3> QED BY <1>1, <3>1, <3>2, FS_AddElement
  <2>3. CASE Takes(e)
    BY <1>1, <2>3, OutstandingNext DEF Takes
  <2>4. CASE Retires(e)
    <3>1. AllOutstanding' = AllOutstanding \ {run} /\ run \in AllOutstanding
      BY <1>1, <2>4, OutstandingNext
    <3>2. pending' = pending - 1
      BY <2>4 DEF Retires
    <3> QED BY <1>1, <3>1, <3>2, FS_RemoveElement
  <2>5. CASE Drops(e)
    <3>1. AllOutstanding' = AllOutstanding \ Ids(e)
      BY <1>1, <2>5, OutstandingNext
    <3>2. pending' = pending - Len(queue[e])
      BY <2>5 DEF Drops
    <3> QED BY <1>1, <2>1, <3>1, <3>2, RemovePart
  <2>6. CASE RetiresAll(e)
    <3>1. AllOutstanding' = AllOutstanding \ (Ids(e) \cup {run}) /\ run \in AllOutstanding \ Ids(e)
      BY <1>1, <2>6, OutstandingNext
    <3>2. pending' = pending - (1 + Len(queue[e])) /\ Len(queue[e]) \in Nat
      BY <1>1, <2>6 DEF RetiresAll, Typed
    <3>3. AllOutstanding' = (AllOutstanding \ Ids(e)) \ {run}
      BY <3>1
    <3>4. /\ IsFiniteSet(AllOutstanding \ Ids(e))
          /\ Cardinality(AllOutstanding \ Ids(e)) = pending - Len(queue[e])
      BY <1>1, <2>1, RemovePart
    <3>5. /\ IsFiniteSet(AllOutstanding')
          /\ Cardinality(AllOutstanding') = (pending - Len(queue[e])) - 1
      <4>. DEFINE T == AllOutstanding \ Ids(e)
      <4>1. IsFiniteSet(T) /\ run \in T /\ AllOutstanding' = T \ {run}
        BY <3>1, <3>3, <3>4
      <4>. HIDE DEF T, run
      <4>2. IsFiniteSet(T \ {run}) /\ Cardinality(T \ {run}) = Cardinality(T) - 1
        BY <4>1, FS_RemoveElement
      <4> QED BY <3>4, <4>1, <4>2 DEF T
    <3> QED BY <1>1, <3>2, <3>5
  <2> QED BY <1>3, <2>2, <2>3, <2>4, <2>5, <2>6 DEF AnyKind
<1> QED BY <1>1, <1>2, <1>3, Kinds

\* Every step keeps the invariant.
LEMMA IInvNext == IInv /\ [Next]_vars => IInv'
<1> SUFFICES ASSUME IInv, [Next]_vars PROVE IInv'
  OBVIOUS
<1>1. Typed'
  BY TypedNext DEF IInv
<1>2. \A e \in Entities : EntityInv(e)'
  BY <1>1, EntityInvNext DEF IInv
<1>3. \A e \in Entities : StagedInside(e)'
  BY StagedInsideNext DEF IInv
<1>4. IsFiniteSet(AllOutstanding') /\ SharedAccounting'
  BY CountNext DEF SharedAccounting
<1> QED BY <1>1, <1>2, <1>3, <1>4 DEF IInv

\* The inductive invariant of the accounting barrier.
LEMMA Inductive == Spec => []IInv
BY IInvInit, IInvNext, PTL DEF Spec

-----------------------------------------------------------------------------
(* Theorems.                                                               *)

\* Every variable keeps its type; in particular the shared counter of
\* r25_quiescence.hpp never wraps below zero.
THEOREM TypeCorrect == Spec => []TypeOK
<1>1. IInv => TypeOK
  BY FS_CardinalityType DEF IInv, Typed, TypeOK, SharedAccounting
<1> QED BY <1>1, Inductive, PTL

\* accepted_ - completed_ is what an entity still holds (await_idle()).
THEOREM LocalAccountingHolds == Spec => []LocalAccounting
<1>1. IInv => LocalAccounting
  BY DEF IInv, EntityInv, LocalAccounting
<1> QED BY <1>1, Inductive, PTL

\* pending_ is the number of items outstanding over all Cells and Processes.
THEOREM SharedAccountingHolds == Spec => []SharedAccounting
<1>1. IInv => SharedAccounting
  BY DEF IInv
<1> QED BY <1>1, Inductive, PTL

\* Items are consumed in the order in which they were admitted.
THEOREM FifoWorkHolds == Spec => []FifoWork
<1>1. IInv => FifoWork
  BY DEF IInv, EntityInv, FifoWork
<1> QED BY <1>1, Inductive, PTL

\* With no pending work there is no item anywhere.
LEMMA NothingOutstanding ==
  ASSUME IInv
  PROVE  /\ pending = 0 <=> AllOutstanding = {}
         /\ pending = 0 => \A e \in Entities : Quiet(e)
<1>1. pending = 0 <=> AllOutstanding = {}
  BY FS_EmptySet DEF IInv, SharedAccounting
<1>2. ASSUME AllOutstanding = {}, NEW e \in Entities PROVE Quiet(e)
  <2>1. Outstanding(e) = {}
    BY <1>2 DEF AllOutstanding
  <2>2. ~Busy(e) /\ DOMAIN queue[e] = {}
    BY <2>1 DEF Outstanding
  <2>3. queue[e] \in Seq(Items)
    BY DEF IInv, Typed
  <2>4. queue[e] = <<>>
    <3>1. Len(queue[e]) \in Nat /\ DOMAIN queue[e] = 1 .. Len(queue[e])
      BY <2>3, LenProperties
    <3>2. queue[e] # <<>> => Len(queue[e]) \in Nat \ {0}
      BY <2>3, EmptySeq
    <3>3. Len(queue[e]) \in Nat \ {0} => 1 \in DOMAIN queue[e]
      BY <3>1
    <3> QED BY <2>2, <3>2, <3>3
  <2>5. staged[e] = <<>>
    BY <2>2 DEF IInv, StagedInside, Busy
  <2> QED BY <2>2, <2>4, <2>5 DEF Quiet
<1> QED BY <1>1, <1>2

\* When await_all_idle() finds pending_ = 0, no item is queued, no callback
\* runs and no committed send is left to dispatch, anywhere.
THEOREM CausalBarrierHolds == Spec => []CausalBarrier
<1>1. IInv => CausalBarrier
  BY NothingOutstanding DEF CausalBarrier
<1> QED BY <1>1, Inductive, PTL

\* Zero is a causal fixed point: after the last root send it is final.
THEOREM QuietIsFinalHolds == Spec => QuietIsFinal
<1>1. ASSUME IInv, [Next]_vars, pending = 0, roots = MaxRoots PROVE pending' = 0
  <2>1. \A e \in Entities : ~Busy(e) /\ queue[e] = <<>>
    BY <1>1, NothingOutstanding DEF Quiet
  <2>2. CASE Keeps
    BY <1>1, <2>2 DEF Keeps
  <2>3. ASSUME NEW e \in Entities, AnyKind(e) PROVE pending' = 0
    BY <1>1, <2>1, <2>3 DEF AnyKind, Opens, Takes, Retires, Drops, RetiresAll
  <2>4. Typed
    BY <1>1 DEF IInv
  <2> QED BY <1>1, <2>2, <2>3, <2>4, Kinds
<1>2. IInv /\ [Next]_vars => [pending = 0 /\ roots = MaxRoots => pending' = 0]_vars
  BY <1>1
<1> QED BY <1>2, Inductive, PTL DEF Spec, QuietIsFinal

-----------------------------------------------------------------------------
(* R25 implements CausalWork.                                              *)

Opened == UNION {{e} \X (1 .. accepted[e]) : e \in Entities}
AtBarrier == {t \in Clients : awaiting[t] = "all"}

\* The abstract step that a step of each kind takes.
LEMMA AbstractStep ==
  ASSUME IInv, [Next]_vars
  PROVE  Causal!WorkNext \/ UNCHANGED <<Opened, AllOutstanding, roots, AtBarrier>>
<1>1. Typed /\ (\A x \in Entities : EntityInv(x)) /\ (pending = 0 => AllOutstanding = {})
  BY NothingOutstanding DEF IInv
<1>2. ASSUME Keeps, Entities # {}
      PROVE  Causal!WorkNext \/ UNCHANGED <<Opened, AllOutstanding, roots, AtBarrier>>
  <2>1. UNCHANGED <<Opened, AllOutstanding, roots>>
    BY <1>1, <1>2, OutstandingNext DEF Keeps, Opened
  <2>2. CASE UNCHANGED awaiting
    BY <2>1, <2>2 DEF AtBarrier
  <2>3. ASSUME NEW t \in Clients, NEW on \in Entities \cup {"all"},
               awaiting[t] = "none", awaiting' = [awaiting EXCEPT ![t] = on]
        PROVE  Causal!WorkNext \/ UNCHANGED AtBarrier
    <3>1. CASE on = "all"
      <4>1. AtBarrier' = AtBarrier \cup {t}
        BY <1>1, <2>3, <3>1 DEF AtBarrier, Typed
      <4>2. Causal!Arrive(t)
        BY <2>1, <4>1 DEF Causal!Arrive, AtBarrier, Opened
      <4> QED BY <4>2 DEF Causal!WorkNext
    <3>2. CASE on # "all"
      BY <1>1, <2>3, <3>2 DEF AtBarrier, Typed
    <3> QED BY <3>1, <3>2
  <2>4. ASSUME NEW t \in Clients, awaiting[t] # "none", IdleFor(awaiting[t]),
               awaiting' = [awaiting EXCEPT ![t] = "none"]
        PROVE  Causal!WorkNext \/ UNCHANGED AtBarrier
    <3>1. CASE awaiting[t] = "all"
      <4>1. AtBarrier' = AtBarrier \ {t}
        BY <1>1, <2>4, <3>1 DEF AtBarrier, Typed
      <4>2. AllOutstanding = {}
        BY <1>1, <2>4, <3>1 DEF IdleFor
      <4>3. Causal!Pass(t)
        BY <2>1, <4>1, <4>2 DEF Causal!Pass, AtBarrier, Opened
      <4> QED BY <4>3 DEF Causal!WorkNext
    <3>2. CASE awaiting[t] # "all"
      BY <1>1, <2>4, <3>2 DEF AtBarrier, Typed
    <3> QED BY <3>1, <3>2
  <2> QED BY <1>2, <2>1, <2>2, <2>3, <2>4 DEF Keeps, Waits
<1>3. ASSUME Keeps, Entities = {}
      PROVE  Causal!WorkNext \/ UNCHANGED <<Opened, AllOutstanding, roots, AtBarrier>>
  <2>1. Opened = {} /\ Opened' = {} /\ AllOutstanding = {} /\ AllOutstanding' = {}
    BY <1>3 DEF Opened, AllOutstanding
  <2>2. UNCHANGED roots
    BY <1>3 DEF Keeps
  <2>3. CASE UNCHANGED awaiting
    BY <2>1, <2>2, <2>3 DEF AtBarrier
  <2>4. ASSUME NEW t \in Clients, awaiting' = [awaiting EXCEPT ![t] = "all"]
        PROVE  Causal!Arrive(t)
    <3>1. AtBarrier' = AtBarrier \cup {t}
      BY <1>1, <2>4 DEF AtBarrier, Typed
    <3> QED BY <2>1, <2>2, <3>1 DEF Causal!Arrive, AtBarrier, Opened
  <2>5. ASSUME NEW t \in Clients, awaiting' = [awaiting EXCEPT ![t] = "none"]
        PROVE  Causal!Pass(t)
    <3>1. AtBarrier' = AtBarrier \ {t}
      BY <1>1, <2>5 DEF AtBarrier, Typed
    <3> QED BY <2>1, <2>2, <3>1 DEF Causal!Pass, AtBarrier, Opened
  <2> QED BY <1>3, <2>1, <2>2, <2>3, <2>4, <2>5 DEF Keeps, Waits, Causal!WorkNext
<1>4. ASSUME NEW e \in Entities, Opens(e) PROVE Causal!WorkNext
  <2>10. PICK w : w = <<e, accepted[e] + 1>>
    OBVIOUS
  <2>1. AllOutstanding' = AllOutstanding \cup {w}
    BY <1>1, <1>4, <2>10, OutstandingNext
  <2>2. accepted' = [accepted EXCEPT ![e] = @ + 1] /\ UNCHANGED awaiting
    BY <1>4 DEF Opens, Admit
  <2>3. accepted[e] \in Nat /\ accepted'[e] = accepted[e] + 1 /\ \A x \in Entities \ {e} : accepted'[x] = accepted[x]
    BY <1>1, <2>2 DEF Typed
  <2>4. w \notin Opened
    BY <2>3, <2>10 DEF Opened
  <2>5. Opened' = Opened \cup {w}
    <3>1. ASSUME NEW x \in Entities, NEW n \in 1 .. accepted'[x] PROVE <<x, n>> \in Opened \cup {w}
      BY <2>3, <2>10, <3>1 DEF Opened
    <3>2. ASSUME NEW x \in Entities, NEW n \in 1 .. accepted[x] PROVE <<x, n>> \in Opened'
      BY <2>3, <3>2 DEF Opened
    <3>3. w \in Opened'
      BY <2>3, <2>10 DEF Opened
    <3>4. Opened' \subseteq Opened \cup {w}
      BY <3>1 DEF Opened
    <3>5. Opened \subseteq Opened'
      BY <3>2 DEF Opened
    <3> QED BY <3>3, <3>4, <3>5
  <2>6. Causal!Open(w)
    BY <2>1, <2>2, <2>4, <2>5 DEF Causal!Open, Opened, AtBarrier
  <2>7. w \in Opened' \ Opened
    BY <2>4, <2>5
  <2>8. CASE roots < MaxRoots /\ roots' = roots + 1
    <3>1. Causal!Root(w)
      BY <2>6, <2>8 DEF Causal!Root
    <3>2. \E v \in Opened' \ Opened : Causal!Root(v)
      BY <2>7, <3>1, Zenon
    <3> QED BY <3>2, Zenon DEF Causal!WorkNext, Opened
  <2>9. CASE UNCHANGED roots /\ \E x \in Entities : Busy(x)
    <3>4. PICK x \in Entities : Busy(x)
      BY <2>9
    <3>5. <<x, current[x].id>> \in AllOutstanding
      BY <3>4 DEF AllOutstanding, Outstanding
    <3>1. PICK parent : parent \in AllOutstanding
      BY <3>5
    <3>2. Causal!Child(parent, w)
      BY <2>6, <2>9, <3>1 DEF Causal!Child
    <3>3. \E v \in Opened' \ Opened, p \in AllOutstanding : Causal!Child(p, v)
      <4>1. w \in Opened' \ Opened /\ parent \in AllOutstanding
        BY <2>7, <3>1
      <4> QED BY <4>1, <3>2, Zenon
    <3> QED BY <3>3, Zenon DEF Causal!WorkNext, Opened
  <2> QED BY <1>4, <2>8, <2>9 DEF Opens
<1>5. ASSUME NEW done \in SUBSET AllOutstanding, AllOutstanding' = AllOutstanding \ done,
             UNCHANGED <<accepted, roots, awaiting>>
      PROVE  Causal!WorkNext \/ UNCHANGED <<Opened, AllOutstanding, roots, AtBarrier>>
  <2>1. UNCHANGED <<Opened, roots, AtBarrier>>
    BY <1>5 DEF Opened, AtBarrier
  <2>2. CASE done = {}
    BY <1>5, <2>1, <2>2
  <2>3. CASE done # {}
    BY <1>5, <2>1, <2>3 DEF Causal!WorkNext, Causal!Close, Opened, AtBarrier
  <2> QED BY <2>2, <2>3
<1>6. ASSUME NEW e \in Entities, Takes(e) \/ Retires(e) \/ Drops(e) \/ RetiresAll(e)
      PROVE  Causal!WorkNext \/ UNCHANGED <<Opened, AllOutstanding, roots, AtBarrier>>
  <2>1. UNCHANGED <<accepted, roots, awaiting>>
    BY <1>6 DEF Takes, Retires, Drops, RetiresAll
  <2>2. \E done \in SUBSET AllOutstanding : AllOutstanding' = AllOutstanding \ done
    <3>1. CASE Takes(e)
      BY <1>1, <3>1, OutstandingNext
    <3>2. CASE Retires(e)
      BY <1>1, <3>2, OutstandingNext
    <3>3. CASE Drops(e)
      BY <1>1, <3>3, OutstandingNext
    <3>4. CASE RetiresAll(e)
      BY <1>1, <3>4, OutstandingNext
    <3> QED BY <1>6, <3>1, <3>2, <3>3, <3>4
  <2> QED BY <1>5, <2>1, <2>2
<1> QED BY <1>1, <1>2, <1>3, <1>4, <1>6, Kinds DEF AnyKind

\* The Cells, the Processes and their shared counter keep the contract of the
\* causal barrier: work is opened only by a root or by open work, each piece
\* is closed once, and a thread passes the barrier only when nothing is open.
THEOREM R25ImplementsCausalWork == Spec => ImplementsCausalWork
<1>1. Init => Causal!WorkInit
  <2>. SUFFICES ASSUME Init PROVE Causal!WorkInit
    OBVIOUS
  <2>1. \A e \in Entities : Outstanding(e) = {} /\ accepted[e] = 0
    BY DEF Init, MailboxInit, Outstanding, Busy
  <2>2. AllOutstanding = {} /\ Opened = {} /\ roots = 0 /\ AtBarrier = {}
    BY <2>1 DEF AllOutstanding, Opened, AtBarrier, Init, QuiescenceInit
  <2> QED BY <2>2 DEF Causal!WorkInit, Opened, AtBarrier
<1>2. IInv /\ [Next]_vars => [Causal!WorkNext]_(Causal!workVars)
  BY AbstractStep DEF Causal!workVars, Opened, AtBarrier
<1> QED BY <1>1, <1>2, Inductive, PTL DEF Spec, ImplementsCausalWork, Causal!WorkSpec
=============================================================================
