-------------------------------- MODULE Ref --------------------------------
(***************************************************************************)
(* Ref (src/ref.hpp): storage that may be unset, guarded by a mutex that   *)
(* is not recursive, with a condition variable for threads that need a     *)
(* value.  update runs its callback while it holds the mutex, and the      *)
(* callback may use other Refs, so a thread holds the mutexes of a stack   *)
(* of Refs.                                                                *)
(*                                                                         *)
(* Nothing blocks inside get, set and is_set once the mutex is taken, so   *)
(* each such section is one step.  MayNest is the discipline of the        *)
(* program: <<r, s>> when a callback on r may use s.                       *)
(***************************************************************************)
EXTENDS Naturals, Sequences

CONSTANTS
  Threads, Refs,
  MayNest,     \* a subset of Refs \X Refs
  InitiallySet,\* the Refs constructed with a value
  MaxCalls     \* operations, in all

ASSUME NestAssumption == MayNest \subseteq Refs \X Refs /\ InitiallySet \subseteq Refs
ASSUME CallsAssumption == MaxCalls \in Nat

VARIABLES
  value,     \* value_
  frames,    \* the update callbacks a thread is in, innermost last
  call,      \* the operation a thread is at
  asleep,    \* the threads blocked in condition_.wait
  result,    \* what each thread last read
  calls,     \* operations begun
  stores     \* history: stores so far, which numbers them

vars == <<value, frames, call, asleep, result, calls, stores>>

Stamps == [id : Nat, saw : Nat]
Unset == [id |-> 0, saw |-> 0]

NoCall == [op |-> "none"]
Owing(r) == [op |-> "notify", ref |-> r]
Calls == {NoCall} \cup [op : {"get", "set", "update", "notify"}, ref : Refs]
Frames == [ref : Refs, saw : Stamps]

Init ==
  /\ value = [r \in Refs |-> IF r \in InitiallySet THEN [id |-> 1, saw |-> 0] ELSE Unset]
  /\ frames = [t \in Threads |-> <<>>]
  /\ call = [t \in Threads |-> NoCall]
  /\ asleep = {}
  /\ result = [t \in Threads |-> Unset]
  /\ calls = 0
  /\ stores = 1

\* mutant: the mutex is released while the callback runs.
FreeDuringCallback(r) == r \in Refs

\* Nobody is inside an update of r.
Free(r) == \A t \in Threads : \A i \in DOMAIN frames[t] : frames[t][i].ref # r

\* The callbacks t is in allow it to use r.
Allowed(t, r) == \A i \in DOMAIN frames[t] : <<frames[t][i].ref, r>> \in MayNest

Call(t, op, r) ==
  /\ call[t] = NoCall
  /\ calls < MaxCalls
  /\ Allowed(t, r)
  /\ call' = [call EXCEPT ![t] = [op |-> op, ref |-> r]]
  /\ calls' = calls + 1
  /\ UNCHANGED <<value, frames, asleep, result, stores>>

\* t is at operation op and has the mutex.
At(t, op) == call[t].op = op /\ t \notin asleep /\ Free(call[t].ref)

\* get and update block while the Ref is unset.
Wait(t) ==
  /\ At(t, "get") \/ At(t, "update")
  /\ value[call[t].ref] = Unset
  /\ asleep' = asleep \cup {t}
  /\ UNCHANGED <<value, frames, call, result, calls, stores>>

\* mutant: the wait is not repeated, nor its condition checked.
GetUnchecked(t) ==
  /\ At(t, "get")
  /\ result' = [result EXCEPT ![t] = value[call[t].ref]]
  /\ call' = [call EXCEPT ![t] = NoCall]
  /\ UNCHANGED <<value, frames, asleep, calls, stores>>

Get(t) ==
  /\ At(t, "get")
  /\ value[call[t].ref] # Unset
  /\ result' = [result EXCEPT ![t] = value[call[t].ref]]
  /\ call' = [call EXCEPT ![t] = NoCall]
  /\ UNCHANGED <<value, frames, asleep, calls, stores>>

\* The store of set, and its unlock; the notification follows.
Set(t) ==
  /\ At(t, "set")
  /\ value' = [value EXCEPT ![call[t].ref] = [id |-> stores + 1, saw |-> 0]]
  /\ stores' = stores + 1
  /\ call' = [call EXCEPT ![t] = Owing(call[t].ref)]
  /\ UNCHANGED <<frames, asleep, result, calls>>

\* mutant: one waiter is woken.
NotifyOne(t) ==
  /\ call[t].op = "notify"
  /\ LET waiters == {u \in asleep : call[u].ref = call[t].ref} IN
       \/ waiters = {} /\ UNCHANGED asleep
       \/ \E u \in waiters : asleep' = asleep \ {u}
  /\ call' = [call EXCEPT ![t] = NoCall]
  /\ UNCHANGED <<value, frames, result, calls, stores>>

\* condition_.notify_all(), after the unlock.
Notify(t) ==
  /\ call[t].op = "notify"
  /\ asleep' = {u \in asleep : call[u].ref # call[t].ref}
  /\ call' = [call EXCEPT ![t] = NoCall]
  /\ UNCHANGED <<value, frames, result, calls, stores>>

\* update enters its callback with the mutex held.
EnterUpdate(t) ==
  /\ At(t, "update")
  /\ value[call[t].ref] # Unset
  /\ frames' = [frames EXCEPT ![t] =
       Append(@, [ref |-> call[t].ref, saw |-> value[call[t].ref]])]
  /\ call' = [call EXCEPT ![t] = NoCall]
  /\ UNCHANGED <<value, asleep, result, calls, stores>>

InCallback(t) == call[t] = NoCall /\ frames[t] # <<>>
Innermost(t) == frames[t][Len(frames[t])]
Leave(t) == frames' = [frames EXCEPT ![t] = SubSeq(@, 1, Len(@) - 1)]

\* The callback returned a replacement.
CommitUpdate(t) ==
  /\ InCallback(t)
  /\ LET f == Innermost(t) IN
       /\ value' = [value EXCEPT ![f.ref] = [id |-> stores + 1, saw |-> f.saw.id]]
       /\ call' = [call EXCEPT ![t] = Owing(f.ref)]
  /\ Leave(t)
  /\ stores' = stores + 1
  /\ UNCHANGED <<asleep, result, calls>>

\* It gave none, and the evaluator puts the current value back.
KeepUpdate(t) ==
  /\ InCallback(t)
  /\ call' = [call EXCEPT ![t] = Owing(Innermost(t).ref)]
  /\ Leave(t)
  /\ UNCHANGED <<value, asleep, result, calls, stores>>

\* It threw: the value stays, nobody is notified.
ThrowUpdate(t) ==
  /\ InCallback(t)
  /\ Leave(t)
  /\ UNCHANGED <<value, call, asleep, result, calls, stores>>

Perform(t) ==
  \/ Wait(t) \/ Get(t) \/ Set(t) \/ Notify(t)
  \/ EnterUpdate(t) \/ CommitUpdate(t) \/ KeepUpdate(t) \/ ThrowUpdate(t)

Next ==
  \E t \in Threads :
    \/ Perform(t)
    \/ \E r \in Refs, op \in {"get", "set", "update"} : Call(t, op, r)

Spec == Init /\ [][Next]_vars

\* Fairness: threads run and callbacks return.  A thread need not call
\* anything.  The mutex is not fair: the bound on the calls stands in for it.
FairSpec == Spec /\ \A t \in Threads : WF_vars(Perform(t))

\* No callback uses its own Ref, or two Refs in both orders.
Ordered ==
  /\ \A r \in Refs : <<r, r>> \notin MayNest
  /\ \A r, s, u \in Refs : <<r, s>> \in MayNest /\ <<s, u>> \in MayNest => <<r, u>> \in MayNest

-----------------------------------------------------------------------------
(* Safety.                                                                 *)

\* Types, and that only a thread at a blocking operation sleeps.
RefTypeOK ==
  /\ value \in [Refs -> Stamps]
  /\ frames \in [Threads -> Seq(Frames)]
  /\ call \in [Threads -> Calls]
  /\ asleep \subseteq {t \in Threads : call[t].op \in {"get", "update"}}
  /\ result \in [Threads -> Stamps]
  /\ calls \in Nat
  /\ stores \in Nat

\* While an update's callback runs, however deep the nesting, nobody else is
\* in an update of that Ref and its value is still the one the callback was
\* given.
CallbackExclusive ==
  \A t \in Threads : \A i \in DOMAIN frames[t] :
    LET f == frames[t][i] IN
    /\ value[f.ref] = f.saw
    /\ \A u \in Threads : \A j \in DOMAIN frames[u] : frames[u][j].ref = f.ref => u = t /\ j = i

\* The Refs are registers: get, set and update take effect at one instant,
\* and no update replaces a value it has not seen.
Abstract == INSTANCE Register WITH stored <- value, results <- result
ImplementsRegister == Abstract!RegisterSpec

\* A thread asleep on a Ref that has a value is about to be notified.
NoLostWakeup ==
  \A t \in asleep : value[call[t].ref] # Unset =>
    \E u \in Threads : call[u].op = "notify" /\ call[u].ref = call[t].ref

-----------------------------------------------------------------------------
(* Liveness.                                                               *)

\* Once every Ref has a value, every operation that was begun returns.
CallsReturn ==
  \A t \in Threads :
    (call[t] # NoCall /\ \A r \in Refs : value[r] # Unset) ~> (call[t] = NoCall)
=============================================================================
