----------------------------- MODULE RefProofs -----------------------------
(***************************************************************************)
(* Ref is a register, for every number of threads and Refs, every nesting  *)
(* discipline and every number of calls.                                   *)
(*                                                                         *)
(* The inductive invariant adds to the checked ones that stamps are issued *)
(* in order (a new store is new) and that a callback was given a value, so *)
(* that what it commits replaces one.                                      *)
(***************************************************************************)
EXTENDS Ref, TLAPS

\* Stamps in use are not above the counter that issues them.
StampsIssued == \A r \in Refs : value[r].id <= stores

\* A callback runs on a value.
CallbackGiven == \A t \in Threads : \A i \in DOMAIN frames[t] : frames[t][i].saw # Unset

IInv == RefTypeOK /\ CallbackExclusive /\ NoLostWakeup /\ StampsIssued /\ CallbackGiven

-----------------------------------------------------------------------------
(* Lemmas about the stack of callbacks.                                    *)

\* Entering a callback adds one frame at the end.
LEMMA EnterFrames ==
  ASSUME NEW t \in Threads, RefTypeOK, EnterUpdate(t)
  PROVE  LET f == [ref |-> call[t].ref, saw |-> value[call[t].ref]] IN
         /\ f \in Frames
         /\ frames' = [frames EXCEPT ![t] = Append(@, f)]
         /\ frames'[t] \in Seq(Frames)
         /\ Len(frames'[t]) = Len(frames[t]) + 1
         /\ \A i \in DOMAIN frames[t] : i \in DOMAIN frames'[t] /\ frames'[t][i] = frames[t][i]
         /\ frames'[t][Len(frames[t]) + 1] = f
         /\ \A u \in Threads \ {t} : frames'[u] = frames[u]
  <1>1. call[t].ref \in Refs
    BY DEF RefTypeOK, EnterUpdate, At, Calls, NoCall
  <1>2. [ref |-> call[t].ref, saw |-> value[call[t].ref]] \in Frames
    BY <1>1 DEF RefTypeOK, Frames
  <1>3. frames[t] \in Seq(Frames)
    BY DEF RefTypeOK
  <1> QED
    BY <1>2, <1>3 DEF RefTypeOK, EnterUpdate

\* Leaving one removes the last.
LEMMA LeaveFrames ==
  ASSUME NEW t \in Threads, RefTypeOK, InCallback(t), Leave(t)
  PROVE  /\ Innermost(t) \in Frames
         /\ Len(frames[t]) \in DOMAIN frames[t]
         /\ frames' \in [Threads -> Seq(Frames)]
         /\ DOMAIN frames'[t] = DOMAIN frames[t] \ {Len(frames[t])}
         /\ \A i \in DOMAIN frames'[t] : frames'[t][i] = frames[t][i]
         /\ \A u \in Threads \ {t} : frames'[u] = frames[u]
  <1>1. frames[t] \in Seq(Frames) /\ frames[t] # <<>>
    BY DEF RefTypeOK, InCallback
  <1>2. /\ Len(frames[t]) \in Nat \ {0}
        /\ DOMAIN frames[t] = 1 .. Len(frames[t])
    BY <1>1
  <1>3. Innermost(t) \in Frames
    BY <1>1, <1>2 DEF Innermost
  <1>4. DEFINE s == SubSeq(frames[t], 1, Len(frames[t]) - 1)
  <1>5. /\ s \in Seq(Frames)
        /\ Len(s) = Len(frames[t]) - 1
        /\ \A i \in 1 .. Len(frames[t]) - 1 : s[i] = frames[t][i]
    BY <1>1, <1>2
  <1>6. frames' = [frames EXCEPT ![t] = s]
    BY DEF Leave
  <1>7. frames'[t] = s /\ \A u \in Threads \ {t} : frames'[u] = frames[u]
    BY <1>6 DEF RefTypeOK
  <1>8. frames' \in [Threads -> Seq(Frames)]
    BY <1>5, <1>6 DEF RefTypeOK
  <1>9. DOMAIN frames'[t] = 1 .. Len(frames[t]) - 1
    BY <1>5, <1>7
  <1> HIDE DEF s
  <1> QED
    BY <1>2, <1>3, <1>5, <1>7, <1>8, <1>9

-----------------------------------------------------------------------------
(* The invariant.                                                          *)

\* The invariant at first.
LEMMA InitInv == Init => IInv
  BY NestAssumption
  DEF Init, IInv, RefTypeOK, CallbackExclusive, NoLostWakeup, StampsIssued, CallbackGiven,
      Stamps, Unset, Calls, NoCall, Frames

\* The steps that touch neither a value nor the stack of a thread.
LEMMA QuietSteps ==
  ASSUME IInv, NEW t \in Threads,
         \/ Wait(t) \/ Get(t) \/ Notify(t)
         \/ \E r \in Refs, op \in {"get", "set", "update"} : Call(t, op, r)
  PROVE  IInv'
  <1> USE DEF IInv
  <1>1. UNCHANGED <<value, frames, stores>>
    BY DEF Wait, Get, Notify, Call
  <1>2. CallbackExclusive' /\ StampsIssued' /\ CallbackGiven'
    BY <1>1 DEF CallbackExclusive, StampsIssued, CallbackGiven
  <1>3. CASE Wait(t)
    <2>1. t \notin asleep /\ value[call[t].ref] = Unset
      BY <1>3 DEF Wait, At
    <2>2. RefTypeOK'
      BY <1>3 DEF RefTypeOK, Wait, At
    <2>3. NoLostWakeup'
      BY <1>3, <2>1 DEF NoLostWakeup, Wait
    <2> QED BY <1>2, <2>2, <2>3
  <1>4. CASE Get(t)
    <2>1. call[t].op = "get" /\ t \notin asleep /\ call[t].ref \in Refs
      BY <1>4 DEF Get, At, RefTypeOK, Calls, NoCall
    <2>2. RefTypeOK'
      BY <1>4, <2>1 DEF RefTypeOK, Get, Calls
    <2>3. NoLostWakeup'
      BY <1>4, <2>1 DEF NoLostWakeup, Get, RefTypeOK
    <2> QED BY <1>2, <2>2, <2>3
  <1>5. CASE Notify(t)
    <2>1. call[t].op = "notify" /\ t \notin asleep
      BY <1>5 DEF Notify, RefTypeOK
    <2>2. RefTypeOK'
      BY <1>5, <2>1 DEF RefTypeOK, Notify, Calls
    <2>3. ASSUME NEW u \in asleep', value'[call'[u].ref] # Unset
          PROVE  \E w \in Threads : call'[w].op = "notify" /\ call'[w].ref = call'[u].ref
      <3>1. u \in asleep /\ u # t /\ call'[u] = call[u] /\ call[u].ref # call[t].ref
        BY <1>5, <2>1, <2>3 DEF Notify, RefTypeOK
      <3>2. PICK w \in Threads : call[w].op = "notify" /\ call[w].ref = call[u].ref
        BY <1>1, <2>3, <3>1 DEF NoLostWakeup
      <3>3. w # t /\ call'[w] = call[w]
        BY <1>5, <3>1, <3>2 DEF Notify, RefTypeOK
      <3> QED BY <3>1, <3>2, <3>3
    <2> QED BY <1>2, <2>2, <2>3 DEF NoLostWakeup
  <1>6. ASSUME NEW r \in Refs, NEW op \in {"get", "set", "update"}, Call(t, op, r)
        PROVE  IInv'
    <2>1. call[t] = NoCall /\ t \notin asleep
      BY <1>6 DEF Call, RefTypeOK, NoCall
    <2>2. RefTypeOK'
      BY <1>6, <2>1 DEF RefTypeOK, Call, Calls
    <2>3. ASSUME NEW u \in asleep', value'[call'[u].ref] # Unset
          PROVE  \E w \in Threads : call'[w].op = "notify" /\ call'[w].ref = call'[u].ref
      <3>1. u \in asleep /\ u # t /\ call'[u] = call[u]
        BY <1>6, <2>1, <2>3 DEF Call, RefTypeOK
      <3>2. PICK w \in Threads : call[w].op = "notify" /\ call[w].ref = call[u].ref
        BY <1>1, <2>3, <3>1 DEF NoLostWakeup
      <3>3. w # t /\ call'[w] = call[w]
        BY <1>6, <2>1, <3>2 DEF Call, RefTypeOK, NoCall
      <3> QED BY <3>1, <3>2, <3>3
    <2> QED BY <1>2, <2>2, <2>3 DEF NoLostWakeup
  <1> QED BY <1>3, <1>4, <1>5, <1>6

\* A store on r by t, which then owes r's waiters a notification.
LEMMA StoreWakes ==
  ASSUME IInv, NEW t \in Threads, NEW r \in Refs,
         t \notin asleep, call[t].op # "notify",
         \A s \in Refs \ {r} : value'[s] = value[s],
         call' = [call EXCEPT ![t] = Owing(r)],
         asleep' = asleep
  PROVE  NoLostWakeup'
  <1> SUFFICES ASSUME NEW u \in asleep', value'[call'[u].ref] # Unset
               PROVE  \E w \in Threads : call'[w].op = "notify" /\ call'[w].ref = call'[u].ref
    BY DEF NoLostWakeup
  <1>1. u \in Threads /\ u # t /\ call'[u] = call[u] /\ call[u].ref \in Refs
    <2>1. u \in Threads /\ call[u].op \in {"get", "update"} /\ call[u] \in Calls
      BY DEF IInv, RefTypeOK
    <2>2. call[u].ref \in Refs
      BY <2>1 DEF Calls, NoCall
    <2>3. u # t
      OBVIOUS
    <2>4. call'[u] = call[u]
      BY <2>1, <2>3 DEF IInv, RefTypeOK
    <2> QED BY <2>1, <2>2, <2>3, <2>4
  <1>2. call'[t].op = "notify" /\ call'[t].ref = r
    BY DEF IInv, RefTypeOK, Owing
  <1>3. CASE call[u].ref = r
    BY <1>1, <1>2, <1>3
  <1>4. CASE call[u].ref # r
    <2>1. value'[call[u].ref] = value[call[u].ref]
      BY <1>1, <1>4 DEF IInv, RefTypeOK
    <2>2. PICK w \in Threads : call[w].op = "notify" /\ call[w].ref = call[u].ref
      BY <1>1, <2>1 DEF IInv, NoLostWakeup
    <2>3. call'[w] = call[w]
      BY <2>2 DEF IInv, RefTypeOK
    <2> QED BY <1>1, <2>2, <2>3
  <1> QED BY <1>3, <1>4

\* ref_set keeps the invariant.
LEMMA SetStep ==
  ASSUME IInv, NEW t \in Threads, Set(t)
  PROVE  IInv'
  <1> DEFINE r == call[t].ref
  <1>1. /\ r \in Refs /\ t \notin asleep /\ call[t].op = "set" /\ Free(r)
        /\ call' = [call EXCEPT ![t] = Owing(r)]
        /\ value' = [value EXCEPT ![r] = [id |-> stores + 1, saw |-> 0]]
    BY DEF Set, At, IInv, RefTypeOK, Calls, NoCall
  <1>2. RefTypeOK'
    <2>1. Owing(r) \in Calls /\ [id |-> stores + 1, saw |-> 0] \in Stamps
      BY <1>1 DEF Owing, Calls, Stamps, IInv, RefTypeOK
    <2> QED BY <1>1, <2>1 DEF IInv, RefTypeOK, Set
  <1>3. CallbackExclusive' /\ CallbackGiven'
    BY <1>1 DEF IInv, RefTypeOK, Set, CallbackExclusive, CallbackGiven, Free, Frames
  <1>4. NoLostWakeup'
    BY <1>1, StoreWakes DEF Set, IInv, RefTypeOK
  <1>5. StampsIssued'
    BY <1>1 DEF IInv, RefTypeOK, Set, StampsIssued, Stamps
  <1> QED BY <1>2, <1>3, <1>4, <1>5 DEF IInv

\* An update that enters its callback keeps the invariant.
LEMMA EnterStep ==
  ASSUME IInv, NEW t \in Threads, EnterUpdate(t)
  PROVE  IInv'
  <1> DEFINE r == call[t].ref
             f == [ref |-> r, saw |-> value[r]]
  <1>1. r \in Refs /\ t \notin asleep /\ call[t].op = "update" /\ Free(r) /\ value[r] # Unset
    BY DEF EnterUpdate, At, IInv, RefTypeOK, Calls, NoCall
  <1>2. /\ f \in Frames
        /\ frames' = [frames EXCEPT ![t] = Append(@, f)]
        /\ frames'[t] \in Seq(Frames)
        /\ Len(frames'[t]) = Len(frames[t]) + 1
        /\ \A i \in DOMAIN frames[t] : i \in DOMAIN frames'[t] /\ frames'[t][i] = frames[t][i]
        /\ frames'[t][Len(frames[t]) + 1] = f
        /\ \A u \in Threads \ {t} : frames'[u] = frames[u]
    BY EnterFrames DEF IInv
  <1>3. DOMAIN frames'[t] = DOMAIN frames[t] \cup {Len(frames[t]) + 1}
    BY <1>2 DEF IInv, RefTypeOK
  <1>4. RefTypeOK'
    BY <1>1, <1>2 DEF IInv, RefTypeOK, EnterUpdate, Calls
  <1>5. \A u \in Threads : \A i \in DOMAIN frames[u] :
          i \in DOMAIN frames'[u] /\ frames'[u][i] = frames[u][i] /\ frames[u][i].ref # r
    BY <1>1, <1>2 DEF Free
  <1>6. \A u \in Threads : \A i \in DOMAIN frames'[u] :
          i \in DOMAIN frames[u] \/ (u = t /\ i = Len(frames[t]) + 1 /\ frames'[u][i] = f)
    BY <1>2, <1>3
  <1>7. value' = value
    BY DEF EnterUpdate
  <1> HIDE DEF f, r
  <1>8. f.ref = r /\ f.saw = value[r]
    BY DEF f
  <1>9. CallbackExclusive'
    <2> SUFFICES ASSUME NEW u \in Threads, NEW i \in DOMAIN frames'[u]
                 PROVE  /\ value'[frames'[u][i].ref] = frames'[u][i].saw
                        /\ \A w \in Threads : \A j \in DOMAIN frames'[w] :
                             frames'[w][j].ref = frames'[u][i].ref => w = u /\ j = i
      BY DEF CallbackExclusive
    <2>1. value'[frames'[u][i].ref] = frames'[u][i].saw
      BY <1>5, <1>6, <1>7, <1>8 DEF IInv, CallbackExclusive
    <2>2. ASSUME NEW w \in Threads, NEW j \in DOMAIN frames'[w],
                 frames'[w][j].ref = frames'[u][i].ref
          PROVE  w = u /\ j = i
      BY <1>5, <1>6, <1>8, <2>2 DEF IInv, CallbackExclusive
    <2> QED BY <2>1, <2>2
  <1>10. CallbackGiven'
    BY <1>1, <1>5, <1>6, <1>8 DEF IInv, CallbackGiven
  <1>11. StampsIssued'
    BY DEF IInv, StampsIssued, EnterUpdate
  <1>12. NoLostWakeup'
    <2> SUFFICES ASSUME NEW u \in asleep', value'[call'[u].ref] # Unset
                 PROVE  \E w \in Threads : call'[w].op = "notify" /\ call'[w].ref = call'[u].ref
      BY DEF NoLostWakeup
    <2>1. u \in asleep /\ u # t /\ call'[u] = call[u]
      BY <1>1 DEF EnterUpdate, IInv, RefTypeOK
    <2>2. PICK w \in Threads : call[w].op = "notify" /\ call[w].ref = call[u].ref
      BY <1>7, <2>1 DEF IInv, NoLostWakeup
    <2>3. call'[w] = call[w]
      BY <1>1, <2>2 DEF EnterUpdate, IInv, RefTypeOK
    <2> QED BY <2>1, <2>2, <2>3
  <1> QED BY <1>4, <1>9, <1>10, <1>11, <1>12 DEF IInv

\* The three ways to leave a callback.
LEMMA LeaveStep ==
  ASSUME IInv, NEW t \in Threads, CommitUpdate(t) \/ KeepUpdate(t) \/ ThrowUpdate(t)
  PROVE  IInv'
  <1> DEFINE f == Innermost(t)
             n == Len(frames[t])
  <1>1. /\ InCallback(t) /\ Leave(t) /\ asleep' = asleep /\ result' = result /\ calls' = calls
        /\ call[t] = NoCall /\ t \notin asleep
    <2>1. InCallback(t) /\ Leave(t) /\ asleep' = asleep /\ result' = result /\ calls' = calls
      BY DEF CommitUpdate, KeepUpdate, ThrowUpdate
    <2>2. call[t] = NoCall
      BY <2>1 DEF InCallback
    <2>3. t \notin asleep
      BY <2>2 DEF IInv, RefTypeOK, NoCall
    <2> QED BY <2>1, <2>2, <2>3
  <1>2. /\ f \in Frames /\ n \in DOMAIN frames[t] /\ f = frames[t][n]
        /\ frames' \in [Threads -> Seq(Frames)]
        /\ DOMAIN frames'[t] = DOMAIN frames[t] \ {n}
        /\ \A i \in DOMAIN frames'[t] : frames'[t][i] = frames[t][i]
        /\ \A u \in Threads \ {t} : frames'[u] = frames[u]
    BY <1>1, LeaveFrames DEF IInv, Innermost
  <1>3. f.ref \in Refs /\ f.saw \in Stamps /\ value[f.ref] = f.saw /\ f.saw # Unset
    BY <1>2 DEF Frames, IInv, CallbackExclusive, CallbackGiven
  <1>4. \A u \in Threads : \A i \in DOMAIN frames'[u] :
          i \in DOMAIN frames[u] /\ frames'[u][i] = frames[u][i] /\ frames[u][i].ref # f.ref
    BY <1>2 DEF IInv, CallbackExclusive
  <1>5. CallbackGiven'
    BY <1>4 DEF IInv, CallbackGiven
  <1>6. ASSUME \A r \in Refs : r # f.ref => value'[r] = value[r]
        PROVE  CallbackExclusive'
    <2>1. \A u \in Threads : \A i \in DOMAIN frames'[u] : frames[u][i].ref \in Refs
      <3>1. ASSUME NEW u \in Threads, NEW i \in DOMAIN frames[u]
            PROVE  frames[u][i].ref \in Refs
        <4>1. frames[u] \in Seq(Frames)
          BY DEF IInv, RefTypeOK
        <4>2. frames[u][i] \in Frames
          BY <4>1
        <4> QED BY <4>2 DEF Frames
      <3> QED BY <1>4, <3>1
    <2> QED BY <1>4, <1>6, <2>1 DEF IInv, CallbackExclusive
  <1>7. CASE CommitUpdate(t)
    <2>1. /\ value' = [value EXCEPT ![f.ref] = [id |-> stores + 1, saw |-> f.saw.id]]
          /\ call' = [call EXCEPT ![t] = Owing(f.ref)]
          /\ stores' = stores + 1
      BY <1>7 DEF CommitUpdate
    <2>2. RefTypeOK'
      <3>1. [id |-> stores + 1, saw |-> f.saw.id] \in Stamps
        BY <1>3 DEF Stamps, IInv, RefTypeOK
      <3> QED BY <1>1, <1>2, <1>3, <2>1, <3>1 DEF IInv, RefTypeOK, Calls, Owing, Owing
    <2>3. CallbackExclusive'
      BY <1>6, <2>1 DEF IInv, RefTypeOK
    <2>4. NoLostWakeup'
      <3>1. \A s \in Refs \ {f.ref} : value'[s] = value[s]
        BY <2>1 DEF IInv, RefTypeOK
      <3>2. call[t].op # "notify"
        BY <1>1 DEF NoCall
      <3> HIDE DEF f
      <3> QED BY <1>1, <1>3, <2>1, <3>1, <3>2, StoreWakes
    <2>5. StampsIssued'
      BY <1>3, <2>1 DEF IInv, RefTypeOK, StampsIssued, Stamps
    <2> QED BY <1>5, <2>2, <2>3, <2>4, <2>5 DEF IInv
  <1>8. CASE KeepUpdate(t)
    <2>1. /\ value' = value /\ stores' = stores
          /\ call' = [call EXCEPT ![t] = Owing(f.ref)]
      BY <1>8 DEF KeepUpdate
    <2>2. RefTypeOK'
      BY <1>1, <1>2, <1>3, <2>1 DEF IInv, RefTypeOK, Calls, Owing
    <2>3. CallbackExclusive'
      BY <1>6, <2>1
    <2>5. NoLostWakeup'
      <3>1. call[t].op # "notify"
        BY <1>1 DEF NoCall
      <3> HIDE DEF f
      <3> QED BY <1>1, <1>3, <2>1, <3>1, StoreWakes
    <2>6. StampsIssued'
      BY <2>1 DEF IInv, StampsIssued
    <2> QED BY <1>5, <2>2, <2>3, <2>5, <2>6 DEF IInv
  <1>9. CASE ThrowUpdate(t)
    <2>1. value' = value /\ stores' = stores /\ call' = call
      BY <1>9 DEF ThrowUpdate
    <2>2. RefTypeOK'
      BY <1>1, <1>2, <2>1 DEF IInv, RefTypeOK
    <2>3. CallbackExclusive'
      BY <1>6, <2>1
    <2>4. NoLostWakeup' /\ StampsIssued'
      BY <1>1, <2>1 DEF IInv, NoLostWakeup, StampsIssued
    <2> QED BY <1>5, <2>2, <2>3, <2>4 DEF IInv
  <1> QED BY <1>7, <1>8, <1>9

\* Every step keeps the invariant.
LEMMA StepInv == IInv /\ [Next]_vars => IInv'
  <1> SUFFICES ASSUME IInv, [Next]_vars PROVE IInv'
    OBVIOUS
  <1>1. CASE UNCHANGED vars
    BY <1>1 DEF vars, IInv, RefTypeOK, CallbackExclusive, NoLostWakeup, StampsIssued, CallbackGiven
  <1>2. ASSUME NEW t \in Threads, Perform(t)
        PROVE  IInv'
    BY <1>2, QuietSteps, SetStep, EnterStep, LeaveStep DEF Perform
  <1>3. ASSUME NEW t \in Threads, \E r \in Refs, op \in {"get", "set", "update"} : Call(t, op, r)
        PROVE  IInv'
    BY <1>3, QuietSteps
  <1> QED BY <1>1, <1>2, <1>3 DEF Next

\* The inductive invariant of Refs.
LEMMA Inv == Spec => []IInv
  BY InitInv, StepInv, PTL DEF Spec

-----------------------------------------------------------------------------
(* What follows.                                                           *)

\* Every variable keeps its type, and only threads at get or update sleep.
THEOREM RefTypeCorrect == Spec => []RefTypeOK
  BY Inv, PTL DEF IInv

\* update excludes every other store while its callback runs (Ref::update
\* holds the mutex).
THEOREM CallbackExclusiveHolds == Spec => []CallbackExclusive
  BY Inv, PTL DEF IInv

\* A sleeping reader of a Ref that has a value will be notified (Ref::set
\* and Ref::update notify after their unlock).
THEOREM NoLostWakeupHolds == Spec => []NoLostWakeup
  BY Inv, PTL DEF IInv

\* The initial values are plain writes.
LEMMA RegisterInitial == Init => Abstract!RegisterInit
  <1> SUFFICES ASSUME Init PROVE Abstract!RegisterInit
    OBVIOUS
  <1>1. \A r \in Refs : value[r] \in Stamps /\ value[r].saw = 0
    BY DEF Init, Stamps, Unset
  <1> QED BY <1>1 DEF Init, Abstract!RegisterInit, Abstract!Stamps, Abstract!Unset, Stamps, Unset

\* get reads, set writes, a committed update replaces; nothing else shows.
LEMMA RegisterStep == IInv /\ [Next]_vars => [Abstract!RegisterNext]_Abstract!registerVars
  <1> USE DEF Abstract!registerVars
  <1> SUFFICES ASSUME IInv, [Next]_vars
               PROVE  Abstract!RegisterNext \/ UNCHANGED <<value, result>>
    OBVIOUS
  <1>1. \A r \in Refs : value[r].id < stores + 1
    BY DEF IInv, StampsIssued, RefTypeOK, Stamps
  <1>2. ASSUME NEW t \in Threads, Get(t)
        PROVE  Abstract!RegisterNext
    <2>1. call[t].ref \in Refs
      BY <1>2 DEF Get, At, IInv, RefTypeOK, Calls, NoCall
    <2>2. Abstract!Read(t, call[t].ref)
      BY <1>2 DEF Get, Abstract!Read, Abstract!Unset, Unset
    <2> QED BY <2>1, <2>2 DEF Abstract!RegisterNext
  <1>3. ASSUME NEW t \in Threads, Set(t)
        PROVE  Abstract!RegisterNext
    <2>1. call[t].ref \in Refs
      BY <1>3 DEF Set, At, IInv, RefTypeOK, Calls, NoCall
    <2>2. /\ value' = [value EXCEPT ![call[t].ref] = value'[call[t].ref]]
          /\ value'[call[t].ref] = [id |-> stores + 1, saw |-> 0]
          /\ result' = result
      BY <1>3, <2>1 DEF Set, IInv, RefTypeOK
    <2>3. Abstract!Write(call[t].ref)
      BY <1>1, <2>2 DEF Abstract!Write, Abstract!Store, Abstract!New
    <2> QED BY <2>1, <2>3 DEF Abstract!RegisterNext
  <1>4. ASSUME NEW t \in Threads, CommitUpdate(t)
        PROVE  Abstract!RegisterNext
    <2> DEFINE f == Innermost(t)
    <2>1. /\ Len(frames[t]) \in DOMAIN frames[t]
          /\ f \in Frames
      BY <1>4, LeaveFrames DEF CommitUpdate, IInv
    <2>2. f.ref \in Refs /\ value[f.ref] = f.saw /\ f.saw # Unset
      BY <2>1 DEF Frames, IInv, CallbackExclusive, CallbackGiven, Innermost
    <2>3. /\ value' = [value EXCEPT ![f.ref] = [id |-> stores + 1, saw |-> f.saw.id]]
          /\ result' = result
      BY <1>4 DEF CommitUpdate
    <2> HIDE DEF f
    <2>4. /\ value' = [value EXCEPT ![f.ref] = value'[f.ref]]
          /\ value'[f.ref] = [id |-> stores + 1, saw |-> value[f.ref].id]
      BY <2>2, <2>3 DEF IInv, RefTypeOK
    <2>5. Abstract!Replace(f.ref)
      BY <1>1, <2>2, <2>3, <2>4
      DEF Abstract!Replace, Abstract!Store, Abstract!New, Abstract!Unset, Unset
    <2> QED BY <2>2, <2>5 DEF Abstract!RegisterNext
  <1>5. ASSUME NEW t \in Threads,
               \/ Wait(t) \/ Notify(t) \/ EnterUpdate(t) \/ KeepUpdate(t) \/ ThrowUpdate(t)
               \/ \E r \in Refs, op \in {"get", "set", "update"} : Call(t, op, r)
        PROVE  UNCHANGED <<value, result>>
    BY <1>5 DEF Wait, Notify, EnterUpdate, KeepUpdate, ThrowUpdate, Call
  <1> QED BY <1>2, <1>3, <1>4, <1>5 DEF Next, Perform, vars

\* Refs are registers: get, set and update each take effect at one instant,
\* and update replaces exactly the value its callback was given.
THEOREM RefImplementsRegister == Spec => ImplementsRegister
  <1>1. Spec => [][Abstract!RegisterNext]_Abstract!registerVars
    BY Inv, RegisterStep, PTL DEF Spec
  <1>2. Spec => Abstract!RegisterInit
    BY RegisterInitial DEF Spec
  <1> QED BY <1>1, <1>2, PTL DEF ImplementsRegister, Abstract!RegisterSpec
=============================================================================
