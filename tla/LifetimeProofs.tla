--------------------------- MODULE LifetimeProofs ---------------------------
(***************************************************************************)
(* Ownership of Cells and Processes, for every number of them and every    *)
(* program.  That no handle dangles needs no discipline.  That joins only  *)
(* go down an order, and so never meet themselves, needs the documented    *)
(* one (Acyclic), carried along by Ordered, what is held respects it, and  *)
(* UnderMutex, what is released or joined under a mutex does too.          *)
(***************************************************************************)
EXTENDS Lifetime, TLAPS

\* A worker between items holds nothing, and only a callback has locals.
Between ==
  \A e \in Entities :
    /\ phase[e] \in {"check", "exited"} => holds[e] = {} /\ kept[e] = {} /\ staged[e] = <<>>
    /\ phase[e] # "callback" => local[e] = {}

\* Who holds a mutex, or waits for one, has a handle of its entity or is its
\* worker, and holds no other.
Callers ==
  /\ \A c \in Entities : lock[c] = "main" => c \in main \cap Cells
  /\ \A c, e \in Entities : lock[c] = e =>
       \/ phase[e] = "callback" /\ call[e] = "nobody" /\ c \in Reach(e) \cap Cells
       \/ c = e /\ phase[e] \in {"clearing", "committing"}
  /\ \A e \in Entities : call[e] # "nobody" => phase[e] = "callback" /\ call[e] \in Reach(e)
  /\ \A c, d \in Entities : lock[c] # "free" /\ lock[c] = lock[d] => c = d

OwnerInv == LifetimeTypeOK /\ Between /\ Callers /\ HeldAlive

\* A send that goes down the order and passes on what is lower still.
Respects(e, send) == send.to \in Below(e) /\ send.held \subseteq Below(send.to)

\* Everything e and its work hold, or its worker releases, is below e.
Ordered ==
  \A e \in Entities :
    /\ owned[e] \subseteq Below(e)
    /\ Held(queue[e]) \subseteq Below(e)
    /\ holds[e] \subseteq Below(e)
    /\ local[e] \subseteq Below(e)
    /\ kept[e] \subseteq Below(e)
    /\ \A i \in DOMAIN staged[e] : Respects(e, staged[e][i])
    /\ drop[e] \subseteq Below(e)

\* What a thread releases or joins under the mutex of c is below c.
UnderMutex ==
  \A c \in Entities, th \in Threads :
    lock[c] = th => drop[th] \subseteq Below(c) /\ Joining(th) \subseteq Below(c)

\* A crash is a worker that destroys its own entity.
CrashIsSelfJoin == crashed => \E x \in Entities : life[x] = "joining" /\ by[x] = x

OrderInv == OwnerInv /\ Ordered /\ UnderMutex /\ JoinsDescend /\ CrashIsSelfJoin

-----------------------------------------------------------------------------
(* Lemmas about captures.                                                  *)

\* Held collects the captures of the items of a queue.
LEMMA HeldDef ==
  ASSUME NEW q, NEW x
  PROVE  x \in Held(q) <=> \E i \in DOMAIN q : x \in q[i]
  BY DEF Held, ToSet

\* Appending adds exactly the new item's captures.
LEMMA HeldAppend ==
  ASSUME NEW q \in Seq(Captures), NEW h \in Captures
  PROVE  Held(Append(q, h)) = Held(q) \cup h
  <1> DEFINE a == Append(q, h)
  <1>1. /\ DOMAIN a = DOMAIN q \cup {Len(q) + 1}
        /\ \A i \in DOMAIN q : a[i] = q[i]
        /\ a[Len(q) + 1] = h
    OBVIOUS
  <1> HIDE DEF a
  <1>2. ASSUME NEW x PROVE x \in Held(a) <=> x \in Held(q) \cup h
    <2>1. x \in Held(a) <=> \E i \in DOMAIN a : x \in a[i]
      BY HeldDef
    <2>2. x \in Held(q) <=> \E i \in DOMAIN q : x \in q[i]
      BY HeldDef
    <2> QED BY <1>1, <2>1, <2>2
  <1> QED BY <1>2 DEF a

\* The captures of a queue are those of its first item and of the rest.
LEMMA HeldHeadTail ==
  ASSUME NEW q \in Seq(Captures), q # <<>>
  PROVE  /\ Tail(q) \in Seq(Captures)
         /\ Head(q) \in Captures
         /\ Head(q) \subseteq Held(q)
         /\ Held(Tail(q)) \subseteq Held(q)
  <1>1. /\ 1 \in DOMAIN q /\ Head(q) = q[1]
        /\ \A i \in DOMAIN Tail(q) : i + 1 \in DOMAIN q /\ Tail(q)[i] = q[i + 1]
    OBVIOUS
  <1>2. \A x : x \in Head(q) => x \in Held(q)
    BY <1>1, HeldDef
  <1>3. ASSUME NEW x \in Held(Tail(q)) PROVE x \in Held(q)
    <2>1. PICK i \in DOMAIN Tail(q) : x \in Tail(q)[i]
      BY HeldDef
    <2> QED BY <1>1, <2>1, HeldDef
  <1> QED BY <1>2, <1>3

\* An empty queue holds no handles.
LEMMA HeldEmpty == Held(<<>>) = {}
  <1>1. \A x : x \notin Held(<<>>)
    BY HeldDef
  <1> QED BY <1>1

\* A list of staged sends holds their targets and what they pass on.
LEMMA HandlesOfDef ==
  ASSUME NEW q, NEW x
  PROVE  x \in HandlesOf(q) <=> \E i \in DOMAIN q : x = q[i].to \/ x \in q[i].held
  BY DEF HandlesOf, ToSet

\* Staging one more send adds its handles.
LEMMA HandlesOfAppend ==
  ASSUME NEW q \in Seq(StagedSends), NEW s \in StagedSends
  PROVE  \A x : x \in HandlesOf(Append(q, s)) <=> x \in HandlesOf(q) \/ x = s.to \/ x \in s.held
  <1> DEFINE a == Append(q, s)
  <1>1. /\ DOMAIN a = DOMAIN q \cup {Len(q) + 1}
        /\ \A i \in DOMAIN q : a[i] = q[i]
        /\ a[Len(q) + 1] = s
    OBVIOUS
  <1> HIDE DEF a
  <1>2. ASSUME NEW x
        PROVE  x \in HandlesOf(a) <=> x \in HandlesOf(q) \/ x = s.to \/ x \in s.held
    <2>1. x \in HandlesOf(a) <=> \E i \in DOMAIN a : x = a[i].to \/ x \in a[i].held
      BY HandlesOfDef
    <2>2. x \in HandlesOf(q) <=> \E i \in DOMAIN q : x = q[i].to \/ x \in q[i].held
      BY HandlesOfDef
    <2> QED BY <1>1, <2>1, <2>2
  <1> QED BY <1>2 DEF a

\* Taking the first staged send off removes handles only.
LEMMA HandlesOfHeadTail ==
  ASSUME NEW q \in Seq(StagedSends), q # <<>>
  PROVE  /\ Tail(q) \in Seq(StagedSends)
         /\ Head(q) \in StagedSends
         /\ 1 \in DOMAIN q /\ Head(q) = q[1]
         /\ \A i \in DOMAIN Tail(q) : i + 1 \in DOMAIN q /\ Tail(q)[i] = q[i + 1]
         /\ Head(q).to \in HandlesOf(q)
         /\ Head(q).held \subseteq HandlesOf(q)
         /\ HandlesOf(Tail(q)) \subseteq HandlesOf(q)
  <1>1. /\ 1 \in DOMAIN q /\ Head(q) = q[1]
        /\ \A i \in DOMAIN Tail(q) : i + 1 \in DOMAIN q /\ Tail(q)[i] = q[i + 1]
        /\ Tail(q) \in Seq(StagedSends) /\ Head(q) \in StagedSends
    OBVIOUS
  <1>2. Head(q).to \in HandlesOf(q) /\ \A x : x \in Head(q).held => x \in HandlesOf(q)
    BY <1>1, HandlesOfDef
  <1>3. ASSUME NEW x \in HandlesOf(Tail(q)) PROVE x \in HandlesOf(q)
    <2>1. PICK i \in DOMAIN Tail(q) : x = Tail(q)[i].to \/ x \in Tail(q)[i].held
      BY HandlesOfDef
    <2> QED BY <1>1, <2>1, HandlesOfDef
  <1> QED BY <1>1, <1>2, <1>3

\* No staged sends hold no handles.
LEMMA HandlesOfEmpty == HandlesOf(<<>>) = {}
  <1>1. \A x : x \notin HandlesOf(<<>>)
    BY HandlesOfDef
  <1> QED BY <1>1

\* What a queue holds are handles of entities.
LEMMA HeldInEntities ==
  ASSUME NEW q \in Seq(Captures)
  PROVE  Held(q) \in Captures
  <1>1. \A i \in DOMAIN q : q[i] \in Captures
    OBVIOUS
  <1>2. \A x \in Held(q) : x \in Entities
    BY <1>1, HeldDef DEF Captures
  <1> QED BY <1>2 DEF Captures

\* What staged sends hold are handles of entities.
LEMMA HandlesOfInEntities ==
  ASSUME NEW q \in Seq(StagedSends)
  PROVE  HandlesOf(q) \in Captures
  <1>1. \A i \in DOMAIN q : q[i] \in StagedSends
    OBVIOUS
  <1>2. \A i \in DOMAIN q : q[i].to \in Entities /\ q[i].held \subseteq Entities
    BY <1>1 DEF StagedSends, Captures
  <1> QED BY <1>2, HandlesOfDef DEF Captures

-----------------------------------------------------------------------------
(* Steps that hand handles on and destroy nothing.                         *)

\* No new handle appears and no destructor starts or ends.
Moves ==
  /\ \A x \in Entities : IsHeld(x)' => IsHeld(x)
  /\ life' = life /\ by' = by /\ crashed' = crashed

\* Moving handles from one holder to another changes no ownership.
LEMMA MovesKeep ==
  ASSUME OwnerInv, Moves, LifetimeTypeOK', Between', Callers'
  PROVE  /\ OwnerInv'
         /\ OrderInv /\ Ordered' /\ UnderMutex' => OrderInv'
  <1>1. HeldAlive'
    BY DEF OwnerInv, HeldAlive, Moves
  <1>2. ASSUME OrderInv, UnderMutex' PROVE JoinsDescend'
    <2>1. \A c \in Entities : lock'[c] # "free" => lock'[c] \in Threads
      BY DEF LifetimeTypeOK
    <2>2. ASSUME NEW e \in Entities, NEW x \in Entities,
                 lock'[e] # "free", (x \in Joining(lock[e]))'
          PROVE  x \in Below(e)
      BY <1>2, <2>1, <2>2 DEF UnderMutex
    <2>3. \A x \in Entities : life'[x] = "joining" =>
            by'[x] = "main" \/ (by'[x] \in Entities /\ x \in Below(by'[x]))
      BY <1>2 DEF Moves, OrderInv, JoinsDescend
    <2> QED BY <2>2, <2>3 DEF JoinsDescend
  <1>3. OrderInv => CrashIsSelfJoin'
    BY DEF Moves, OrderInv, CrashIsSelfJoin
  <1> QED BY <1>1, <1>2, <1>3 DEF OwnerInv, OrderInv

\* A thread in no callback, and not at a failure or a commit, has no mutex and
\* waits for none.
LEMMA NoMutex ==
  ASSUME Callers, NEW e \in Entities, phase[e] \notin {"callback", "clearing", "committing"}
  PROVE  call[e] = "nobody" /\ \A c \in Entities : lock[c] # e
  BY DEF Callers

\* Nothing changes for who holds or waits for a mutex when none is newly
\* taken or waited for, and whoever still has one reaches what it reached.
LEMMA CallersKept ==
  ASSUME Callers, main \subseteq main',
         \A c \in Entities : lock'[c] = lock[c] \/ lock'[c] = "free",
         \A e \in Entities :
           \/ phase'[e] = phase[e] /\ call'[e] = call[e] /\ Reach(e) \subseteq Reach(e)'
           \/ call'[e] = "nobody" /\ \A c \in Entities : lock'[c] # e
  PROVE  Callers'
  <1>1. \A c \in Entities : lock'[c] = "main" => c \in main' \cap Cells
    BY DEF Callers
  <1>2. ASSUME NEW c \in Entities, NEW e \in Entities, lock'[c] = e
        PROVE  \/ phase'[e] = "callback" /\ call'[e] = "nobody" /\ c \in Reach(e)' \cap Cells
               \/ c = e /\ phase'[e] \in {"clearing", "committing"}
    <2>1. lock[c] = e /\ phase'[e] = phase[e] /\ call'[e] = call[e] /\ Reach(e) \subseteq Reach(e)'
      BY <1>2, ThreadNames
    <2> QED BY <2>1 DEF Callers
  <1>3. \A e \in Entities : call'[e] # "nobody" => phase'[e] = "callback" /\ call'[e] \in Reach(e)'
    BY DEF Callers
  <1>4. \A c, d \in Entities : lock'[c] # "free" /\ lock'[c] = lock'[d] => c = d
    BY DEF Callers
  <1> QED BY <1>1, <1>2, <1>3, <1>4 DEF Callers

\* The same for what is released under mutexes: it only shrinks, or the thread
\* has none.
LEMMA MutexKept ==
  ASSUME UnderMutex, Moves,
         \A c \in Entities : lock'[c] = lock[c] \/ lock'[c] = "free",
         \A th \in Threads : drop'[th] \subseteq drop[th] \/ \A c \in Entities : lock'[c] # th
  PROVE  UnderMutex'
  <1>1. \A th : Joining(th)' = Joining(th)
    BY DEF Moves, Joining
  <1> SUFFICES ASSUME NEW c \in Entities, NEW th \in Threads, lock'[c] = th
               PROVE  drop'[th] \subseteq Below(c) /\ Joining(th)' \subseteq Below(c)
    BY DEF UnderMutex
  <1>2. lock[c] = th
    BY ThreadNames DEF Threads
  <1> QED BY <1>1, <1>2 DEF UnderMutex

\* A send of the main thread keeps ownership and order.
LEMMA SendStep ==
  ASSUME OwnerInv, NEW e \in Entities, NEW held \in Captures, Send(e, held)
  PROVE  OwnerInv' /\ (OrderInv => OrderInv')
  <1>1. LifetimeTypeOK /\ Between /\ Callers
    BY DEF OwnerInv
  <1>2. life[e] = "live"
    BY DEF OwnerInv, HeldAlive, IsHeld, Send
  <1>3. UNCHANGED <<main, owned, phase, holds, local, kept, staged, call, stale, drop, lock, setting,
                    life, by, crashed, closed>>
    BY DEF Send, workerVars, itemVars, mutexVars, fateVars
  <1>4. Held(queue'[e]) = Held(queue[e]) \cup held /\ \A u \in Entities \ {e} : queue'[u] = queue[u]
    BY <1>1, HeldAppend DEF Send, LifetimeTypeOK
  <1>5. LifetimeTypeOK'
    BY <1>1, <1>2, <1>3 DEF Send, LifetimeTypeOK
  <1>6. Between' /\ Callers'
    <2>1. \A u \in Entities : Reach(u)' = Reach(u)
      BY <1>3, ThreadNames DEF Reach
    <2> QED BY <1>1, <1>3, <2>1, CallersKept DEF Between
  <1>7. Moves
    BY <1>3, <1>4 DEF Send, Moves, IsHeld, Handles, StagedHandles
  <1>8. Ordered => Ordered'
    BY <1>3, <1>4 DEF Send, Ordered
  <1>9. UnderMutex => UnderMutex'
    BY <1>3, <1>7, MutexKept
  <1> QED BY <1>5, <1>6, <1>7, <1>8, <1>9, MovesKeep DEF OrderInv

\* Reading a state keeps ownership and order.
LEMMA GetStep ==
  ASSUME OwnerInv, NEW e \in Entities, Get(e)
  PROVE  OwnerInv' /\ (OrderInv => OrderInv')
  <1>1. LifetimeTypeOK /\ Between /\ Callers
    BY DEF OwnerInv
  <1>2. UNCHANGED <<owned, queue, phase, holds, local, kept, staged, call, stale, drop, lock, setting,
                    life, by, crashed, closed>> /\ main' = main \cup owned[e]
    BY DEF Get, workerVars, itemVars, mutexVars, fateVars
  <1>3. LifetimeTypeOK'
    BY <1>1, <1>2 DEF LifetimeTypeOK, Captures
  <1>4. Between'
    BY <1>1, <1>2 DEF Between
  <1>5. \A u \in Entities : Reach(u)' = Reach(u)
    BY <1>2, ThreadNames DEF Reach
  <1>6. Callers'
    BY <1>1, <1>2, <1>5, CallersKept
  <1>7. Moves
    BY <1>2 DEF Moves, IsHeld, Handles, StagedHandles
  <1>8. Ordered => Ordered'
    BY <1>2 DEF Ordered
  <1>9. UnderMutex => UnderMutex'
    BY <1>2, <1>7, MutexKept
  <1> QED BY <1>3, <1>4, <1>6, <1>7, <1>8, <1>9, MovesKeep DEF OrderInv

\* The main thread that drops a handle keeps ownership and order.
LEMMA LetGoStep ==
  ASSUME OwnerInv, NEW e \in Entities, LetGo(e)
  PROVE  OwnerInv' /\ (OrderInv => OrderInv')
  <1>1. LifetimeTypeOK /\ Between /\ Callers
    BY DEF OwnerInv
  <1>2. UNCHANGED <<owned, queue, phase, holds, local, kept, staged, call, stale, lock, setting,
                    life, by, crashed, closed>> /\ main' = main \ {e} /\ e \in main
    BY DEF LetGo, workerVars, itemVars, mutexVars, fateVars
  <1>3. drop'["main"] = {e} /\ \A th \in Threads \ {"main"} : drop'[th] = drop[th]
    BY <1>1 DEF LetGo, LifetimeTypeOK, Threads
  <1>4. \A c \in Entities : lock[c] # "main"
    BY DEF LetGo, MainRuns, Unlocked
  <1>5. LifetimeTypeOK'
    BY <1>1, <1>2 DEF LetGo, LifetimeTypeOK, Captures, Threads
  <1>6. Between'
    BY <1>1, <1>2 DEF Between
  <1>7. Callers'
    <2>1. \A u \in Entities : Reach(u)' = Reach(u)
      BY <1>2, ThreadNames DEF Reach
    <2> QED BY <1>1, <1>2, <1>4, <2>1 DEF Callers
  <1>8. Moves
    BY <1>2, <1>3 DEF Moves, IsHeld, Handles, StagedHandles, Threads
  <1>9. Ordered => Ordered'
    BY <1>2, <1>3, ThreadNames DEF Ordered, Threads
  <1>10. UnderMutex => UnderMutex'
    BY <1>2, <1>3, <1>4, <1>8, MutexKept
  <1> QED BY <1>5, <1>6, <1>7, <1>8, <1>9, <1>10, MovesKeep DEF OrderInv

\* What a thread reaches is held, and below it if it is a worker.
LEMMA ReachHeld ==
  ASSUME NEW th \in Threads
  PROVE  /\ \A x \in Entities : x \in Reach(th) => IsHeld(x)
         /\ Ordered /\ th # "main" => Reach(th) \subseteq Below(th)
  BY DEF Reach, IsHeld, Handles, Ordered, Threads

\* A restart takes the mutex and clears the queue: ownership is kept, and order
\* when no cycle is possible.
LEMMA RestartStep ==
  ASSUME OwnerInv, NEW th \in Threads, NEW c \in Entities, Restart(th, c)
  PROVE  OwnerInv' /\ (Acyclic /\ OrderInv => OrderInv')
  <1>1. LifetimeTypeOK /\ Between /\ Callers
    BY DEF OwnerInv
  <1>2. /\ UNCHANGED <<main, owned, phase, holds, local, kept, staged, setting, life, by, crashed>>
        /\ c \in Cells /\ lock[c] = "free" /\ Runs(th)
        /\ lock' = [lock EXCEPT ![c] = th]
        /\ call' = [e \in Entities |-> IF e = th THEN "nobody" ELSE call[e]]
        /\ queue' = [queue EXCEPT ![c] = <<>>]
        /\ drop' = [drop EXCEPT ![th] = Held(queue[c])]
        /\ closed' = [closed EXCEPT ![c] = FALSE]
        /\ stale' = [stale EXCEPT ![c] = Uncommitted(c)]
    BY DEF Restart, fateVars
  <1>3. /\ th = "main" => c \in main /\ \A d \in Entities : lock[d] # "main"
        /\ th # "main" => th \in Entities /\ call[th] = c
    BY DEF Restart, Unlocked, Threads
  <1>4. /\ th # "main" => phase[th] = "callback" /\ c \in Reach(th)
        /\ \A d \in Entities : lock[d] # th
    <2>1. CASE th = "main"
      BY <1>3, <2>1
    <2>2. CASE th # "main"
      <3>1. call[th] # "nobody"
        BY <1>3, <2>2, ThreadNames
      <3>2. phase[th] = "callback" /\ c \in Reach(th)
        BY <1>1, <1>3, <2>2, <3>1 DEF Callers
      <3> QED BY <1>1, <1>3, <2>2, <3>1, <3>2 DEF Callers
    <2> QED BY <2>1, <2>2
  <1>5. /\ drop'[th] = Held(queue[c]) /\ Held(queue[c]) \in Captures
        /\ \A t \in Threads \ {th} : drop'[t] = drop[t]
        /\ Held(queue'[c]) = {}
        /\ \A u \in Entities \ {c} : queue'[u] = queue[u]
        /\ lock'[c] = th /\ \A u \in Entities \ {c} : lock'[u] = lock[u]
        /\ \A u \in Entities : u # th => call'[u] = call[u]
        /\ \A u \in Entities : u = th => call'[u] = "nobody"
    BY <1>1, <1>2, HeldEmpty, HeldInEntities DEF LifetimeTypeOK
  <1>6. LifetimeTypeOK'
    <2>1. /\ queue' \in [Entities -> Seq(Captures)] /\ drop' \in [Threads -> Captures]
          /\ call' \in [Entities -> Entities \cup {"nobody"}]
          /\ lock' \in [Entities -> Threads \cup {"free"}]
      BY <1>1, <1>2, <1>5 DEF LifetimeTypeOK
    <2>2. closed' \in [Entities -> BOOLEAN]
      BY <1>1, <1>2 DEF LifetimeTypeOK
    <2>3. stale' \in [Entities -> BOOLEAN]
      BY <1>1, <1>2 DEF LifetimeTypeOK, Uncommitted
    <2>4. \A u \in Entities : queue[u] = <<>> => queue'[u] = <<>>
      BY <1>2, <1>5, <1>1 DEF LifetimeTypeOK
    <2> QED BY <1>1, <1>2, <2>1, <2>2, <2>3, <2>4 DEF LifetimeTypeOK
  <1>7. Between'
    BY <1>1, <1>2 DEF Between
  <1>8. Callers'
    <2>1. \A u \in Entities : Reach(u)' = Reach(u)
      BY <1>2, ThreadNames DEF Reach
    <2>2. \A d \in Entities : lock'[d] = "main" => d \in main' \cap Cells
      BY <1>1, <1>2, <1>3, <1>5 DEF Callers
    <2>3. \A d, e \in Entities : lock'[d] = e =>
            \/ phase'[e] = "callback" /\ call'[e] = "nobody" /\ d \in Reach(e)' \cap Cells
            \/ d = e /\ phase'[e] \in {"clearing", "committing"}
      BY <1>1, <1>2, <1>4, <1>5, <2>1, ThreadNames DEF Callers
    <2>4. \A e \in Entities : call'[e] # "nobody" => phase'[e] = "callback" /\ call'[e] \in Reach(e)'
      BY <1>1, <1>2, <1>5, <2>1 DEF Callers
    <2>5. \A d, e \in Entities : lock'[d] # "free" /\ lock'[d] = lock'[e] => d = e
      BY <1>1, <1>4, <1>5 DEF Callers
    <2> QED BY <2>2, <2>3, <2>4, <2>5 DEF Callers
  <1>9. Moves
    <2>1. \A u \in Entities : Handles(u)' \subseteq Handles(u)
      BY <1>2, <1>5 DEF Handles, StagedHandles
    <2>2. \A x \in Entities : x \in drop'[th] => IsHeld(x)
      BY <1>5 DEF IsHeld, Handles
    <2> QED BY <1>2, <1>5, <2>1, <2>2 DEF Moves, IsHeld
  <1>10. ASSUME Acyclic, Ordered PROVE Ordered'
    <2>1. th # "main" => Held(queue[c]) \subseteq Below(th)
      <3>1. th # "main" => c \in Below(th)
        BY <1>4, <1>10, ReachHeld
      <3>2. Held(queue[c]) \subseteq Below(c)
        BY <1>10 DEF Ordered
      <3> QED BY <1>3, <1>10, <3>1, <3>2 DEF Acyclic, Below
    <2>2. \A e \in Entities : drop'[e] \subseteq Below(e)
      BY <1>5, <1>10, <2>1, ThreadNames DEF Ordered, Threads
    <2>3. \A e \in Entities : Held(queue'[e]) \subseteq Below(e)
      BY <1>5, <1>10 DEF Ordered
    <2> QED BY <1>2, <1>10, <2>2, <2>3 DEF Ordered
  <1>11. ASSUME Ordered, UnderMutex PROVE UnderMutex'
    <2>1. \A t : Joining(t)' = Joining(t)
      BY <1>2 DEF Joining
    <2>2. Held(queue[c]) \subseteq Below(c) /\ Joining(th) = {}
      BY <1>2, <1>11 DEF Ordered, Runs
    <2> QED BY <1>4, <1>5, <1>11, <2>1, <2>2 DEF UnderMutex
  <1> QED BY <1>6, <1>7, <1>8, <1>9, <1>10, <1>11, MovesKeep DEF OrderInv

\* A restart sets the state, releasing the old one under both mutexes.
LEMMA RestartSetsStep ==
  ASSUME OwnerInv, NEW th \in Threads, NEW c \in Entities, NEW new \in Captures, RestartSets(th, c, new)
  PROVE  OwnerInv' /\ (Acyclic /\ OrderInv => OrderInv')
  <1>1. LifetimeTypeOK /\ Between /\ Callers /\ HeldAlive
    BY DEF OwnerInv
  <1>2. /\ UNCHANGED <<main, queue, phase, holds, local, kept, staged, call, stale, lock,
                       life, by, crashed, closed>>
        /\ lock[c] = th /\ Runs(th)
        /\ new \subseteq Reach(th) /\ new \subseteq Below(c)
        /\ owned' = [owned EXCEPT ![c] = new]
        /\ drop' = [drop EXCEPT ![th] = owned[c]]
        /\ setting' = [setting EXCEPT ![c] = TRUE]
        /\ th = "main" \/ (th \in Entities /\ phase[th] = "callback")
    BY DEF RestartSets, Restarting, workerVars, itemVars, fateVars, Threads
  <1>3. c \in Cells /\ c \in Reach(th)
    <2>1. CASE th = "main"
      BY <1>1, <1>2, <2>1 DEF Callers, Reach
    <2>2. CASE th # "main"
      BY <1>1, <1>2, <2>2 DEF Callers
    <2> QED BY <2>1, <2>2
  <1>4. life[c] = "live"
    BY <1>1, <1>3, ReachHeld DEF HeldAlive
  <1>5. /\ drop'[th] = owned[c] /\ \A t \in Threads \ {th} : drop'[t] = drop[t]
        /\ owned'[c] = new /\ \A u \in Entities \ {c} : owned'[u] = owned[u]
        /\ \A x \in new : IsHeld(x)
    BY <1>1, <1>2, ReachHeld DEF LifetimeTypeOK, Captures
  <1>6. LifetimeTypeOK'
    <2>1. owned' \in [Entities -> Captures] /\ drop' \in [Threads -> Captures]
      BY <1>1, <1>2 DEF LifetimeTypeOK
    <2>2. setting' \in [Entities -> BOOLEAN]
      BY <1>1, <1>2 DEF LifetimeTypeOK
    <2>3. \A u \in Entities : life[u] = "gone" => owned'[u] = {}
      BY <1>1, <1>4, <1>5 DEF LifetimeTypeOK
    <2> QED BY <1>1, <1>2, <2>1, <2>2, <2>3 DEF LifetimeTypeOK
  <1>7. Between'
    BY <1>1, <1>2 DEF Between
  <1>8. Callers'
    <2>1. \A u \in Entities : Reach(u)' = Reach(u)
      BY <1>2, <1>3, <1>5, ThreadNames, KindsAssumption DEF Reach
    <2> QED BY <1>1, <1>2, <2>1, CallersKept
  <1>9. Moves
    BY <1>2, <1>5 DEF Moves, IsHeld, Handles, StagedHandles
  <1>10. ASSUME Acyclic, Ordered PROVE Ordered'
    <2>1. th # "main" => owned[c] \subseteq Below(th)
      <3>1. th # "main" => c \in Below(th)
        BY <1>3, <1>10, ReachHeld
      <3>2. owned[c] \subseteq Below(c)
        BY <1>10 DEF Ordered
      <3> QED BY <1>2, <1>10, <3>1, <3>2 DEF Acyclic, Below
    <2> QED BY <1>2, <1>5, <1>10, <2>1, ThreadNames DEF Ordered, Threads
  <1>11. ASSUME Ordered, UnderMutex PROVE UnderMutex'
    <2>1. \A t : Joining(t)' = Joining(t)
      BY <1>2 DEF Joining
    <2>2. owned[c] \subseteq Below(c)
      BY <1>11 DEF Ordered
    <2>3. \A d \in Entities : lock[d] = th => d = c
      BY <1>1, <1>2, ThreadNames DEF Callers, Threads
    <2> QED BY <1>2, <1>5, <1>11, <2>1, <2>2, <2>3 DEF UnderMutex
  <1> QED BY <1>6, <1>7, <1>8, <1>9, <1>10, <1>11, MovesKeep DEF OrderInv

\* A restart lets go of the mutexes.
LEMMA RestartReturnsStep ==
  ASSUME OwnerInv, NEW th \in Threads, NEW c \in Entities, RestartReturns(th, c)
  PROVE  OwnerInv' /\ (OrderInv => OrderInv')
  <1>1. LifetimeTypeOK /\ Between /\ Callers
    BY DEF OwnerInv
  <1>2. /\ UNCHANGED <<main, owned, queue, phase, holds, local, kept, staged, call, stale, drop,
                       life, by, crashed, closed>>
        /\ lock' = [lock EXCEPT ![c] = "free"]
        /\ setting' = [setting EXCEPT ![c] = FALSE]
    BY DEF RestartReturns, workerVars, itemVars, fateVars
  <1>3. LifetimeTypeOK'
    BY <1>1, <1>2 DEF LifetimeTypeOK
  <1>4. Between'
    BY <1>1, <1>2 DEF Between
  <1>5. \A d \in Entities : lock'[d] = lock[d] \/ lock'[d] = "free"
    BY <1>1, <1>2 DEF LifetimeTypeOK
  <1>6. \A u \in Entities : Reach(u)' = Reach(u)
    BY <1>2, ThreadNames DEF Reach
  <1>7. Callers'
    BY <1>1, <1>2, <1>5, <1>6, CallersKept
  <1>8. Moves
    BY <1>2 DEF Moves, IsHeld, Handles, StagedHandles
  <1>9. Ordered => Ordered'
    BY <1>2 DEF Ordered
  <1>10. UnderMutex => UnderMutex'
    BY <1>2, <1>5, <1>8, MutexKept
  <1> QED BY <1>3, <1>4, <1>7, <1>8, <1>9, <1>10, MovesKeep DEF OrderInv

-----------------------------------------------------------------------------
(* Steps of a worker.                                                      *)

\* The steps that change only phases, and what waits at mutexes: a worker that
\* exits, one whose commit is over, and a callback that calls.
LEMMA QuietStep ==
  ASSUME OwnerInv, NEW e \in Entities,
         Exit(e) \/ Committed(e) \/ \E c \in Entities : Call(e, c)
  PROVE  OwnerInv' /\ (OrderInv => OrderInv')
  <1>1. LifetimeTypeOK /\ Between /\ Callers
    BY DEF OwnerInv
  <1>2. UNCHANGED <<main, owned, queue, holds, local, kept, staged, drop, stale, life, by, crashed, closed>>
    BY DEF Exit, Committed, Call, itemVars, fateVars
  <1>3. \A u \in Entities : Reach(u)' = Reach(u)
    BY <1>2, ThreadNames DEF Reach
  <1>4. LifetimeTypeOK' /\ Between' /\ Callers' /\ \A c \in Entities : lock'[c] = lock[c] \/ lock'[c] = "free"
    <2>1. CASE Exit(e)
      <3>1. /\ UNCHANGED <<call, lock, setting>> /\ phase' = [phase EXCEPT ![e] = "exited"]
            /\ phase[e] = "check"
        BY <2>1 DEF Exit, Idle, itemVars, mutexVars
      <3>2. LifetimeTypeOK' /\ Between'
        BY <1>1, <1>2, <3>1 DEF LifetimeTypeOK, Phases, Between
      <3>3. call[e] = "nobody" /\ \A c \in Entities : lock[c] # e
        BY <1>1, <3>1, NoMutex
      <3>4. \A u \in Entities \ {e} : phase'[u] = phase[u]
        BY <1>1, <3>1 DEF LifetimeTypeOK
      <3> QED BY <1>1, <1>2, <1>3, <3>1, <3>2, <3>3, <3>4, CallersKept
    <2>2. CASE Committed(e)
      <3>1. /\ call' = call /\ phase[e] = "committing" /\ phase' = [phase EXCEPT ![e] = "dispatch"]
            /\ lock' = [lock EXCEPT ![e] = "free"] /\ setting' = [setting EXCEPT ![e] = FALSE]
        BY <2>2 DEF Committed, itemVars
      <3>2. LifetimeTypeOK' /\ Between'
        BY <1>1, <1>2, <3>1 DEF LifetimeTypeOK, Phases, Between
      <3>3. call[e] = "nobody" /\ \A c \in Entities : lock[c] = e => c = e
        BY <1>1, <3>1 DEF Callers
      <3>4. /\ \A u \in Entities \ {e} : phase'[u] = phase[u] /\ lock'[u] = lock[u]
            /\ lock'[e] = "free"
        BY <1>1, <3>1 DEF LifetimeTypeOK
      <3>5. \A c \in Entities : lock'[c] # e
        BY <3>3, <3>4, ThreadNames
      <3> QED BY <1>1, <1>2, <1>3, <3>1, <3>2, <3>3, <3>4, <3>5, CallersKept
    <2>3. ASSUME NEW c \in Entities, Call(e, c)
          PROVE  LifetimeTypeOK' /\ Between' /\ Callers' /\ lock' = lock
      <3>1. /\ UNCHANGED <<phase, lock, setting>> /\ call' = [call EXCEPT ![e] = c]
            /\ phase[e] = "callback" /\ c \in Reach(e) /\ \A d \in Entities : lock[d] # e
        BY <2>3 DEF Call, InCallback, Unlocked, mutexVars
      <3>2. LifetimeTypeOK' /\ Between'
        BY <1>1, <1>2, <3>1 DEF LifetimeTypeOK, Between
      <3>3. call'[e] = c /\ \A u \in Entities \ {e} : call'[u] = call[u]
        BY <1>1, <3>1 DEF LifetimeTypeOK
      <3>4. Callers'
        BY <1>1, <1>2, <1>3, <3>1, <3>3 DEF Callers
      <3> QED BY <3>1, <3>2, <3>4
    <2> QED BY <2>1, <2>2, <2>3
  <1>5. Moves
    BY <1>2 DEF Moves, IsHeld, Handles, StagedHandles
  <1>6. Ordered => Ordered'
    BY <1>2 DEF Ordered
  <1>7. UnderMutex => UnderMutex'
    BY <1>2, <1>4, <1>5, MutexKept
  <1> QED BY <1>4, <1>5, <1>6, <1>7, MovesKeep DEF OrderInv

\* A worker that takes an item keeps ownership and order.
LEMMA BeginStep ==
  ASSUME OwnerInv, NEW e \in Entities, Begin(e)
  PROVE  OwnerInv' /\ (OrderInv => OrderInv')
  <1>1. LifetimeTypeOK /\ Between /\ Callers
    BY DEF OwnerInv
  <1>2. /\ UNCHANGED <<main, owned, local, kept, staged, call, stale, drop, lock, setting,
                       life, by, crashed, closed>>
        /\ queue[e] \in Seq(Captures) /\ queue[e] # <<>>
        /\ queue' = [queue EXCEPT ![e] = Tail(queue[e])]
        /\ holds' = [holds EXCEPT ![e] = Head(queue[e])]
        /\ phase' = [phase EXCEPT ![e] = IF e \in Cells THEN "dequeued" ELSE "callback"]
        /\ phase[e] = "check" /\ life[e] = "live"
    BY <1>1 DEF Begin, Idle, LifetimeTypeOK, mutexVars, fateVars
  <1>3. /\ Tail(queue[e]) \in Seq(Captures) /\ Head(queue[e]) \in Captures
        /\ holds'[e] \subseteq Held(queue[e]) /\ \A u \in Entities \ {e} : holds'[u] = holds[u]
        /\ Held(queue'[e]) \subseteq Held(queue[e]) /\ \A u \in Entities \ {e} : queue'[u] = queue[u]
        /\ \A u \in Entities \ {e} : phase'[u] = phase[u]
        /\ phase'[e] \in {"dequeued", "callback"}
    BY <1>1, <1>2, HeldHeadTail DEF LifetimeTypeOK
  <1>4. LifetimeTypeOK'
    <2>1. phase' \in [Entities -> Phases]
      BY <1>1, <1>2 DEF LifetimeTypeOK, Phases
    <2>2. queue' \in [Entities -> Seq(Captures)] /\ holds' \in [Entities -> Captures]
      BY <1>1, <1>2, <1>3 DEF LifetimeTypeOK
    <2> QED BY <1>1, <1>2, <1>3, <2>1, <2>2 DEF LifetimeTypeOK
  <1>5. Between'
    BY <1>1, <1>2, <1>3 DEF Between
  <1>6. Callers'
    <2>1. call[e] = "nobody" /\ \A c \in Entities : lock[c] # e
      BY <1>1, <1>2, NoMutex
    <2>2. \A u \in Entities \ {e} : Reach(u)' = Reach(u)
      BY <1>2, <1>3, ThreadNames DEF Reach
    <2> QED BY <1>1, <1>2, <1>3, <2>1, <2>2, CallersKept
  <1>7. Moves
    BY <1>2, <1>3 DEF Moves, IsHeld, Handles, StagedHandles
  <1>8. Ordered => Ordered'
    BY <1>2, <1>3 DEF Ordered
  <1>9. UnderMutex => UnderMutex'
    BY <1>2, <1>7, MutexKept
  <1> QED BY <1>4, <1>5, <1>6, <1>7, <1>8, <1>9, MovesKeep DEF OrderInv

\* A callback that is given the state keeps ownership and order.
LEMMA ReadStateStep ==
  ASSUME OwnerInv, NEW e \in Entities, ReadState(e)
  PROVE  OwnerInv' /\ (OrderInv => OrderInv')
  <1>1. LifetimeTypeOK /\ Between /\ Callers
    BY DEF OwnerInv
  <1>2. /\ UNCHANGED <<main, owned, queue, holds, kept, staged, call, stale, drop, lock, setting,
                       life, by, crashed, closed>>
        /\ local' = [local EXCEPT ![e] = owned[e]]
        /\ phase' = [phase EXCEPT ![e] = "callback"]
        /\ phase[e] = "dequeued"
    BY DEF ReadState, mutexVars, fateVars
  <1>3. /\ local'[e] = owned[e] /\ \A u \in Entities \ {e} : local'[u] = local[u]
        /\ phase'[e] = "callback" /\ \A u \in Entities \ {e} : phase'[u] = phase[u]
    BY <1>1, <1>2 DEF LifetimeTypeOK
  <1>4. LifetimeTypeOK'
    <2>1. phase' \in [Entities -> Phases] /\ local' \in [Entities -> Captures]
      BY <1>1, <1>2 DEF LifetimeTypeOK, Phases
    <2> QED BY <1>1, <1>2, <1>3, <2>1 DEF LifetimeTypeOK
  <1>5. Between'
    BY <1>1, <1>2, <1>3 DEF Between
  <1>6. Callers'
    <2>1. call[e] = "nobody" /\ \A c \in Entities : lock[c] # e
      BY <1>1, <1>2, NoMutex
    <2>2. \A u \in Entities \ {e} : Reach(u)' = Reach(u)
      BY <1>2, <1>3, ThreadNames DEF Reach
    <2> QED BY <1>1, <1>2, <1>3, <2>1, <2>2, CallersKept
  <1>7. Moves
    BY <1>2, <1>3 DEF Moves, IsHeld, Handles, StagedHandles
  <1>8. Ordered => Ordered'
    BY <1>2, <1>3 DEF Ordered
  <1>9. UnderMutex => UnderMutex'
    BY <1>2, <1>7, MutexKept
  <1> QED BY <1>4, <1>5, <1>6, <1>7, <1>8, <1>9, MovesKeep DEF OrderInv

\* A staged send keeps ownership and order.
LEMMA StageStep ==
  ASSUME OwnerInv, NEW e \in Entities, NEW target \in Entities, NEW held \in Captures,
         Stage(e, target, held)
  PROVE  OwnerInv' /\ (OrderInv => OrderInv')
  <1> DEFINE s == [to |-> target, held |-> held]
  <1>1. LifetimeTypeOK /\ Between /\ Callers
    BY DEF OwnerInv
  <1>2. /\ UNCHANGED <<main, owned, queue, phase, holds, local, kept, call, stale, drop, lock, setting,
                       life, by, crashed, closed>>
        /\ staged[e] \in Seq(StagedSends) /\ s \in StagedSends
        /\ staged' = [staged EXCEPT ![e] = Append(staged[e], s)]
        /\ phase[e] = "callback"
        /\ s.to = target /\ s.held = held
        /\ target \in Reach(e) /\ held \subseteq Reach(e) /\ held \subseteq Below(target)
    BY <1>1 DEF Stage, InCallback, LifetimeTypeOK, StagedSends, mutexVars, fateVars
  <1> HIDE DEF s
  <1>3. /\ Append(staged[e], s) \in Seq(StagedSends)
        /\ DOMAIN Append(staged[e], s) = DOMAIN staged[e] \cup {Len(staged[e]) + 1}
        /\ \A i \in DOMAIN staged[e] : Append(staged[e], s)[i] = staged[e][i]
        /\ Append(staged[e], s)[Len(staged[e]) + 1] = s
    BY <1>2
  <1>4. staged'[e] = Append(staged[e], s) /\ \A u \in Entities \ {e} : staged'[u] = staged[u]
    BY <1>1, <1>2 DEF LifetimeTypeOK
  <1>5. \A x \in Entities : x \in HandlesOf(staged'[e]) => x \in HandlesOf(staged[e]) \/ IsHeld(x)
    <2>1. \A x \in Entities : x \in Reach(e) => IsHeld(x)
      BY ReachHeld DEF Threads
    <2> QED BY <1>2, <1>4, <2>1, HandlesOfAppend
  <1>6. LifetimeTypeOK'
    <2>1. staged' \in [Entities -> Seq(StagedSends)]
      BY <1>1, <1>2, <1>3 DEF LifetimeTypeOK
    <2> QED BY <1>1, <1>2, <1>4, <2>1 DEF LifetimeTypeOK
  <1>7. Between'
    BY <1>1, <1>2, <1>4 DEF Between
  <1>8. Callers'
    <2>1. \A u \in Entities : Reach(u)' = Reach(u)
      BY <1>2, ThreadNames DEF Reach
    <2> QED BY <1>1, <1>2, <2>1, CallersKept
  <1>9. Moves
    <2>1. \A x \in Entities : x \in HandlesOf(staged[e]) => IsHeld(x)
      BY DEF IsHeld, Handles, StagedHandles
    <2>2. \A u \in Entities : \A x \in Entities : x \in Handles(u)' => x \in Handles(u) \/ IsHeld(x)
      BY <1>2, <1>4, <1>5, <2>1 DEF Handles, StagedHandles
    <2> QED BY <1>2, <2>2 DEF Moves, IsHeld
  <1>10. ASSUME Ordered PROVE Ordered'
    <2>1. Respects(e, s)
      BY <1>2, <1>10, ReachHeld, ThreadNames DEF Respects, Threads
    <2>2. \A u \in Entities : \A i \in DOMAIN staged'[u] : Respects(u, staged'[u][i])
      BY <1>3, <1>4, <1>10, <2>1 DEF Ordered
    <2> QED BY <1>2, <1>10, <2>2 DEF Ordered
  <1>11. UnderMutex => UnderMutex'
    BY <1>2, <1>9, MutexKept
  <1> QED BY <1>6, <1>7, <1>8, <1>9, <1>10, <1>11, MovesKeep DEF OrderInv

\* A callback that gets its answer keeps ownership, and order when no cycle is
\* possible.
LEMMA AnsweredStep ==
  ASSUME OwnerInv, NEW e \in Entities, Answered(e)
  PROVE  OwnerInv' /\ (Acyclic /\ OrderInv => OrderInv')
  <1> DEFINE c == call[e]
  <1>1. LifetimeTypeOK /\ Between /\ Callers
    BY DEF OwnerInv
  <1>2. /\ UNCHANGED <<main, owned, queue, phase, holds, kept, staged, stale, drop, lock, setting,
                       life, by, crashed, closed>>
        /\ c \in Entities
        /\ local' = [local EXCEPT ![e] = local[e] \cup Answer(c)]
        /\ call' = [call EXCEPT ![e] = "nobody"]
        /\ Answer(c) \subseteq owned[c]
    BY DEF Answered, Answer, mutexVars, fateVars
  <1>3. phase[e] = "callback" /\ c \in Reach(e) /\ \A d \in Entities : lock[d] # e
    BY <1>1, <1>2, ThreadNames DEF Callers
  <1> HIDE DEF c
  <1>4. /\ local'[e] = local[e] \cup Answer(c) /\ \A u \in Entities \ {e} : local'[u] = local[u]
        /\ call'[e] = "nobody" /\ \A u \in Entities \ {e} : call'[u] = call[u]
    BY <1>1, <1>2 DEF LifetimeTypeOK
  <1>5. LifetimeTypeOK'
    <2>1. local' \in [Entities -> Captures] /\ call' \in [Entities -> Entities \cup {"nobody"}]
      BY <1>1, <1>2 DEF LifetimeTypeOK, Captures
    <2> QED BY <1>1, <1>2, <1>3, <1>4, <2>1 DEF LifetimeTypeOK
  <1>6. Between'
    BY <1>1, <1>2, <1>3, <1>4 DEF Between
  <1>7. Callers'
    <2>1. \A u \in Entities \ {e} : Reach(u)' = Reach(u)
      BY <1>2, <1>4, ThreadNames DEF Reach
    <2> QED BY <1>1, <1>2, <1>3, <1>4, <2>1, CallersKept
  <1>8. Moves
    BY <1>2, <1>4 DEF Moves, IsHeld, Handles, StagedHandles
  <1>9. ASSUME Acyclic, Ordered PROVE Ordered'
    <2>1. c \in Below(e) /\ owned[c] \subseteq Below(c)
      BY <1>2, <1>3, <1>9, ReachHeld, ThreadNames DEF Ordered, Threads
    <2>2. owned[c] \subseteq Below(e)
      BY <1>2, <1>9, <2>1 DEF Acyclic, Below
    <2> QED BY <1>2, <1>4, <1>9, <2>2 DEF Ordered
  <1>10. UnderMutex => UnderMutex'
    BY <1>2, <1>8, MutexKept
  <1> QED BY <1>5, <1>6, <1>7, <1>8, <1>9, <1>10, MovesKeep DEF OrderInv

\* The end of a callback, with or without a value, keeps ownership and order.
LEMMA CallbackEndsStep ==
  ASSUME OwnerInv, NEW e \in Entities, Throw(e) \/ \E new \in Captures : Return(e, new)
  PROVE  OwnerInv' /\ (OrderInv => OrderInv')
  <1>1. LifetimeTypeOK /\ Between /\ Callers
    BY DEF OwnerInv
  <1>2. /\ UNCHANGED <<main, owned, queue, holds, staged, call, stale, lock, setting, life, by, crashed, closed>>
        /\ phase[e] = "callback" /\ call[e] = "nobody" /\ \A c \in Entities : lock[c] # e
        /\ local' = [local EXCEPT ![e] = {}]
        /\ drop' = [drop EXCEPT ![e] = local[e]]
    BY DEF Throw, Return, InCallback, Unlocked, mutexVars, fateVars
  <1>3. PICK new \in Captures :
          /\ new = kept[e] \/ (new \subseteq Reach(e) /\ new \subseteq Below(e))
          /\ kept' = [kept EXCEPT ![e] = new]
    <2>1. CASE Throw(e)
      <3>1. kept[e] \in Captures /\ kept' = [kept EXCEPT ![e] = kept[e]]
        BY <1>1, <2>1 DEF Throw, LifetimeTypeOK
      <3> QED BY <3>1
    <2>2. ASSUME NEW new \in Captures, Return(e, new)
          PROVE  new \subseteq Reach(e) /\ new \subseteq Below(e) /\ kept' = [kept EXCEPT ![e] = new]
      BY <2>2 DEF Return
    <2> QED BY <2>1, <2>2
  <1>4. PICK after \in {"returned", "dispatch", "failed"} : phase' = [phase EXCEPT ![e] = after]
    <2>1. CASE Throw(e)
      BY <2>1 DEF Throw
    <2>2. ASSUME NEW v \in Captures, Return(e, v)
          PROVE  \E after \in {"returned", "dispatch"} : phase' = [phase EXCEPT ![e] = after]
      BY <2>2 DEF Return
    <2> QED BY <2>1, <2>2
  <1>5. /\ local'[e] = {} /\ \A u \in Entities \ {e} : local'[u] = local[u]
        /\ kept'[e] = new /\ \A u \in Entities \ {e} : kept'[u] = kept[u]
        /\ phase'[e] = after /\ \A u \in Entities \ {e} : phase'[u] = phase[u]
        /\ drop'[e] = local[e] /\ \A t \in Threads \ {e} : drop'[t] = drop[t]
    BY <1>1, <1>2, <1>3, <1>4 DEF LifetimeTypeOK, Threads
  <1>6. LifetimeTypeOK'
    <2>1. local' \in [Entities -> Captures] /\ kept' \in [Entities -> Captures]
      BY <1>1, <1>2, <1>3 DEF LifetimeTypeOK, Captures
    <2>2. phase' \in [Entities -> Phases] /\ drop' \in [Threads -> Captures]
      BY <1>1, <1>2, <1>4 DEF LifetimeTypeOK, Phases
    <2> QED BY <1>1, <1>2, <1>5, <2>1, <2>2 DEF LifetimeTypeOK
  <1>7. Between'
    BY <1>1, <1>2, <1>5 DEF Between
  <1>8. Callers'
    <2>1. \A u \in Entities \ {e} : Reach(u)' = Reach(u)
      BY <1>2, <1>5, ThreadNames DEF Reach
    <2> QED BY <1>1, <1>2, <1>5, <2>1, CallersKept
  <1>9. Moves
    <2>1. \A x \in Entities : x \in new => IsHeld(x)
      BY <1>3, ReachHeld DEF IsHeld, Handles, Threads
    <2>2. \A u \in Entities : \A x \in Entities : x \in Handles(u)' => x \in Handles(u) \/ IsHeld(x)
      BY <1>2, <1>5, <2>1 DEF Handles, StagedHandles
    <2>3. \A x \in Entities : x \in drop'[e] => IsHeld(x)
      BY <1>5 DEF IsHeld, Handles
    <2> QED BY <1>2, <1>5, <2>2, <2>3 DEF Moves, IsHeld
  <1>10. ASSUME Ordered PROVE Ordered'
    <2>1. new \subseteq Below(e)
      BY <1>3, <1>10 DEF Ordered
    <2>2. \A u \in Entities : drop'[u] \subseteq Below(u)
      BY <1>5, <1>10 DEF Ordered, Threads
    <2> QED BY <1>2, <1>5, <1>10, <2>1, <2>2 DEF Ordered
  <1>11. UnderMutex => UnderMutex'
    BY <1>2, <1>5, <1>9, MutexKept
  <1> QED BY <1>6, <1>7, <1>8, <1>9, <1>10, <1>11, MovesKeep DEF OrderInv

\* A worker that takes its own mutex, with nothing to join and only what is
\* below it to release.
LEMMA OwnMutex ==
  ASSUME Callers, NEW e \in Entities, phase[e] \notin {"callback", "clearing", "committing"},
         main' = main, call' = call, life' = life, by' = by, lock[e] = "free",
         lock'[e] = e, \A c \in Entities \ {e} : lock'[c] = lock[c],
         phase'[e] \in {"clearing", "committing"}, \A u \in Entities \ {e} : phase'[u] = phase[u],
         \A u \in Entities \ {e} : Reach(u)' = Reach(u),
         \A t \in Threads \ {e} : drop'[t] = drop[t]
  PROVE  /\ Callers'
         /\ UnderMutex /\ Joining(e) = {} /\ drop'[e] \subseteq Below(e) => UnderMutex'
  <1>1. call[e] = "nobody" /\ \A c \in Entities : lock[c] # e
    BY NoMutex
  <1>2. \A t : Joining(t)' = Joining(t)
    BY DEF Joining
  <1>3. Callers'
    <2>1. \A d \in Entities : lock'[d] = "main" => d \in main' \cap Cells
      BY ThreadNames DEF Callers
    <2>2. \A d, u \in Entities : lock'[d] = u =>
            \/ phase'[u] = "callback" /\ call'[u] = "nobody" /\ d \in Reach(u)' \cap Cells
            \/ d = u /\ phase'[u] \in {"clearing", "committing"}
      <3> SUFFICES ASSUME NEW d \in Entities, NEW u \in Entities, lock'[d] = u
                   PROVE  \/ phase'[u] = "callback" /\ call'[u] = "nobody" /\ d \in Reach(u)' \cap Cells
                          \/ d = u /\ phase'[u] \in {"clearing", "committing"}
        OBVIOUS
      <3>1. CASE u = e
        BY <1>1, <3>1
      <3>2. CASE u # e
        BY <3>2 DEF Callers
      <3> QED BY <3>1, <3>2
    <2>3. \A u \in Entities : call'[u] # "nobody" => phase'[u] = "callback" /\ call'[u] \in Reach(u)'
      BY <1>1 DEF Callers
    <2>4. \A d, u \in Entities : lock'[d] # "free" /\ lock'[d] = lock'[u] => d = u
      BY <1>1 DEF Callers
    <2> QED BY <2>1, <2>2, <2>3, <2>4 DEF Callers
  <1>4. ASSUME UnderMutex, Joining(e) = {}, drop'[e] \subseteq Below(e) PROVE UnderMutex'
    BY <1>1, <1>2, <1>4 DEF UnderMutex
  <1> QED BY <1>3, <1>4

\* A failing callback keeps ownership and order.
LEMMA FailStep ==
  ASSUME OwnerInv, NEW e \in Entities, Fail(e)
  PROVE  OwnerInv' /\ (OrderInv => OrderInv')
  <1>1. LifetimeTypeOK /\ Between /\ Callers
    BY DEF OwnerInv
  <1>2. /\ UNCHANGED <<main, owned, holds, local, kept, staged, call, stale, setting, life, by, crashed>>
        /\ phase[e] = "failed" /\ lock[e] = "free" /\ Joining(e) = {}
        /\ queue' = [queue EXCEPT ![e] = <<>>]
        /\ drop' = [drop EXCEPT ![e] = Held(queue[e])]
        /\ lock' = [lock EXCEPT ![e] = e]
        /\ phase' = [phase EXCEPT ![e] = "clearing"]
        /\ closed' = [closed EXCEPT ![e] = TRUE]
    BY DEF Fail, Runs, itemVars, fateVars
  <1>3. /\ drop'[e] = Held(queue[e]) /\ \A t \in Threads \ {e} : drop'[t] = drop[t]
        /\ Held(queue'[e]) = {} /\ \A u \in Entities \ {e} : queue'[u] = queue[u]
        /\ lock'[e] = e /\ \A u \in Entities \ {e} : lock'[u] = lock[u]
        /\ phase'[e] = "clearing" /\ \A u \in Entities \ {e} : phase'[u] = phase[u]
        /\ Held(queue[e]) \in Captures
    BY <1>1, <1>2, HeldEmpty, HeldInEntities DEF LifetimeTypeOK, Threads
  <1>4. LifetimeTypeOK'
    <2>1. queue' \in [Entities -> Seq(Captures)]
      <3>1. <<>> \in Seq(Captures)
        OBVIOUS
      <3> QED BY <1>1, <1>2, <3>1 DEF LifetimeTypeOK
    <2>2. drop' \in [Threads -> Captures]
      BY <1>1, <1>2, <1>3 DEF LifetimeTypeOK
    <2>3. /\ phase' \in [Entities -> Phases] /\ lock' \in [Entities -> Threads \cup {"free"}]
          /\ closed' \in [Entities -> BOOLEAN]
      BY <1>1, <1>2 DEF LifetimeTypeOK, Phases, Threads
    <2> QED BY <1>1, <1>2, <1>3, <2>1, <2>2, <2>3 DEF LifetimeTypeOK
  <1>5. Between'
    BY <1>1, <1>2, <1>3 DEF Between
  <1>6. \A u \in Entities : Reach(u)' = Reach(u)
    BY <1>2, ThreadNames DEF Reach
  <1>7. /\ Callers'
        /\ UnderMutex /\ Held(queue[e]) \subseteq Below(e) => UnderMutex'
    BY <1>1, <1>2, <1>3, <1>6, OwnMutex
  <1>8. Moves
    BY <1>2, <1>3 DEF Moves, IsHeld, Handles, StagedHandles, Threads
  <1>9. ASSUME Ordered PROVE Ordered' /\ Held(queue[e]) \subseteq Below(e)
    BY <1>2, <1>3, <1>9 DEF Ordered, Threads
  <1> QED BY <1>4, <1>5, <1>7, <1>8, <1>9, MovesKeep DEF OrderInv

\* A commit, which releases the old state under both mutexes, keeps ownership
\* and order.
LEMMA CommitStep ==
  ASSUME OwnerInv, NEW e \in Entities, Commit(e)
  PROVE  OwnerInv' /\ (OrderInv => OrderInv')
  <1>1. LifetimeTypeOK /\ Between /\ Callers
    BY DEF OwnerInv
  <1>2. /\ UNCHANGED <<main, queue, holds, local, staged, call, stale, life, by, crashed, closed>>
        /\ phase[e] = "returned" /\ lock[e] = "free" /\ Joining(e) = {}
        /\ owned' = [owned EXCEPT ![e] = kept[e]]
        /\ kept' = [kept EXCEPT ![e] = {}]
        /\ drop' = [drop EXCEPT ![e] = owned[e]]
        /\ lock' = [lock EXCEPT ![e] = e]
        /\ setting' = [setting EXCEPT ![e] = TRUE]
        /\ phase' = [phase EXCEPT ![e] = "committing"]
    BY DEF Commit, Runs, fateVars
  <1>3. /\ drop'[e] = owned[e] /\ \A t \in Threads \ {e} : drop'[t] = drop[t]
        /\ owned'[e] = kept[e] /\ \A u \in Entities \ {e} : owned'[u] = owned[u]
        /\ kept'[e] = {} /\ \A u \in Entities \ {e} : kept'[u] = kept[u]
        /\ lock'[e] = e /\ \A u \in Entities \ {e} : lock'[u] = lock[u]
        /\ phase'[e] = "committing" /\ \A u \in Entities \ {e} : phase'[u] = phase[u]
    BY <1>1, <1>2 DEF LifetimeTypeOK, Threads
  <1>4. LifetimeTypeOK'
    <2>1. /\ owned' \in [Entities -> Captures] /\ kept' \in [Entities -> Captures]
          /\ drop' \in [Threads -> Captures]
      BY <1>1, <1>2 DEF LifetimeTypeOK, Captures
    <2>2. phase' \in [Entities -> Phases] /\ lock' \in [Entities -> Threads \cup {"free"}]
      BY <1>1, <1>2 DEF LifetimeTypeOK, Phases, Threads
    <2>3. setting' \in [Entities -> BOOLEAN]
      BY <1>1, <1>2 DEF LifetimeTypeOK
    <2> QED BY <1>1, <1>2, <1>3, <2>1, <2>2, <2>3 DEF LifetimeTypeOK
  <1>5. Between'
    BY <1>1, <1>2, <1>3 DEF Between
  <1>6. \A u \in Entities \ {e} : Reach(u)' = Reach(u)
    BY <1>2, <1>3, ThreadNames DEF Reach
  <1>7. /\ Callers'
        /\ UnderMutex /\ owned[e] \subseteq Below(e) => UnderMutex'
    BY <1>1, <1>2, <1>3, <1>6, OwnMutex
  <1>8. Moves
    BY <1>2, <1>3 DEF Moves, IsHeld, Handles, StagedHandles, Threads
  <1>9. ASSUME Ordered PROVE Ordered' /\ owned[e] \subseteq Below(e)
    BY <1>2, <1>3, <1>9 DEF Ordered, Threads
  <1> QED BY <1>4, <1>5, <1>7, <1>8, <1>9, MovesKeep DEF OrderInv

\* A dispatched send keeps ownership, and order when no cycle is possible.
LEMMA DispatchStep ==
  ASSUME OwnerInv, NEW e \in Entities, Dispatch(e)
  PROVE  OwnerInv' /\ (Acyclic /\ OrderInv => OrderInv')
  <1> DEFINE s == Head(staged[e])
  <1>1. LifetimeTypeOK /\ Between /\ Callers
    BY DEF OwnerInv
  <1>2. staged[e] \in Seq(StagedSends) /\ staged[e] # <<>> /\ phase[e] = "dispatch"
    BY <1>1 DEF Dispatch, LifetimeTypeOK
  <1>3. /\ Tail(staged[e]) \in Seq(StagedSends) /\ s \in StagedSends
        /\ 1 \in DOMAIN staged[e] /\ s = staged[e][1]
        /\ \A i \in DOMAIN Tail(staged[e]) : i + 1 \in DOMAIN staged[e] /\ Tail(staged[e])[i] = staged[e][i + 1]
        /\ s.to \in HandlesOf(staged[e]) /\ s.held \subseteq HandlesOf(staged[e])
        /\ HandlesOf(Tail(staged[e])) \subseteq HandlesOf(staged[e])
    BY <1>2, HandlesOfHeadTail
  <1>4. /\ queue' = IF closed[s.to] THEN queue ELSE [queue EXCEPT ![s.to] = Append(queue[s.to], s.held)]
        /\ holds' = [holds EXCEPT ![e] = holds[e] \cup {s.to} \cup s.held]
        /\ staged' = [staged EXCEPT ![e] = Tail(staged[e])]
        /\ UNCHANGED <<main, owned, phase, local, kept, call, stale, drop, lock, setting,
                       life, by, crashed, closed>>
    BY DEF Dispatch, mutexVars, fateVars
  <1>5. s.to \in Entities /\ s.held \in Captures
    BY <1>3 DEF StagedSends
  <1> HIDE DEF s
  <1>6. IsHeld(s.to) /\ life[s.to] = "live"
    BY <1>3, <1>5 DEF OwnerInv, HeldAlive, IsHeld, Handles, StagedHandles
  <1>7. /\ queue[s.to] \in Seq(Captures)
        /\ Held(Append(queue[s.to], s.held)) = Held(queue[s.to]) \cup s.held
    BY <1>1, <1>5, HeldAppend DEF LifetimeTypeOK
  <1>8. /\ Held(queue'[s.to]) \subseteq Held(queue[s.to]) \cup s.held
        /\ \A u \in Entities \ {s.to} : queue'[u] = queue[u]
    BY <1>1, <1>4, <1>5, <1>7 DEF LifetimeTypeOK
  <1>9. /\ holds'[e] = holds[e] \cup {s.to} \cup s.held
        /\ staged'[e] = Tail(staged[e])
        /\ \A u \in Entities \ {e} : holds'[u] = holds[u] /\ staged'[u] = staged[u]
    BY <1>1, <1>4 DEF LifetimeTypeOK
  <1>10. LifetimeTypeOK'
    <2>1. queue' \in [Entities -> Seq(Captures)]
      BY <1>1, <1>4, <1>5, <1>7 DEF LifetimeTypeOK
    <2>2. holds' \in [Entities -> Captures]
      BY <1>1, <1>4, <1>5 DEF LifetimeTypeOK, Captures
    <2>3. staged' \in [Entities -> Seq(StagedSends)]
      BY <1>1, <1>3, <1>4 DEF LifetimeTypeOK
    <2>4. \A u \in Entities : life'[u] = "gone" =>
            queue'[u] = <<>> /\ holds'[u] = {} /\ staged'[u] = <<>>
      BY <1>1, <1>2, <1>4, <1>6, <1>8, <1>9 DEF LifetimeTypeOK
    <2> QED BY <1>1, <1>4, <2>1, <2>2, <2>3, <2>4 DEF LifetimeTypeOK
  <1>11. Between'
    BY <1>1, <1>2, <1>4, <1>9 DEF Between
  <1>12. Callers'
    <2>1. \A u \in Entities : Reach(u) \subseteq Reach(u)'
      BY <1>4, <1>9, ThreadNames DEF Reach
    <2> QED BY <1>1, <1>4, <2>1, CallersKept
  <1>13. Moves
    BY <1>3, <1>4, <1>5, <1>8, <1>9 DEF Moves, IsHeld, Handles, StagedHandles
  <1>14. ASSUME Acyclic, Ordered PROVE Ordered'
    <2>1. s.to \in Below(e) /\ s.held \subseteq Below(s.to)
      BY <1>3, <1>14 DEF Ordered, Respects
    <2>2. s.held \subseteq Below(e)
      BY <1>5, <1>14, <2>1 DEF Acyclic, Below
    <2>3. \A i \in DOMAIN staged'[e] : Respects(e, staged'[e][i])
      BY <1>3, <1>9, <1>14 DEF Ordered
    <2> QED BY <1>4, <1>8, <1>9, <1>14, <2>1, <2>2, <2>3 DEF Ordered
  <1>15. UnderMutex => UnderMutex'
    BY <1>4, <1>13, MutexKept
  <1> QED BY <1>10, <1>11, <1>12, <1>13, <1>14, <1>15, MovesKeep DEF OrderInv

\* The end of an item keeps ownership, and order when no cycle is possible.
LEMMA EndItemStep ==
  ASSUME OwnerInv, NEW e \in Entities, EndItem(e)
  PROVE  OwnerInv' /\ (Acyclic /\ OrderInv => OrderInv')
  <1>1. LifetimeTypeOK /\ Between /\ Callers
    BY DEF OwnerInv
  <1>2. /\ UNCHANGED <<main, owned, queue, local, call, setting, life, by, crashed, closed>>
        /\ phase[e] \notin {"check", "callback", "committing", "exited"}
        /\ lock' = [lock EXCEPT ![e] = "free"]
        /\ phase' = [phase EXCEPT ![e] = "check"]
        /\ drop' = [drop EXCEPT ![e] = holds[e] \cup kept[e] \cup HandlesOf(staged[e])]
        /\ holds' = [holds EXCEPT ![e] = {}]
        /\ kept' = [kept EXCEPT ![e] = {}]
        /\ staged' = [staged EXCEPT ![e] = <<>>]
        /\ stale' = [stale EXCEPT ![e] = FALSE]
    BY DEF EndItem, Finished, fateVars, StagedHandles
  <1>3. /\ drop'[e] = holds[e] \cup kept[e] \cup HandlesOf(staged[e])
        /\ \A t \in Threads \ {e} : drop'[t] = drop[t]
        /\ holds'[e] = {} /\ kept'[e] = {} /\ staged'[e] = <<>>
        /\ \A u \in Entities \ {e} : holds'[u] = holds[u] /\ kept'[u] = kept[u] /\ staged'[u] = staged[u]
        /\ phase'[e] = "check" /\ \A u \in Entities \ {e} : phase'[u] = phase[u]
        /\ lock'[e] = "free" /\ \A u \in Entities \ {e} : lock'[u] = lock[u]
    BY <1>1, <1>2 DEF LifetimeTypeOK, Threads
  <1>4. call[e] = "nobody" /\ \A c \in Entities : lock'[c] # e
    <2>1. \A c \in Entities : lock[c] = e => c = e
      BY <1>1, <1>2 DEF Callers
    <2>2. call[e] = "nobody"
      BY <1>1, <1>2 DEF Callers
    <2> QED BY <1>3, <2>1, <2>2, ThreadNames
  <1>5. LifetimeTypeOK'
    <2>1. drop' \in [Threads -> Captures]
      <3>1. HandlesOf(staged[e]) \in Captures
        BY <1>1, HandlesOfInEntities DEF LifetimeTypeOK
      <3>2. holds[e] \cup kept[e] \cup HandlesOf(staged[e]) \in Captures
        BY <1>1, <3>1 DEF LifetimeTypeOK, Captures
      <3> QED BY <1>1, <1>2, <3>2 DEF LifetimeTypeOK
    <2>2. holds' \in [Entities -> Captures] /\ kept' \in [Entities -> Captures]
      BY <1>1, <1>2 DEF LifetimeTypeOK, Captures
    <2>3. staged' \in [Entities -> Seq(StagedSends)]
      <3>1. <<>> \in Seq(StagedSends)
        OBVIOUS
      <3> QED BY <1>1, <1>2, <3>1 DEF LifetimeTypeOK
    <2>4. phase' \in [Entities -> Phases] /\ lock' \in [Entities -> Threads \cup {"free"}]
      BY <1>1, <1>2 DEF LifetimeTypeOK, Phases
    <2>5. stale' \in [Entities -> BOOLEAN]
      BY <1>1, <1>2 DEF LifetimeTypeOK
    <2>6. life[e] # "gone"
      BY <1>1, <1>2 DEF LifetimeTypeOK
    <2> QED BY <1>1, <1>2, <1>3, <2>1, <2>2, <2>3, <2>4, <2>5, <2>6 DEF LifetimeTypeOK
  <1>6. Between'
    BY <1>1, <1>2, <1>3 DEF Between
  <1>7. Callers'
    <2>1. \A u \in Entities \ {e} : Reach(u)' = Reach(u)
      BY <1>2, <1>3, ThreadNames DEF Reach
    <2> QED BY <1>1, <1>2, <1>3, <1>4, <2>1, CallersKept
  <1>8. Moves
    <2>1. \A u \in Entities : \A x \in Entities : x \in Handles(u)' => x \in Handles(u)
      BY <1>2, <1>3, HandlesOfEmpty DEF Handles, StagedHandles
    <2>2. \A x \in Entities : x \in drop'[e] => IsHeld(x)
      BY <1>3 DEF IsHeld, Handles, StagedHandles
    <2> QED BY <1>2, <1>3, <2>1, <2>2 DEF Moves, IsHeld
  <1>9. ASSUME Acyclic, Ordered PROVE Ordered'
    <2>1. \A x \in HandlesOf(staged[e]) : x \in Below(e)
      <3>1. TAKE x \in HandlesOf(staged[e])
      <3>2. PICK i \in DOMAIN staged[e] : x = staged[e][i].to \/ x \in staged[e][i].held
        BY HandlesOfDef
      <3>3. staged[e][i].to \in Below(e) /\ staged[e][i].held \subseteq Below(staged[e][i].to)
        BY <1>9 DEF Ordered, Respects
      <3> QED BY <1>9, <3>2, <3>3 DEF Acyclic, Below
    <2>2. \A u \in Entities : drop'[u] \subseteq Below(u)
      BY <1>3, <1>9, <2>1 DEF Ordered, Threads
    <2> QED BY <1>2, <1>3, <1>9, <2>2 DEF Ordered
  <1>10. UnderMutex => UnderMutex'
    BY <1>3, <1>4, <1>8, MutexKept
  <1> QED BY <1>5, <1>6, <1>7, <1>8, <1>9, <1>10, MovesKeep DEF OrderInv

\* The release of a handle that is not the last keeps ownership and order.
LEMMA ReleaseStep ==
  ASSUME OwnerInv, NEW th \in Threads, NEW x \in Entities, Release(th, x)
  PROVE  OwnerInv' /\ (OrderInv => OrderInv')
  <1>1. LifetimeTypeOK /\ Between /\ Callers
    BY DEF OwnerInv
  <1>2. /\ UNCHANGED <<main, owned, queue, phase, holds, local, kept, staged, call, stale, lock, setting,
                       life, by, crashed, closed>>
        /\ drop' = [drop EXCEPT ![th] = drop[th] \ {x}]
    BY DEF Release, workerVars, itemVars, mutexVars, fateVars
  <1>3. \A t \in Threads : drop'[t] \subseteq drop[t]
    BY <1>1, <1>2 DEF LifetimeTypeOK
  <1>4. LifetimeTypeOK'
    BY <1>1, <1>2 DEF LifetimeTypeOK, Captures
  <1>5. Between'
    BY <1>1, <1>2 DEF Between
  <1>6. Callers'
    BY <1>1, <1>2 DEF Callers, Reach
  <1>7. Moves
    BY <1>2, <1>3 DEF Moves, IsHeld, Handles, StagedHandles
  <1>8. Ordered => Ordered'
    BY <1>2, <1>3 DEF Ordered, Threads
  <1>9. UnderMutex => UnderMutex'
    BY <1>2, <1>3, <1>7, MutexKept
  <1> QED BY <1>4, <1>5, <1>6, <1>7, <1>8, <1>9, MovesKeep DEF OrderInv

-----------------------------------------------------------------------------
(* Destruction.                                                            *)

\* The handle released was the last one, so the entity is in nobody's hands.
LEMMA DestroyStep ==
  ASSUME OwnerInv, NEW th \in Threads, NEW x \in Entities, Destroy(th, x)
  PROVE  OwnerInv' /\ (Acyclic /\ OrderInv => OrderInv')
  <1>1. LifetimeTypeOK /\ Between /\ Callers /\ HeldAlive
    BY DEF OwnerInv
  <1>2. /\ UNCHANGED <<main, owned, queue, phase, holds, local, kept, staged, call, stale, lock, setting, closed>>
        /\ drop' = [drop EXCEPT ![th] = drop[th] \ {x}] /\ x \in drop[th]
        /\ life' = [life EXCEPT ![x] = "joining"]
        /\ by' = [by EXCEPT ![x] = th]
        /\ crashed' = (th = x)
    BY DEF Destroy, workerVars, itemVars, mutexVars
  <1>3. /\ drop'[th] = drop[th] \ {x}
        /\ \A u \in Threads \ {th} : drop'[u] = drop[u]
        /\ life'[x] = "joining" /\ \A y \in Entities \ {x} : life'[y] = life[y]
        /\ by'[x] = th /\ \A y \in Entities \ {x} : by'[y] = by[y]
    BY <1>1, <1>2 DEF LifetimeTypeOK
  <1>4. life[x] = "live"
    BY <1>1, <1>2 DEF HeldAlive, IsHeld
  <1>5. LifetimeTypeOK'
    <2>1. drop' \in [Threads -> Captures] /\ by' \in [Entities -> Threads \cup {"nobody"}]
      BY <1>1, <1>2 DEF LifetimeTypeOK, Captures
    <2>2. life' \in [Entities -> {"live", "joining", "gone"}] /\ crashed' \in BOOLEAN
      BY <1>1, <1>2 DEF LifetimeTypeOK
    <2> QED BY <1>1, <1>2, <1>3, <2>1, <2>2 DEF LifetimeTypeOK
  <1>6. Between'
    BY <1>1, <1>2 DEF Between
  <1>7. Callers'
    BY <1>1, <1>2 DEF Callers, Reach
  <1>8. HeldAlive'
    <2> SUFFICES ASSUME NEW y \in Entities, IsHeld(y)' PROVE life'[y] = "live"
      BY DEF HeldAlive
    <2>1. y # x
      BY <1>2, <1>3 DEF Destroy, HeldElsewhere, IsHeld, Handles, StagedHandles
    <2>2. IsHeld(y)
      BY <1>2, <1>3 DEF IsHeld, Handles, StagedHandles
    <2> QED BY <1>1, <1>3, <2>1, <2>2 DEF HeldAlive
  <1>9. Ordered => Ordered'
    BY <1>2, <1>3 DEF Ordered, Threads
  <1>10. UnderMutex => UnderMutex'
    <2> SUFFICES ASSUME UnderMutex, NEW c \in Entities, NEW t \in Threads, lock'[c] = t
                 PROVE  drop'[t] \subseteq Below(c) /\ Joining(t)' \subseteq Below(c)
      BY DEF UnderMutex
    <2>1. drop[t] \subseteq Below(c) /\ Joining(t) \subseteq Below(c)
      BY <1>2 DEF UnderMutex
    <2>2. \A y \in Entities : y \in Joining(t)' => y \in Joining(t) \/ (y = x /\ t = th)
      BY <1>3 DEF Joining
    <2>3. Joining(t)' \subseteq Below(c)
      BY <1>2, <2>1, <2>2 DEF Joining
    <2> QED BY <1>3, <2>1, <2>3
  <1>11. ASSUME OrderInv, UnderMutex' PROVE JoinsDescend'
    <2>1. th = "main" \/ (th \in Entities /\ x \in Below(th))
      BY <1>2, <1>11 DEF OrderInv, Ordered, Threads
    <2>2. \A y \in Entities : life'[y] = "joining" =>
            by'[y] = "main" \/ (by'[y] \in Entities /\ y \in Below(by'[y]))
      BY <1>3, <1>11, <2>1 DEF OrderInv, JoinsDescend
    <2>3. \A e \in Entities : lock'[e] # "free" => lock'[e] \in Threads
      BY <1>5 DEF LifetimeTypeOK
    <2>4. ASSUME NEW e \in Entities, NEW y \in Entities, lock'[e] # "free", (y \in Joining(lock[e]))'
          PROVE  y \in Below(e)
      BY <1>11, <2>3, <2>4 DEF UnderMutex
    <2> QED BY <2>2, <2>4 DEF JoinsDescend
  <1>12. CrashIsSelfJoin'
    BY <1>2, <1>3 DEF CrashIsSelfJoin
  <1> QED BY <1>5, <1>6, <1>7, <1>8, <1>9, <1>10, <1>11, <1>12 DEF OwnerInv, OrderInv

\* The members of x go, on the thread that joined it.
LEMMA FinishStep ==
  ASSUME OwnerInv, ~crashed, NEW x \in Entities, Finish(x)
  PROVE  OwnerInv' /\ (Acyclic /\ OrderInv => OrderInv')
  <1> DEFINE th == by[x]
  <1>1. LifetimeTypeOK /\ Between /\ Callers /\ HeldAlive
    BY DEF OwnerInv
  <1>2. /\ UNCHANGED <<main, phase, holds, local, kept, staged, call, stale, lock, setting, crashed>>
        /\ life' = [life EXCEPT ![x] = "gone"]
        /\ drop' = [drop EXCEPT ![th] = drop[th] \cup Held(queue[x]) \cup owned[x]]
        /\ queue' = [queue EXCEPT ![x] = <<>>]
        /\ owned' = [owned EXCEPT ![x] = {}]
        /\ by' = [by EXCEPT ![x] = "nobody"]
        /\ closed' = [closed EXCEPT ![x] = FALSE]
        /\ phase[x] = "exited" /\ life[x] = "joining"
    BY DEF Finish, Demolish, workerVars, itemVars, mutexVars
  <1>3. /\ Held(queue'[x]) = {} /\ owned'[x] = {} /\ life'[x] = "gone" /\ queue'[x] = <<>>
        /\ \A u \in Entities \ {x} : queue'[u] = queue[u] /\ owned'[u] = owned[u] /\ life'[u] = life[u] /\ by'[u] = by[u]
        /\ \A u \in Threads \ {th} : drop'[u] = drop[u]
        /\ th \in Threads => drop'[th] = drop[th] \cup Held(queue[x]) \cup owned[x]
    BY <1>1, <1>2, HeldEmpty DEF LifetimeTypeOK
  <1>4. th \in Threads => x \in Joining(th)
    BY <1>2 DEF Joining, th
  <1> HIDE DEF th
  <1>5. LifetimeTypeOK'
    <2>1. drop' \in [Threads -> Captures]
      <3>1. Held(queue[x]) \in Captures
        BY <1>1, HeldInEntities DEF LifetimeTypeOK
      <3> QED BY <1>1, <1>2, <3>1 DEF LifetimeTypeOK, Captures
    <2>2. queue' \in [Entities -> Seq(Captures)]
      <3>1. <<>> \in Seq(Captures)
        OBVIOUS
      <3> QED BY <1>1, <1>2, <3>1 DEF LifetimeTypeOK
    <2>3. owned' \in [Entities -> Captures] /\ by' \in [Entities -> Threads \cup {"nobody"}]
      BY <1>1, <1>2 DEF LifetimeTypeOK, Captures
    <2>4. life' \in [Entities -> {"live", "joining", "gone"}] /\ closed' \in [Entities -> BOOLEAN]
      BY <1>1, <1>2 DEF LifetimeTypeOK
    <2>5. \A u \in Entities : life'[u] = "gone" =>
            /\ phase'[u] = "exited" /\ queue'[u] = <<>> /\ staged'[u] = <<>>
            /\ owned'[u] = {} /\ holds'[u] = {} /\ local'[u] = {} /\ kept'[u] = {}
      <3>1. staged[x] = <<>> /\ holds[x] = {} /\ local[x] = {} /\ kept[x] = {}
        BY <1>1, <1>2 DEF Between
      <3>2. \A u \in Entities \ {x} : life[u] = "gone" =>
              /\ phase[u] = "exited" /\ queue[u] = <<>> /\ staged[u] = <<>>
              /\ owned[u] = {} /\ holds[u] = {} /\ local[u] = {} /\ kept[u] = {}
        BY <1>1 DEF LifetimeTypeOK
      <3> QED BY <1>2, <1>3, <3>1, <3>2
    <2> QED BY <1>1, <1>2, <2>1, <2>2, <2>3, <2>4, <2>5 DEF LifetimeTypeOK
  <1>6. Between'
    BY <1>1, <1>2 DEF Between
  <1>7. Callers'
    <2>1. call[x] = "nobody" /\ \A c \in Entities : lock[c] # x
      BY <1>1, <1>2, NoMutex
    <2>2. \A u \in Entities \ {x} : Reach(u)' = Reach(u)
      BY <1>2, <1>3, ThreadNames DEF Reach
    <2> QED BY <1>1, <1>2, <2>1, <2>2, CallersKept
  <1>8. \A y \in Entities : IsHeld(y)' => IsHeld(y)
    <2>1. \A u \in Entities : Handles(u)' \subseteq Handles(u)
      BY <1>2, <1>3 DEF Handles, StagedHandles
    <2>2. th \in Threads => \A y \in Entities : y \in drop'[th] => IsHeld(y)
      BY <1>3 DEF IsHeld, Handles
    <2> QED BY <1>2, <1>3, <2>1, <2>2 DEF IsHeld
  <1>9. HeldAlive'
    <2> SUFFICES ASSUME NEW y \in Entities, IsHeld(y)' PROVE life'[y] = "live"
      BY DEF HeldAlive
    <2>1. life[y] = "live"
      BY <1>1, <1>8 DEF HeldAlive
    <2> QED BY <1>2, <1>3, <2>1
  <1>10. ASSUME Acyclic, OrderInv PROVE Ordered' /\ UnderMutex' /\ JoinsDescend' /\ CrashIsSelfJoin'
    <2>1. Held(queue[x]) \cup owned[x] \subseteq Below(x)
      BY <1>10 DEF OrderInv, Ordered
    <2>2. \A e \in Entities : x \in Below(e) => Held(queue[x]) \cup owned[x] \subseteq Below(e)
      BY <1>10, <2>1 DEF Acyclic, Below
    <2>3. Ordered'
      <3>1. th = "main" \/ (th \in Entities /\ x \in Below(th))
        BY <1>2, <1>10 DEF OrderInv, JoinsDescend, th
      <3>2. \A u \in Entities : drop'[u] \subseteq Below(u)
        BY <1>3, <1>10, <2>2, <3>1, ThreadNames DEF OrderInv, Ordered, Threads
      <3> QED BY <1>2, <1>3, <1>10, <3>2 DEF OrderInv, Ordered
    <2>4. \A t \in Threads : Joining(t)' \subseteq Joining(t)
      BY <1>3 DEF Joining
    <2>5. UnderMutex'
      <3> SUFFICES ASSUME NEW c \in Entities, NEW t \in Threads, lock'[c] = t
                   PROVE  drop'[t] \subseteq Below(c) /\ Joining(t)' \subseteq Below(c)
        BY DEF UnderMutex
      <3>1. drop[t] \subseteq Below(c) /\ Joining(t) \subseteq Below(c)
        BY <1>2, <1>10 DEF OrderInv, UnderMutex
      <3>2. t = th => x \in Below(c)
        BY <1>4, <3>1
      <3> QED BY <1>3, <2>2, <2>4, <3>1, <3>2
    <2>6. JoinsDescend'
      <3>1. \A y \in Entities : life'[y] = "joining" =>
              by'[y] = "main" \/ (by'[y] \in Entities /\ y \in Below(by'[y]))
        BY <1>3, <1>10 DEF OrderInv, JoinsDescend
      <3>2. \A e \in Entities : lock'[e] # "free" => lock'[e] \in Threads
        BY <1>5 DEF LifetimeTypeOK
      <3>3. ASSUME NEW e \in Entities, NEW y \in Entities, lock'[e] # "free", (y \in Joining(lock[e]))'
            PROVE  y \in Below(e)
        BY <2>5, <3>2, <3>3 DEF UnderMutex
      <3> QED BY <3>1, <3>3 DEF JoinsDescend
    <2>7. CrashIsSelfJoin'
      BY <1>2 DEF CrashIsSelfJoin
    <2> QED BY <2>3, <2>5, <2>6, <2>7
  <1> QED BY <1>5, <1>6, <1>7, <1>9, <1>10 DEF OwnerInv, OrderInv

-----------------------------------------------------------------------------
(* The invariants, and what follows.                                       *)

\* Ownership at first.
LEMMA InitOwner == Init => OwnerInv
  <1> SUFFICES ASSUME Init PROVE OwnerInv
    OBVIOUS
  <1>1. LifetimeTypeOK
    <2>1. {} \in Captures /\ Entities \in Captures
      BY DEF Captures
    <2>2. \A e \in Entities : {x \in Entities : <<e, x>> \in Owns} \in Captures
      BY DEF Captures
    <2>3. <<>> \in Seq(Captures) /\ <<>> \in Seq(StagedSends)
      OBVIOUS
    <2> QED BY <2>1, <2>2, <2>3 DEF Init, LifetimeTypeOK, Phases
  <1>2. Between /\ HeldAlive
    BY DEF Init, Between, HeldAlive
  <1>3. Callers
    BY ThreadNames DEF Init, Callers
  <1> QED BY <1>1, <1>2, <1>3 DEF OwnerInv

\* Order at first.
LEMMA InitOrder == Init => OrderInv
  <1> SUFFICES ASSUME Init PROVE OrderInv
    OBVIOUS
  <1>1. \A e \in Entities : owned[e] \subseteq Below(e)
    BY CapturesAssumption DEF Init, Below
  <1>2. Ordered
    BY <1>1, HeldEmpty DEF Init, Ordered, Threads
  <1>3. UnderMutex
    BY ThreadNames DEF Init, UnderMutex, Threads
  <1>4. JoinsDescend /\ CrashIsSelfJoin
    BY DEF Init, JoinsDescend, CrashIsSelfJoin
  <1> QED BY <1>2, <1>3, <1>4, InitOwner DEF OrderInv

\* Every step keeps ownership, and order when no cycle is possible.
LEMMA NextStep ==
  ASSUME OwnerInv, [Next]_vars
  PROVE  OwnerInv' /\ (Acyclic /\ OrderInv => OrderInv')
  <1>1. CASE UNCHANGED vars
    <2>1. UNCHANGED <<main, owned, queue, phase, holds, local, kept, staged, call, stale, drop, lock, setting,
                      life, by, crashed, closed>>
      BY <1>1 DEF vars, workerVars, itemVars, mutexVars, fateVars
    <2>2. OwnerInv'
      BY <2>1 DEF OwnerInv, LifetimeTypeOK, Between, Callers, Reach, HeldAlive, IsHeld, Handles, StagedHandles
    <2>3. OrderInv => OrderInv'
      BY <2>1, <2>2 DEF OrderInv, Ordered, UnderMutex, Joining, JoinsDescend, CrashIsSelfJoin
    <2> QED BY <2>2, <2>3
  <1>2. ASSUME NEW e \in Entities, Get(e) \/ LetGo(e) \/ (~crashed /\ Finish(e))
        PROVE  OwnerInv' /\ (Acyclic /\ OrderInv => OrderInv')
    BY <1>2, GetStep, LetGoStep, FinishStep
  <1>3. ASSUME NEW e \in Entities, Worker(e)
        PROVE  OwnerInv' /\ (Acyclic /\ OrderInv => OrderInv')
    BY <1>3, QuietStep, BeginStep, ReadStateStep, AnsweredStep, CallbackEndsStep, FailStep, CommitStep,
       DispatchStep, EndItemStep DEF Worker
  <1>4. ASSUME NEW e \in Entities, NEW c \in Entities, Call(e, c)
        PROVE  OwnerInv' /\ (Acyclic /\ OrderInv => OrderInv')
    BY <1>4, QuietStep
  <1>5. ASSUME NEW th \in Threads, NEW c \in Entities, Restart(th, c) \/ RestartGoesOn(th, c)
        PROVE  OwnerInv' /\ (Acyclic /\ OrderInv => OrderInv')
    BY <1>5, RestartStep, RestartSetsStep, RestartReturnsStep DEF RestartGoesOn
  <1>6. ASSUME NEW e \in Entities, NEW held \in Captures, Send(e, held)
        PROVE  OwnerInv' /\ (Acyclic /\ OrderInv => OrderInv')
    BY <1>6, SendStep
  <1>7. ASSUME NEW e \in Entities, NEW target \in Entities, NEW held \in Captures,
               Stage(e, target, held)
        PROVE  OwnerInv' /\ (Acyclic /\ OrderInv => OrderInv')
    BY <1>7, StageStep
  <1>8. ASSUME NEW th \in Threads, NEW x \in Entities, Release(th, x) \/ Destroy(th, x)
        PROVE  OwnerInv' /\ (Acyclic /\ OrderInv => OrderInv')
    BY <1>8, ReleaseStep, DestroyStep
  <1> QED BY <1>1, <1>2, <1>3, <1>4, <1>5, <1>6, <1>7, <1>8 DEF Next

\* The invariant of ownership.
LEMMA OwnerHolds == Spec => []OwnerInv
  <1>1. OwnerInv /\ [Next]_vars => OwnerInv'
    BY NextStep
  <1> QED BY <1>1, InitOwner, PTL DEF Spec

\* The invariant of order, where no cycle is possible.
LEMMA OrderHolds ==
  ASSUME Acyclic
  PROVE  Spec => []OrderInv
  <1>1. OrderInv /\ [Next]_vars => OrderInv'
    BY NextStep DEF OrderInv
  <1> QED BY <1>1, InitOrder, PTL DEF Spec

\* Every variable keeps its type, and of an entity that is gone nothing runs
\* or is held any more.
THEOREM LifetimeTypeCorrect == Spec => []LifetimeTypeOK
  BY OwnerHolds, PTL DEF OwnerInv

\* Shared ownership is memory safe whatever the program captures, keeps in a
\* state or replaces there: no handle of a destroyed entity exists anywhere
\* (shared_ptr captures of sends, src/evaluator.hpp; the state's replacement,
\* src/cell.hpp; destructors, src/cell.hpp and src/process.hpp).
THEOREM HeldAliveHolds == Spec => []HeldAlive
  BY OwnerHolds, PTL DEF OwnerInv

\* Without ownership cycles, a worker joins only workers below its own, and
\* under an entity's mutex (a failure, a commit or a restart releasing there)
\* only entities below that one are joined: joins never form a circle.
THEOREM JoinsDescendHolds ==
  ASSUME Acyclic
  PROVE  Spec => []JoinsDescend
  BY OrderHolds, PTL DEF OrderInv

\* Without ownership cycles, no worker destroys its own entity.
THEOREM NoSelfJoinHolds ==
  ASSUME Acyclic
  PROVE  Spec => []NoSelfJoin
  <1>1. OrderInv => NoSelfJoin
    BY ThreadNames DEF OrderInv, JoinsDescend, CrashIsSelfJoin, NoSelfJoin, Acyclic, Below
  <1> QED BY <1>1, OrderHolds, PTL
=============================================================================
