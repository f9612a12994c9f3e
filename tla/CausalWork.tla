----------------------------- MODULE CausalWork -----------------------------
(***************************************************************************)
(* What the R25 causal barrier promises (the header comments of            *)
(* src/r25_quiescence.hpp): "a parent remains outstanding while admitting  *)
(* children, so zero is a causal fixed point even across entity types".    *)
(*                                                                         *)
(* Work is a set of named pieces.  A piece is opened once, either by a     *)
(* root admission from outside or on behalf of a piece that is still open, *)
(* and closed once.  A barrier opens only when nothing is open.            *)
(***************************************************************************)
EXTENDS Naturals

CONSTANTS
  Threads,      \* the threads that wait at the barrier
  MaxRoots      \* root admissions, in all

VARIABLES
  opened,       \* every piece ever opened
  open,         \* the pieces not closed yet
  roots,        \* root admissions so far
  waiting       \* the threads at the barrier

workVars == <<opened, open, roots, waiting>>

WorkInit ==
  /\ opened = {}
  /\ open = {}
  /\ roots = 0
  /\ waiting = {}

\* A piece of work is opened under a name never used before.
Open(w) ==
  /\ w \notin opened
  /\ opened' = opened \cup {w}
  /\ open' = open \cup {w}
  /\ UNCHANGED waiting

Root(w) == roots < MaxRoots /\ Open(w) /\ roots' = roots + 1
Child(parent, w) == parent \in open /\ Open(w) /\ UNCHANGED roots

\* Finished, failed, stale or discarded: closed, all the same.
Close(done) ==
  /\ done # {}
  /\ done \subseteq open
  /\ open' = open \ done
  /\ UNCHANGED <<opened, roots, waiting>>

Arrive(t) == waiting' = waiting \cup {t} /\ UNCHANGED <<opened, open, roots>>
Pass(t) == open = {} /\ waiting' = waiting \ {t} /\ UNCHANGED <<opened, open, roots>>

\* Names are whatever the implementation gives its work; a new one is read
\* off the step that opens it.
WorkNext ==
  \/ \E w \in opened' \ opened : Root(w)
  \/ \E w \in opened' \ opened, parent \in open : Child(parent, w)
  \/ \E done \in SUBSET open : Close(done)
  \/ \E t \in Threads : Arrive(t) \/ Pass(t)

WorkSpec == WorkInit /\ [][WorkNext]_workVars
=============================================================================
