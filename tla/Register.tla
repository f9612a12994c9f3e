------------------------------ MODULE Register ------------------------------
(***************************************************************************)
(* What a set of Refs promises the threads that use them: a blocking       *)
(* register whose read, write and update each happen at one instant.  An   *)
(* update replaces the very value its callback was given.                  *)
(***************************************************************************)
EXTENDS Naturals

CONSTANTS Threads, Refs

VARIABLES
  stored,    \* the value of each register
  results    \* what each thread last read

registerVars == <<stored, results>>

\* A value is known by the store that made it, and by the store it was
\* computed from (0 for a plain write).
Stamps == [id : Nat, saw : Nat]
Unset == [id |-> 0, saw |-> 0]

RegisterInit ==
  /\ stored \in [Refs -> Stamps]
  /\ \A r \in Refs : stored[r].saw = 0
  /\ results = [t \in Threads |-> Unset]

\* A store nobody has seen before.
New(stamp) == \A r \in Refs : stored[r].id < stamp.id

Store(r, stamp) ==
  /\ New(stamp)
  /\ stored' = [stored EXCEPT ![r] = stamp]
  /\ UNCHANGED results

Write(r) == stored'[r].saw = 0 /\ Store(r, stored'[r])

Replace(r) ==
  /\ stored[r] # Unset
  /\ stored'[r].saw = stored[r].id
  /\ Store(r, stored'[r])

Read(t, r) ==
  /\ stored[r] # Unset
  /\ results' = [results EXCEPT ![t] = stored[r]]
  /\ UNCHANGED stored

RegisterNext ==
  \/ \E r \in Refs : Write(r) \/ Replace(r)
  \/ \E t \in Threads, r \in Refs : Read(t, r)

RegisterSpec == RegisterInit /\ [][RegisterNext]_registerVars
=============================================================================
