------------------------------ MODULE Process ------------------------------
(***************************************************************************)
(* Process (src/process.hpp): a mailbox and one handler.  A handler that   *)
(* returns nothing or throws fails the process for good.                   *)
(***************************************************************************)
EXTENDS Mailbox

VARIABLES
  failed,      \* failed_
  reason       \* error_.has_value()

processVars == <<failed, reason>>

ProcessInit ==
  /\ failed = [p \in Processes |-> FALSE]
  /\ reason = [p \in Processes |-> FALSE]

\* send, when it returns true.
ProcessAdmit(p, from) ==
  /\ ~failed[p]
  /\ Admit(p, 0, from)
  /\ phase' = Notified(p)
  /\ UNCHANGED processVars

-----------------------------------------------------------------------------
(* run(): the worker of process p.                                         *)

ProcessSleep(p) == Sleep(p) /\ UNCHANGED processVars
ProcessExit(p) == Exit(p) /\ UNCHANGED processVars
ProcessDequeue(p) == Dequeue(p, "callback") /\ UNCHANGED processVars

\* The handler returned nullopt or threw.
FailHandler(p) ==
  /\ phase[p] = "callback"
  /\ failed' = [failed EXCEPT ![p] = TRUE]
  /\ reason' = [reason EXCEPT ![p] = TRUE]
  /\ Settle(p, 1 + Len(queue[p]))
  /\ queue' = [queue EXCEPT ![p] = <<>>]
  /\ phase' = [phase EXCEPT ![p] = "check"]
  /\ current' = [current EXCEPT ![p] = NoItem]
  /\ staged' = [staged EXCEPT ![p] = <<>>]
  /\ UNCHANGED <<awaiting, accepted, terminate>>

\* mutant: the message is retired before its sends are dispatched.
CommitHandlerEarly(p) ==
  /\ phase[p] = "callback"
  /\ phase' = [phase EXCEPT ![p] = "dispatch"]
  /\ Settle(p, 1)
  /\ UNCHANGED <<awaiting, queue, accepted, current, staged, terminate>>
  /\ UNCHANGED processVars

\* The handler returned a value: nothing to commit, its sends may leave.
CommitHandler(p) ==
  /\ phase[p] = "callback"
  /\ phase' = [phase EXCEPT ![p] = "dispatch"]
  /\ asleep' = asleep \ {t \in asleep : awaiting[t] = p}
  /\ UNCHANGED <<pending, awaiting, queue, accepted, completed, current, staged, terminate>>
  /\ UNCHANGED processVars
=============================================================================
