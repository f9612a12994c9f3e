----------------------------- MODULE MCLifetime -----------------------------
(***************************************************************************)
(* Instances of Lifetime for TLC: what work may capture.                   *)
(***************************************************************************)
EXTENDS Lifetime, TLC

CONSTANTS e1, e2, e3

\* A chain: work of e1 reaches e2 and e3, work of e2 reaches e3.
Chain == {<<e1, e2>>, <<e1, e3>>, <<e2, e3>>}
\* Work reaches everything, itself included: the environment of an ordinary
\* closure.
Anything == Entities \X Entities
\* The handler or first state of e1 holds e2, that of e2 holds e3.
Parts == {<<e1, e2>>, <<e2, e3>>}
None == {}
=============================================================================
