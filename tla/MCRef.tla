------------------------------- MODULE MCRef -------------------------------
(***************************************************************************)
(* Instances of Ref for TLC.                                               *)
(***************************************************************************)
EXTENDS Ref

CONSTANTS outer, inner

\* A callback on outer may use inner, never the other way round.
OuterFirst == {<<outer, inner>>}
=============================================================================
