--------------------------- MODULE MCStateMachine ---------------------------
(***************************************************************************)
(* StateMachine for TLC.  The calls of update() are interchangeable.       *)
(***************************************************************************)
EXTENDS StateMachine, TLC

Symmetry == Permutations(Updates)
=============================================================================
