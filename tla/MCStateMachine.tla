---------------------------- MODULE MCStateMachine ----------------------------
(***************************************************************************)
(* A small instance of StateMachine, with every model value symmetric.     *)
(***************************************************************************)
EXTENDS StateMachine, TLC

Symmetry ==
  Permutations(Entities) \cup Permutations(Values) \cup Permutations(Attributes)
    \cup Permutations(Threads)
=============================================================================
