-------------------------- MODULE MCTurnLifecycle --------------------------
(* Instances of TurnLifecycle for TLC.                                     *)
EXTENDS TurnLifecycle, TLC

Interchangeable ==
  Permutations(Thread) \cup Permutations(Turn)

=============================================================================
