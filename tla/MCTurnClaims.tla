---------------------------- MODULE MCTurnClaims ----------------------------
(* Instances of TurnClaims for TLC.                                        *)
EXTENDS TurnClaims, TLC

=============================================================================
