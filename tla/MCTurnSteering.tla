---------------------------- MODULE MCTurnSteering --------------------------
(* TurnSteering with its bounds; texts are interchangeable.                  *)
EXTENDS TurnSteering, TLC

MCSymmetry == Permutations(Messages \ Cancels)
=============================================================================
