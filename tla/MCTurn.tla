-------------------------------- MODULE MCTurn -------------------------------
(* Small instances of TurnAdmission. *)
EXTENDS TurnSafety, TLC

Symmetry == Permutations(Stacks)
==============================================================================
