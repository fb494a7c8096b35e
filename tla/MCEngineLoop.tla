---------------------------- MODULE MCEngineLoop ----------------------------
(* EngineLoop for TLC: no property tells two positions apart. *)
EXTENDS EngineLoop, TLC

Symmetry == Permutations(Positions)
=============================================================================
