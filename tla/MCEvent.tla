------------------------------- MODULE MCEvent -------------------------------
(* Symmetry for checking module Event with TLC; sessions are ordered.      *)
EXTENDS EventProperties, TLC

Symmetry == Permutations(Rows) \cup Permutations(Values)
=============================================================================
