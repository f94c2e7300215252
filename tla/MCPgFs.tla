------------------------------- MODULE MCPgFs --------------------------------
(* Symmetry for checking module PgFs with TLC.                             *)
EXTENDS PgFsProperties, TLC

Symmetry == Permutations(Users) \cup Permutations(Rows) \cup Permutations(Columns)
=============================================================================
