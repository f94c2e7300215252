------------------------------ MODULE MCBundle ------------------------------
(* Model values, symmetry and a bound for checking module Bundle with TLC. *)
EXTENDS BundleStatus, FiniteSets, TLC

Symmetry == Permutations(Rows) \cup Permutations(Bundles) \cup Permutations(Values)

(* Bound on what is tracked or staged once MaxCommits commits are made, when *)
(* no commit() is left that could record it: one thing, of any kind.         *)
LastStage ==
    created = MaxCommits =>
        Cardinality(trackedRowAdded) + Cardinality(stageRowAdded)
            + Cardinality(stageRowDeleted) + Cardinality(stageFieldChanged) <= 1
=============================================================================
