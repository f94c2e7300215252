\* Two bundles that can stage and commit the same row; what is staged after
\* the last commit is bounded by LastStage.
CONSTANTS
    Bundles = {b1, b2}
    Rows = {r1}
    Columns = {col}
    Key = key
    Values = {v1, v2}
    Null = null
    Absent = absent
    None = none
    MaxCommits = 2
SPECIFICATION Spec
SYMMETRY Symmetry
CONSTRAINT LastStage
INVARIANT SnapshotsWellFormed
PROPERTIES CommitSettles CommitIsStage CheckoutRestores CleanCommitsNothing
