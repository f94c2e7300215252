\* One bundle, one row, three commits: every operation in every order; what is
\* staged after the last of them is bounded by LastStage.
CONSTANTS
    Bundles = {b1}
    Rows = {r1}
    Columns = {col}
    Key = key
    Values = {v1, v2}
    Null = null
    Absent = absent
    None = none
    MaxCommits = 3
SPECIFICATION Spec
SYMMETRY Symmetry
CONSTRAINT LastStage
INVARIANTS CommitGraph AncestryIsHistory StagedDeletesRecorded
PROPERTIES MergeIsThreeWay ImplementsHistory
