\* Four commits make two branches: does a merge take its base from their fork?
\* What is staged after the last of them is bounded by LastStage.
CONSTANTS
    Bundles = {b1}
    Rows = {r1}
    Columns = {col}
    Key = key
    Values = {v1, v2}
    Null = null
    Absent = absent
    None = none
    MaxCommits = 4
SPECIFICATION Spec
SYMMETRY Symmetry
CONSTRAINT LastStage
PROPERTY MergeFromFork
