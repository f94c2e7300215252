\* Is a commit the previous head with the bundle's staged changes?
CONSTANTS
    Bundles = {b1}
    Rows = {r1}
    Columns = {col}
    Key = key
    Values = {v1}
    Null = null
    Absent = absent
    None = none
    MaxCommits = 3
SPECIFICATION Spec
SYMMETRY Symmetry
PROPERTY CommitCarriesHead
