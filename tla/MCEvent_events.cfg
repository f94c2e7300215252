\* Two sessions, up to three subscriptions of any kind, two changes.
CONSTANTS
    Sessions = {1, 2}
    Rows = {r1, r2}
    Columns = {c}
    Key = key
    Values = {v1, v2}
    Absent = absent
    MaxChanges = 2
    MaxSubscriptions = 3
SPECIFICATION Spec
SYMMETRY Symmetry
PROPERTIES OnlyWanted NoDuplicates TableRebuilt RowRebuilt ImplementsInbox
