\* Two requests at a time on the key and a field of a row that comes and goes.
CONSTANTS
    Users = {u1, u2}
    Root = root
    Schema = schema
    Table = table
    Rows = {r1}
    Columns = {c1}
    Key = key
    KeyIsText = FALSE
    Null = null
    Absent = absent
    MaxWrites = 2
    MaxEdits = 1
    MaxRemovals = 1
    Faults = TRUE
SPECIFICATION Spec
SYMMETRY Symmetry
INVARIANTS PiecesInOrder StaysUp LookupHonest
PROPERTIES SyncStores ImplementsSyncedFile
