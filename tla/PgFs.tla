-------------------------------- MODULE PgFs ---------------------------------
(***************************************************************************)
(* The file system front end (pgfs.go): a database mounted as a tree whose *)
(* directories are schemas, tables and rows and whose files are fields.    *)
(* The kernel sends requests about nodes it has looked up; each is served  *)
(* by a goroutine of its own, one query at a time, while other clients     *)
(* change the database.  Writes gather in fileBuffers until an fsync.      *)
(* One schema with one table stands for all: buffers are per field.        *)
(***************************************************************************)
EXTENDS Naturals, Sequences, FiniteSets

CONSTANTS
    Users,             \* requests the kernel may have outstanding
    Root, Schema, Table,   \* the mount point and the two directories below
    Rows, Columns,     \* names of rows; the columns but for the key
    Key,               \* the key column, a file of the row like the others
    KeyIsText,         \* whether its values can be scanned into a Go string
    Null, Absent,      \* a field without a value; no such row
    MaxWrites,         \* bound on the pieces written
    MaxEdits,          \* bounds on what other clients add or change,
    MaxRemovals,       \*   and on what they take away
    Faults             \* whether queries may fail

Fields   == Rows \X (Columns \cup {Key})
Nodes    == {Root, Schema, Table} \cup Rows \cup Fields
Objects  == {Schema, Table} \cup Columns
Contents == Seq(Nat) \cup {Null}    \* pieces by number, 0 is any other client's
Edits    == {<<0>>, Null}
NewRows  == {[c \in Columns |-> v] : v \in Edits}

ASSUME PgFsAssumption ==
    /\ Rows \cap Fields = {} /\ {Root, Schema, Table} \cap (Rows \cup Fields) = {}
    /\ Root # Schema /\ Root # Table /\ Schema # Table
    /\ {Schema, Table, Key} \cap Columns = {} /\ KeyIsText \in BOOLEAN
    /\ Absent \notin [Columns -> Contents] \cup Contents
    /\ Null \notin Seq(Nat)
    /\ MaxWrites \in Nat /\ MaxEdits \in Nat /\ MaxRemovals \in Nat /\ Faults \in BOOLEAN

VARIABLES
    catalog,       \* the objects that exist
    field,         \* the rows, by name: their fields but for the key
    fileBuffers,
    known,         \* nodes the kernel has been given
    request,       \* the lookup or fsync each goroutine serves, and where it is
    down,          \* "no", or why the daemon ended: a query, a null, a key, a map
    written,       \* pieces accepted by Write
    edits,         \* additions and changes by other clients
    removals,      \* what other clients took away
    moved,         \* an fsync has changed a key (history)
    failed         \* a query has failed (history)

database == <<catalog, field, edits, removals, moved>>
vars == <<database, fileBuffers, known, request, down, written, failed>>

\* had and lacked: whether a node looked up existed, or did not, since then.
Request == [op : {"none", "lookup", "fsync"},
            node : Nodes,
            at : {"called", "exists", "checked", "found", "enoent", "built", "executed"},
            data : Seq(Nat), had : BOOLEAN, lacked : BOOLEAN]

Idle == [op |-> "none", node |-> Root, at |-> "called", data |-> <<>>,
         had |-> FALSE, lacked |-> FALSE]

\* What of the rows a catalog has room for.
Fitting(cat, rows) ==
    [r \in Rows |-> IF Table \notin cat \/ rows[r] = Absent THEN Absent
                   ELSE [c \in Columns |-> IF c \in cat THEN rows[r][c] ELSE Null]]

NoBuffers == [f \in Fields |-> <<>>]
NoRequest == [u \in Users |-> Idle]

TypeOK ==
    /\ catalog \subseteq Objects
    /\ field \in [Rows -> [Columns -> Contents] \cup {Absent}]
    /\ fileBuffers \in [Fields -> Seq(Nat)]
    /\ known \subseteq Nodes
    /\ request \in [Users -> Request]
    /\ \A u \in Users : request[u].op = "fsync" => request[u].node \in Fields
    /\ down \in {"no", "query", "null", "scan", "map"}
    /\ written \in Nat /\ edits \in Nat /\ removals \in Nat
    /\ moved \in BOOLEAN /\ failed \in BOOLEAN

Init ==
    /\ catalog \in {Objects, {Schema}} \cup {Objects \ {c} : c \in Columns}
    /\ field \in [Rows -> NewRows \cup {Absent}]
    /\ field = Fitting(catalog, field)
    /\ fileBuffers = NoBuffers /\ known = {Root} /\ request = NoRequest
    /\ down = "no" /\ written = 0 /\ edits = 0 /\ removals = 0
    /\ moved = FALSE /\ failed = FALSE

-----------------------------------------------------------------------------
Parent(n) == CASE n = Schema -> Root
               [] n = Table  -> Schema
               [] n \in Rows   -> Table
               [] n \in Fields -> n[1]

\* A table has a key for as long as it is there.
HasColumn(cat, c) == IF c = Key THEN Table \in cat ELSE c \in cat

PresentIn(cat, rows, n) ==
    \/ n = Root
    \/ n \in {Schema, Table} /\ n \in cat
    \/ n \in Rows /\ rows[n] # Absent
    \/ n \in Fields /\ HasColumn(cat, n[2]) /\ rows[n[1]] # Absent

Present(n) == PresentIn(catalog, field, n)

\* The goroutine of u is in operation op, at a certain query.
At(u, op, at) == down = "no" /\ request[u].op = op /\ request[u].at = at

Goto(u, at) == request' = [request EXCEPT ![u].at = at]
Done(u)     == request' = [request EXCEPT ![u] = Idle]

Found(u)    == Goto(u, "found") /\ known' = known \cup {request[u].node}
                                /\ UNCHANGED <<down, fileBuffers>>
Step(u, at) == Goto(u, at) /\ UNCHANGED <<known, down, fileBuffers>>
Enoent(u)   == Step(u, "enoent")
Answer(u)   == Done(u) /\ UNCHANGED <<known, down, fileBuffers>>

\* The process ends, with everything it holds.
Fatal(why) == /\ down' = why
              /\ fileBuffers' = NoBuffers /\ known' = {Root} /\ request' = NoRequest

-----------------------------------------------------------------------------
(* The kernel asks for names in directories it knows, and holds the lock   *)
(* of an inode during a write or an fsync.                                 *)

Locked(n) == \E v \in Users : request[v].op = "fsync" /\ request[v].node = n

\* A goroutine is free to serve an operation on n, a node of the set s.
Ready(u, n, s) == down = "no" /\ request[u] = Idle /\ n \in known \cap s

Call(u, op, n) ==
    /\ down = "no" /\ request[u] = Idle
    /\ \/ op = "lookup" /\ n # Root /\ Parent(n) \in known
       \/ op = "fsync" /\ n \in known \cap Fields /\ ~Locked(n)
    /\ request' = [request EXCEPT ![u] =
                      [op |-> op, node |-> n, at |-> "called", data |-> <<>>,
                       had |-> op = "lookup" /\ Present(n),
                       lacked |-> op = "lookup" /\ ~Present(n)]]
    /\ UNCHANGED <<database, fileBuffers, known, down, written, failed>>

\* The answer of a lookup reaches the kernel.
Return(u) ==
    /\ At(u, "lookup", "found") \/ At(u, "lookup", "enoent")
    /\ Answer(u)
    /\ UNCHANGED <<database, written, failed>>

-----------------------------------------------------------------------------
(* Lookup, level by level.                                                 *)

LookupSchema(u) ==
    /\ At(u, "lookup", "called") /\ request[u].node = Schema
    /\ IF Present(Schema) THEN Found(u) ELSE Enoent(u)

LookupTable(u) ==
    /\ At(u, "lookup", "called") /\ request[u].node = Table
    /\ IF Present(Table) THEN Step(u, "exists") ELSE Enoent(u)

\* The second query of SchemaDir.Lookup finds no row if the table is gone.
TableKey(u) ==
    /\ At(u, "lookup", "exists") /\ request[u].node = Table
    /\ IF Present(Table) THEN Found(u) ELSE Fatal("query")

\* Broken variant of LookupRow: what was found once is found again.
LookupRowCached(u) ==
    /\ At(u, "lookup", "called") /\ request[u].node \in Rows
    /\ IF request[u].node \in known \/ Present(request[u].node) THEN Found(u) ELSE Enoent(u)

LookupRow(u) ==
    /\ At(u, "lookup", "called") /\ request[u].node \in Rows
    /\ IF Present(request[u].node) THEN Found(u) ELSE Enoent(u)

\* Broken variant of LookupField: any name is found, as an older version
\* that is commented out in the code had it.
LookupFieldAny(u) ==
    /\ At(u, "lookup", "called") /\ request[u].node \in Fields
    /\ Step(u, "checked")

LookupField(u) ==
    /\ At(u, "lookup", "called") /\ request[u].node \in Fields
    /\ IF HasColumn(catalog, request[u].node[2]) THEN Step(u, "exists") ELSE Enoent(u)

\* The query names the column: it fails if that is gone.
FieldRow(u) ==
    /\ At(u, "lookup", "exists") /\ request[u].node \in Fields
    /\ IF ~HasColumn(catalog, request[u].node[2]) THEN Fatal("query")
       ELSE IF Present(request[u].node) THEN Step(u, "checked") ELSE Enoent(u)

\* The file server asks the new node for its attributes.
FieldAttr(u) ==
    /\ At(u, "lookup", "checked")
    /\ IF Present(request[u].node) THEN Found(u) ELSE Fatal("query")

Lookup(u) ==
    /\ \/ LookupSchema(u) \/ LookupTable(u) \/ TableKey(u) \/ LookupRow(u)
       \/ LookupField(u) \/ FieldRow(u) \/ FieldAttr(u)
    /\ UNCHANGED <<database, written, failed>>

-----------------------------------------------------------------------------
(* Operations of one query.                                                *)

\* Listings of the catalog are empty for what is gone; of a table that is
\* gone there is none, nor of one with a row, be it one that nobody asks for,
\* whose key is no text.
ListRoot(u, n)   == n = Root /\ Answer(u)
ListSchema(u, n) == n = Schema /\ Answer(u)
ListRow(u, n)    == n \in Rows /\ Answer(u)
ListTable(u, n) ==
    /\ n = Table
    /\ \/ ~Present(Table) /\ Fatal("query")
       \/ Present(Table) /\ ~KeyIsText /\ Fatal("scan")
       \/ /\ Present(Table) /\ (KeyIsText \/ \A r \in Rows : field[r] = Absent)
          /\ Answer(u)

ReadDirAll(u, n) ==
    /\ Ready(u, n, Nodes)
    /\ ListRoot(u, n) \/ ListSchema(u, n) \/ ListTable(u, n) \/ ListRow(u, n)
    /\ UNCHANGED <<database, written, failed>>

Attr(u, n) ==
    /\ Ready(u, n, Fields)
    /\ IF Present(n) THEN Answer(u) ELSE Fatal("query")
    /\ UNCHANGED <<database, written, failed>>

\* A null cannot be scanned into a string.
ReadAll(u, n) ==
    /\ Ready(u, n, Fields)
    /\ IF ~Present(n) THEN Fatal("query")
       ELSE IF n[2] # Key /\ field[n[1]][n[2]] = Null THEN Fatal("null") ELSE Answer(u)
    /\ UNCHANGED <<database, written, failed>>

-----------------------------------------------------------------------------
(* Writing.                                                                *)

MayWrite(u, n) == Ready(u, n, Fields) /\ ~Locked(n) /\ written < MaxWrites

\* Whatever the offset, data is appended.
Write(u, n) ==
    /\ MayWrite(u, n)
    /\ fileBuffers' = [fileBuffers EXCEPT ![n] = Append(@, written + 1)]
    /\ written' = written + 1
    /\ UNCHANGED <<database, known, request, down, failed>>

\* What the requests are when the database is found as cat and rows.
Noticed(cat, rows) == [u \in Users |->
    IF request[u].op # "lookup" THEN request[u]
    ELSE [request[u] EXCEPT !.had = @ \/ PresentIn(cat, rows, request[u].node),
                            !.lacked = @ \/ ~PresentIn(cat, rows, request[u].node)]]

\* Broken variant of FsyncBuild: the buffer is cleared before the update.
FsyncBuildClears(u) ==
    /\ At(u, "fsync", "called")
    /\ request' = [request EXCEPT ![u] = [@ EXCEPT !.at = "built",
                                                   !.data = fileBuffers[request[u].node]]]
    /\ fileBuffers' = [fileBuffers EXCEPT ![request[u].node] = <<>>]
    /\ UNCHANGED <<database, known, down, written, failed>>

FsyncBuild(u) ==
    /\ At(u, "fsync", "called")
    /\ request' = [request EXCEPT ![u] = [@ EXCEPT !.at = "built",
                                                   !.data = fileBuffers[request[u].node]]]
    /\ UNCHANGED <<database, fileBuffers, known, down, written, failed>>

\* An update of a row that is gone changes nothing, one that names a column
\* that is gone fails; the caller is told of neither.  A key may be set to
\* what it is.
FsyncStore(u) ==
    /\ At(u, "fsync", "built")
    /\ LET n == request[u].node
       IN  field' = IF Present(n) /\ n[2] # Key
                    THEN [field EXCEPT ![n[1]] = [@ EXCEPT ![n[2]] = request[u].data]]
                    ELSE field
    /\ Step(u, "executed")
    /\ UNCHANGED <<catalog, edits, removals, moved, written, failed>>

\* A row whose key is changed is gone from its path; what is written is taken
\* to be the name of no row that is asked for.
FsyncMove(u) ==
    /\ At(u, "fsync", "built") /\ Present(request[u].node) /\ request[u].node[2] = Key
    /\ field' = [field EXCEPT ![request[u].node[1]] = Absent]
    /\ request' = [Noticed(catalog, field') EXCEPT ![u].at = "executed"]
    /\ moved' = TRUE
    /\ UNCHANGED <<catalog, edits, removals, fileBuffers, known, down, written, failed>>

FsyncExec(u) == FsyncStore(u) \/ FsyncMove(u)

\* Broken variants of FsyncClear: the buffer is kept, or all are cleared.
FsyncClearNot(u) ==
    /\ At(u, "fsync", "executed")
    /\ Answer(u)
    /\ UNCHANGED <<database, written, failed>>

FsyncClearAll(u) ==
    /\ At(u, "fsync", "executed")
    /\ fileBuffers' = NoBuffers
    /\ Done(u)
    /\ UNCHANGED <<database, known, down, written, failed>>

FsyncClear(u) ==
    /\ At(u, "fsync", "executed")
    /\ fileBuffers' = [fileBuffers EXCEPT ![request[u].node] = <<>>]
    /\ Done(u)
    /\ UNCHANGED <<database, known, down, written, failed>>

-----------------------------------------------------------------------------
(* Failures.                                                               *)

\* Two lookups treat an error as absence, fsync ignores it, all others end
\* the daemon.
QueryFails(u) ==
    /\ Faults /\ failed' = TRUE
    /\ \/ /\ At(u, "lookup", "called") /\ request[u].node \in {Schema} \cup Rows
          /\ Enoent(u)
       \/ At(u, "fsync", "built") /\ Step(u, "executed")
       \/ /\ \/ At(u, "lookup", "called") /\ request[u].node \in {Table} \cup Fields
             \/ At(u, "lookup", "exists") \/ At(u, "lookup", "checked")
             \/ Ready(u, Root, Nodes)
          /\ Fatal("query")
    /\ UNCHANGED <<database, written>>

\* The next statement of u's goroutine uses the map fileBuffers for n, or
\* assigns to it.
AssignsMap(u, n) == MayWrite(u, n) \/ (At(u, "fsync", "executed") /\ request[u].node = n)
UsesMap(u, n)    == AssignsMap(u, n) \/ (At(u, "fsync", "called") /\ request[u].node = n)

\* The map has no lock, only each inode has: the runtime may notice two
\* uses at once and end the process.
MapRace(u, v) ==
    /\ u # v
    /\ \E m, n \in Fields : m # n /\ UsesMap(u, m) /\ AssignsMap(v, n)
    /\ Fatal("map")
    /\ UNCHANGED <<database, written, failed>>

\* A new daemon, mounted again.
Restart ==
    /\ down # "no" /\ down' = "no"
    /\ UNCHANGED <<database, fileBuffers, known, request, written, failed>>

-----------------------------------------------------------------------------
(* Other clients of the database.                                          *)

Under(o) == CASE o = Schema -> Objects
              [] o = Table  -> Objects \ {Schema}
              [] OTHER        -> {o}

Changed(cat, rows) ==
    /\ catalog' = cat /\ field' = Fitting(cat, rows)
    /\ request' = Noticed(catalog', field')
    /\ UNCHANGED <<fileBuffers, known, down, written, moved, failed>>

Adds    == edits < MaxEdits /\ edits' = edits + 1 /\ UNCHANGED removals
Removes == removals < MaxRemovals /\ removals' = removals + 1 /\ UNCHANGED edits

Drop(o) == o \in catalog /\ Removes /\ Changed(catalog \ Under(o), field)

Create(o) ==
    /\ o \notin catalog
    /\ o = Table => Schema \in catalog
    /\ o \in Columns => Table \in catalog
    /\ Adds
    /\ Changed(catalog \cup {o}, field)

InsertRow(r, v) ==
    /\ Table \in catalog /\ field[r] = Absent
    /\ Adds
    /\ Changed(catalog, [field EXCEPT ![r] = v])

DeleteRow(r) ==
    /\ field[r] # Absent
    /\ Removes
    /\ Changed(catalog, [field EXCEPT ![r] = Absent])

SetField(r, c, v) ==
    /\ field[r] # Absent /\ c \in catalog
    /\ Adds
    /\ Changed(catalog, [field EXCEPT ![r] = [@ EXCEPT ![c] = v]])

Serve(u) == \/ \E op \in {"lookup", "fsync"}, n \in Nodes : Call(u, op, n)
            \/ Return(u) \/ Lookup(u)
            \/ \E n \in Nodes : ReadDirAll(u, n) \/ Attr(u, n) \/ ReadAll(u, n) \/ Write(u, n)
            \/ FsyncBuild(u) \/ FsyncExec(u) \/ FsyncClear(u)

Client == \/ \E o \in Objects : Drop(o) \/ Create(o)
          \/ \E r \in Rows : DeleteRow(r)
          \/ \E r \in Rows, v \in NewRows : InsertRow(r, v)
          \/ \E r \in Rows, c \in Columns, v \in Edits : SetField(r, c, v)

Next ==
    \/ \E u \in Users : Serve(u) \/ QueryFails(u)
    \/ \E u, v \in Users : MapRace(u, v)
    \/ Client
    \/ Restart

Spec == Init /\ [][Next]_vars
=============================================================================
