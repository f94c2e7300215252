----------------------------- MODULE PgFsProofs ------------------------------
(***************************************************************************)
(* Theorems about module PgFs, for any users, rows, columns and bounds.    *)
(***************************************************************************)
EXTENDS PgFsProperties, TLAPS

Ats   == {"called", "exists", "checked", "found", "enoent", "built", "executed"}
RowsType == [Rows -> [Columns -> Contents] \cup {Absent}]

RequestOK == /\ request \in [Users -> Request]
             /\ \A u \in Users : request[u].op = "fsync" => request[u].node \in Fields

LEMMA IdleType == /\ Idle \in Request /\ Idle.op = "none"
                   /\ NoRequest \in [Users -> Request]
                   /\ \A u \in Users : NoRequest[u] = Idle
<1>1. Root \in Nodes /\ <<>> \in Seq(Nat)
  BY DEF Nodes
<1> QED
  BY <1>1 DEF Idle, NoRequest, Request

LEMMA GotoType ==
    ASSUME TypeOK, NEW u \in Users, NEW at \in Ats, Goto(u, at)
    PROVE  RequestOK'
BY DEF TypeOK, Goto, Request, Ats, RequestOK

LEMMA DoneType ==
    ASSUME TypeOK, NEW u \in Users, Done(u)
    PROVE  RequestOK'
BY IdleType DEF TypeOK, Done, RequestOK

LEMMA NoBuffersType == NoBuffers \in [Fields -> Seq(Nat)]
BY DEF NoBuffers

LEMMA FieldParts == \A f \in Fields : f \in Nodes /\ f[1] \in Rows /\ f[2] \in Columns \cup {Key}
BY DEF Fields, Nodes

\* The cases of PresentIn exclude each other.
LEMMA PresentCases ==
    ASSUME NEW cat, NEW rows
    PROVE  /\ PresentIn(cat, rows, Root)
           /\ PresentIn(cat, rows, Schema) <=> Schema \in cat
           /\ PresentIn(cat, rows, Table) <=> Table \in cat
           /\ \A n \in Rows : PresentIn(cat, rows, n) <=> rows[n] # Absent
           /\ \A n \in Fields : PresentIn(cat, rows, n) <=> HasColumn(cat, n[2]) /\ rows[n[1]] # Absent
BY PgFsAssumption DEF PresentIn

LEMMA EditsType == /\ \A v \in Edits : v \in Contents
                   /\ \A v \in NewRows : v \in [Columns -> Contents]
<1>1. <<0>> \in Seq(Nat)
  OBVIOUS
<1> QED
  BY <1>1 DEF Edits, Contents, NewRows

LEMMA FittingType ==
    ASSUME NEW cat, NEW rows \in RowsType
    PROVE  Fitting(cat, rows) \in RowsType
<1> SUFFICES ASSUME NEW r \in Rows, Table \in cat, rows[r] # Absent
             PROVE  [c \in Columns |-> IF c \in cat THEN rows[r][c] ELSE Null]
                        \in [Columns -> Contents]
  BY DEF Fitting, RowsType
<1>1. rows[r] \in [Columns -> Contents] /\ Null \in Contents
  BY DEF RowsType, Contents
<1> QED
  BY <1>1

\* How a request, the kernel's nodes, the buffers and the daemon may change.
LEMMA FatalType ==
    ASSUME NEW why \in {"no", "query", "null", "scan", "map"}, Fatal(why)
    PROVE  /\ fileBuffers' \in [Fields -> Seq(Nat)] /\ known' \subseteq Nodes
           /\ RequestOK' /\ down' \in {"no", "query", "null", "scan", "map"}
BY IdleType, NoBuffersType DEF Fatal, Nodes, RequestOK

LEMMA ServedType ==
    ASSUME TypeOK, NEW u \in Users,
           \/ Found(u) \/ Answer(u) \/ Enoent(u)
           \/ \E at \in Ats : Step(u, at)
           \/ \E why \in {"query", "null", "scan", "map"} : Fatal(why)
    PROVE  /\ fileBuffers' \in [Fields -> Seq(Nat)] /\ known' \subseteq Nodes
           /\ RequestOK' /\ down' \in {"no", "query", "null", "scan", "map"}
<1>1. CASE Found(u)
  <2>1. request[u].node \in Nodes
    BY DEF TypeOK, Request
  <2> QED
    BY <1>1, <2>1, GotoType DEF Found, TypeOK, Ats
<1>2. CASE Answer(u)
  BY <1>2, DoneType DEF Answer, TypeOK
<1>3. CASE Enoent(u) \/ \E at \in Ats : Step(u, at)
  <2>1. PICK at \in Ats : Step(u, at)
    BY <1>3 DEF Enoent, Ats
  <2> QED
    BY <2>1, GotoType DEF Step, TypeOK
<1>4. CASE \E why \in {"query", "null", "scan", "map"} : Fatal(why)
  BY <1>4, FatalType
<1> QED
  BY <1>1, <1>2, <1>3, <1>4

-----------------------------------------------------------------------------
LEMMA CallType ==
    ASSUME TypeOK, NEW u \in Users, NEW op \in {"lookup", "fsync"}, NEW n \in Nodes,
           Call(u, op, n)
    PROVE  TypeOK'
<1>1. [op |-> op, node |-> n, at |-> "called", data |-> <<>>,
       had |-> op = "lookup" /\ Present(n), lacked |-> op = "lookup" /\ ~Present(n)] \in Request
  BY DEF Request
<1> QED
  <2>1. request' \in [Users -> Request]
    BY <1>1 DEF TypeOK, Call
  <2>2. \A v \in Users : request'[v].op = "fsync" => request'[v].node \in Fields
    BY DEF TypeOK, Call
  <2> QED
    BY <2>1, <2>2 DEF TypeOK, Call, database

LEMMA LookupServes ==
    ASSUME NEW u \in Users, Lookup(u)
    PROVE  /\ \/ Found(u) \/ Answer(u) \/ Enoent(u)
              \/ \E at \in Ats : Step(u, at)
              \/ \E why \in {"query", "null", "scan", "map"} : Fatal(why)
           /\ UNCHANGED <<database, written, failed>>
BY DEF Lookup, LookupSchema, LookupTable, TableKey, LookupRow, LookupField, FieldRow,
       FieldAttr, Ats, Enoent

LEMMA QueriesServe ==
    ASSUME NEW u \in Users, NEW n, ReadDirAll(u, n) \/ Attr(u, n) \/ ReadAll(u, n)
    PROVE  /\ Answer(u) \/ \E why \in {"query", "null", "scan"} : Fatal(why)
           /\ UNCHANGED <<database, written, failed>>
BY DEF ReadDirAll, ListRoot, ListSchema, ListTable, ListRow, Attr, ReadAll

LEMMA FsyncType ==
    ASSUME TypeOK, NEW u \in Users, FsyncBuild(u) \/ FsyncStore(u) \/ FsyncClear(u)
    PROVE  TypeOK'
<1> DEFINE n == request[u].node
<1>1. CASE FsyncBuild(u)
  <2>1. fileBuffers[n] \in Seq(Nat)
    BY <1>1 DEF FsyncBuild, At, TypeOK
  <2>2. [request[u] EXCEPT !.at = "built", !.data = fileBuffers[n]] \in Request
    BY <2>1 DEF TypeOK, Request
  <2>3. RequestOK'
    BY <1>1, <2>2 DEF FsyncBuild, TypeOK, RequestOK
  <2> QED
    BY <1>1, <2>3 DEF FsyncBuild, TypeOK, RequestOK, database
<1>2. CASE FsyncStore(u)
  <2>1. n \in Fields /\ n[1] \in Rows /\ n[2] \in Columns \cup {Key}
    BY <1>2, FieldParts DEF FsyncStore, At, TypeOK
  <2>2. request[u].data \in Contents
    BY DEF TypeOK, Request, Contents
  <2>3. field' \in RowsType
    <3>1. CASE ~(Present(n) /\ n[2] # Key)
      BY <1>2, <3>1 DEF FsyncStore, TypeOK, RowsType
    <3>2. CASE Present(n) /\ n[2] # Key
      <4>1. field[n[1]] # Absent
        <5> HIDE DEF n
        <5> QED
          BY <2>1, <3>2, PresentCases DEF Present
      <4>2. [field[n[1]] EXCEPT ![n[2]] = request[u].data] \in [Columns -> Contents]
        BY <2>1, <2>2, <4>1 DEF TypeOK
      <4> QED
        BY <1>2, <2>1, <3>2, <4>2 DEF FsyncStore, TypeOK, RowsType
    <3> QED
      BY <3>1, <3>2
  <2>4. RequestOK'
    BY <1>2, GotoType DEF FsyncStore, Step, Ats
  <2> QED
    BY <1>2, <2>3, <2>4 DEF FsyncStore, Step, TypeOK, RequestOK, RowsType
<1>3. CASE FsyncClear(u)
  <2>1. fileBuffers' \in [Fields -> Seq(Nat)]
    <3>1. <<>> \in Seq(Nat)
      OBVIOUS
    <3> QED
      BY <1>3, <3>1 DEF FsyncClear, TypeOK
  <2>2. RequestOK'
    BY <1>3, DoneType DEF FsyncClear
  <2> QED
    BY <1>3, <2>1, <2>2 DEF FsyncClear, TypeOK, RequestOK, database
<1> QED
  BY <1>1, <1>2, <1>3
LEMMA WriteType ==
    ASSUME TypeOK, NEW u \in Users, NEW n, Write(u, n)
    PROVE  TypeOK'
<1>1. n \in Fields /\ written + 1 \in Nat
  BY DEF Write, MayWrite, Ready, TypeOK
<1>2. Append(fileBuffers[n], written + 1) \in Seq(Nat)
  BY <1>1 DEF TypeOK
<1>3. fileBuffers' \in [Fields -> Seq(Nat)]
  BY <1>2 DEF Write, TypeOK
<1> QED
  BY <1>1, <1>3 DEF Write, TypeOK, database

LEMMA FailureType ==
    ASSUME TypeOK, NEW u \in Users, QueryFails(u) \/ \E v \in Users : MapRace(u, v)
    PROVE  TypeOK'
<1>1. /\ \/ Enoent(u)
         \/ \E at \in Ats : Step(u, at)
         \/ \E why \in {"query", "null", "scan", "map"} : Fatal(why)
      /\ UNCHANGED <<database, written>> /\ failed' \in BOOLEAN
  BY DEF QueryFails, MapRace, Ats, TypeOK
<1> QED
  BY <1>1, ServedType DEF TypeOK, RequestOK, database

\* What other clients do to the database.
Grows(cat, rows) == /\ catalog \subseteq cat
                    /\ \A r \in Rows : field[r] # Absent => rows[r] # Absent

LEMMA ClientChanges ==
    ASSUME TypeOK, Client
    PROVE  \E cat \in SUBSET Objects, rows \in RowsType :
              Changed(cat, rows) /\ (Removes \/ (Adds /\ Grows(cat, rows)))
<1>1. field \in RowsType /\ catalog \subseteq Objects
  BY DEF TypeOK, RowsType
<1>2. ASSUME NEW o \in Objects, Drop(o) \/ Create(o)
      PROVE  \E cat \in SUBSET Objects :
                Changed(cat, field) /\ (Removes \/ (Adds /\ Grows(cat, field)))
  BY <1>1, <1>2 DEF Drop, Create, Grows
<1>3. ASSUME NEW r \in Rows, NEW row \in [Columns -> Contents] \cup {Absent}
      PROVE  [field EXCEPT ![r] = row] \in RowsType
  BY <1>1, <1>3 DEF RowsType
<1>4. \A v \in Edits : v \in Contents
  BY EditsType
<1>5. ASSUME NEW r \in Rows, NEW v \in NewRows, InsertRow(r, v)
      PROVE  \E rows \in RowsType : Changed(catalog, rows) /\ Adds /\ Grows(catalog, rows)
  <2>1. v \in [Columns -> Contents]
    BY EditsType
  <2>2. Grows(catalog, [field EXCEPT ![r] = v])
    BY <1>1, <1>5 DEF InsertRow, Grows, RowsType
  <2> QED
    BY <1>3, <1>5, <2>1, <2>2 DEF InsertRow
<1>6. ASSUME NEW r \in Rows, DeleteRow(r)
      PROVE  \E rows \in RowsType : Changed(catalog, rows) /\ Removes
  BY <1>3, <1>6 DEF DeleteRow
<1>7. ASSUME NEW r \in Rows, NEW c \in Columns, NEW v \in Edits, SetField(r, c, v)
      PROVE  \E rows \in RowsType : Changed(catalog, rows) /\ Adds /\ Grows(catalog, rows)
  <2>1. field[r] \in [Columns -> Contents]
    BY <1>7, <1>1 DEF SetField, RowsType
  <2>2. [field[r] EXCEPT ![c] = v] \in [Columns -> Contents]
    BY <1>4, <2>1
  <2> DEFINE row == [field[r] EXCEPT ![c] = v]
  <2>3. row # Absent
    BY <2>2, PgFsAssumption
  <2>4. Grows(catalog, [field EXCEPT ![r] = row])
    BY <1>1, <2>3 DEF Grows, RowsType
  <2>5. [field EXCEPT ![r] = row] \in RowsType
    BY <1>3, <2>2
  <2> QED
    BY <1>7, <2>4, <2>5 DEF SetField
<1> QED
  BY <1>1, <1>2, <1>5, <1>6, <1>7 DEF Client

\* What a request is once it has noticed a change: the same, but for had and
\* lacked.
LEMMA NoticedRequests ==
    ASSUME TypeOK, NEW cat, NEW rows, NEW u \in Users
    PROVE  LET q == Noticed(cat, rows)[u]
               p == PresentIn(cat, rows, request[u].node)
           IN  /\ q \in Request
               /\ q.op = request[u].op /\ q.node = request[u].node /\ q.at = request[u].at
               /\ q.data = request[u].data
               /\ q.op = "lookup" => /\ q.had = (request[u].had \/ p)
                                     /\ q.lacked = (request[u].lacked \/ ~p)
<1> DEFINE p == PresentIn(cat, rows, request[u].node)
           q == [request[u] EXCEPT !.had = @ \/ p, !.lacked = @ \/ ~p]
<1>1. request[u] \in Request
  BY DEF TypeOK
<1>2. p \in BOOLEAN
  BY DEF PresentIn
<1> HIDE DEF p
<1>3. /\ q \in Request /\ q.op = request[u].op /\ q.node = request[u].node
      /\ q.at = request[u].at /\ q.data = request[u].data
      /\ q.had = (request[u].had \/ p) /\ q.lacked = (request[u].lacked \/ ~p)
  BY <1>1, <1>2 DEF Request
<1>4. Noticed(cat, rows)[u] = IF request[u].op # "lookup" THEN request[u] ELSE q
  BY DEF Noticed, p
<1> HIDE DEF q
<1> QED
  BY <1>1, <1>3, <1>4 DEF p

LEMMA ClientType ==
    ASSUME TypeOK, NEW cat \in SUBSET Objects, NEW rows \in RowsType,
           Changed(cat, rows), Adds \/ Removes
    PROVE  TypeOK'
<1>1. field' \in RowsType
  BY FittingType DEF Changed
<1>2. edits' \in Nat /\ removals' \in Nat
  BY DEF Adds, Removes, TypeOK
<1>3. request' = Noticed(catalog', field')
  BY DEF Changed
<1>4. request' \in [Users -> Request]
  <2>1. \A u \in Users : request'[u] \in Request
    BY <1>3, NoticedRequests
  <2>2. request' = [u \in Users |-> request'[u]]
    BY <1>3 DEF Noticed
  <2> QED
    BY <2>1, <2>2
<1>5. \A u \in Users : request'[u].op = "fsync" => request'[u].node \in Fields
  BY <1>3, NoticedRequests DEF TypeOK
<1> QED
  BY <1>1, <1>2, <1>4, <1>5 DEF Changed, TypeOK, RowsType

\* A change of a key, as the requests see it.
LEMMA MoveRequests ==
    ASSUME TypeOK, NEW u \in Users, FsyncMove(u), NEW v \in Users
    PROVE  LET q == request'[v]
               p == PresentIn(catalog', field', request[v].node)
           IN  /\ q \in Request
               /\ q.op = request[v].op /\ q.node = request[v].node /\ q.data = request[v].data
               /\ q.at = IF v = u THEN "executed" ELSE request[v].at
               /\ q.op = "lookup" => /\ q.had = (request[v].had \/ p)
                                     /\ q.lacked = (request[v].lacked \/ ~p)
<1> DEFINE s == Noticed(catalog, field')[v]
           q == request'[v]
<1>1. /\ s \in Request
      /\ s.op = request[v].op /\ s.node = request[v].node /\ s.at = request[v].at
      /\ s.data = request[v].data
      /\ s.op = "lookup" =>
            /\ s.had = (request[v].had \/ PresentIn(catalog, field', request[v].node))
            /\ s.lacked = (request[v].lacked \/ ~PresentIn(catalog, field', request[v].node))
  BY NoticedRequests
<1>2. q = IF v = u THEN [s EXCEPT !.at = "executed"] ELSE s
  BY DEF FsyncMove, Noticed
<1> HIDE DEF s, q
<1>3. /\ q \in Request /\ q.op = s.op /\ q.node = s.node /\ q.data = s.data
      /\ q.had = s.had /\ q.lacked = s.lacked
      /\ q.at = IF v = u THEN "executed" ELSE s.at
  BY <1>1, <1>2 DEF Request
<1>4. catalog' = catalog
  BY DEF FsyncMove
<1> QED
  BY <1>1, <1>3, <1>4 DEF q

\* The row that is moved is gone, and nothing else.
LEMMA MoveRows ==
    ASSUME TypeOK, NEW u \in Users, FsyncMove(u)
    PROVE  /\ field' \in RowsType
           /\ \A r \in Rows : field'[r] = IF r = request[u].node[1] THEN Absent ELSE field[r]
           /\ request[u].node \in Fields
<1>1. request[u].node \in Fields /\ request[u].node[1] \in Rows
  BY FieldParts DEF FsyncMove, At, TypeOK
<1> QED
  BY <1>1 DEF FsyncMove, TypeOK, RowsType

LEMMA MoveType ==
    ASSUME TypeOK, NEW u \in Users, FsyncMove(u)
    PROVE  TypeOK'
<1>1. request' \in [Users -> Request]
  <2>1. \A v \in Users : request'[v] \in Request
    BY MoveRequests
  <2>2. request' = [v \in Users |-> request'[v]]
    BY DEF FsyncMove, Noticed
  <2> QED
    BY <2>1, <2>2
<1>2. \A v \in Users : request'[v].op = "fsync" => request'[v].node \in Fields
  BY MoveRequests DEF TypeOK
<1> QED
  BY <1>1, <1>2, MoveRows DEF FsyncMove, TypeOK, RowsType

-----------------------------------------------------------------------------
\* The steps of the daemon and its kernel, but for a change of a key.
Own(u) == \/ \E op \in {"lookup", "fsync"}, n \in Nodes : Call(u, op, n)
          \/ Return(u) \/ Lookup(u)
          \/ \E n \in Nodes : ReadDirAll(u, n) \/ Attr(u, n) \/ ReadAll(u, n) \/ Write(u, n)
          \/ FsyncBuild(u) \/ FsyncStore(u) \/ FsyncClear(u)
          \/ QueryFails(u) \/ \E v \in Users : MapRace(u, v)

LEMMA OwnTypes == ASSUME TypeOK, NEW u \in Users, Own(u) PROVE TypeOK'
<1>1. ASSUME NEW op \in {"lookup", "fsync"}, NEW n \in Nodes, Call(u, op, n) PROVE TypeOK'
  BY <1>1, CallType
<1>2. CASE Return(u)
  BY <1>2, ServedType DEF Return, TypeOK, RequestOK, database
<1>3. CASE Lookup(u)
  BY <1>3, LookupServes, ServedType DEF TypeOK, RequestOK, database
<1>4. ASSUME NEW n \in Nodes, ReadDirAll(u, n) \/ Attr(u, n) \/ ReadAll(u, n) PROVE TypeOK'
  BY <1>4, QueriesServe, ServedType DEF TypeOK, RequestOK, database
<1>5. ASSUME NEW n \in Nodes, Write(u, n) PROVE TypeOK'
  BY <1>5, WriteType
<1>6. CASE FsyncBuild(u) \/ FsyncStore(u) \/ FsyncClear(u)
  BY <1>6, FsyncType
<1>7. CASE QueryFails(u) \/ \E v \in Users : MapRace(u, v)
  BY <1>7, FailureType
<1> QED
  BY <1>1, <1>2, <1>3, <1>4, <1>5, <1>6, <1>7 DEF Own

LEMMA NextCases ==
    ASSUME [Next]_vars
    PROVE  (\E u \in Users : Own(u) \/ FsyncMove(u)) \/ Client \/ Restart \/ UNCHANGED vars
BY DEF Next, Serve, FsyncExec, Own

LEMMA InitTypes == Init => TypeOK
<1> SUFFICES ASSUME Init PROVE TypeOK
  OBVIOUS
<1>1. field \in RowsType
  BY EditsType DEF Init, RowsType
<1>2. RequestOK /\ fileBuffers \in [Fields -> Seq(Nat)]
  BY IdleType, NoBuffersType DEF Init, RequestOK
<1> QED
  BY <1>1, <1>2 DEF Init, TypeOK, RowsType, RequestOK, Objects, Nodes

(* Types hold in every reachable state.                                    *)
THEOREM PgFsTyping == Spec => []TypeOK
<1>1. Init => TypeOK
  BY InitTypes
<1>2. TypeOK /\ [Next]_vars => TypeOK'
  <2> SUFFICES ASSUME TypeOK, [Next]_vars PROVE TypeOK'
    OBVIOUS
  <2>1. ASSUME NEW u \in Users, Own(u) PROVE TypeOK'
    BY <2>1, OwnTypes
  <2>2. CASE Client
    BY <2>2, ClientChanges, ClientType
  <2>3. CASE Restart
    BY <2>3 DEF Restart, TypeOK, database
  <2>4. CASE UNCHANGED vars
    BY <2>4 DEF TypeOK, vars, database
  <2>5. ASSUME NEW u \in Users, FsyncMove(u) PROVE TypeOK'
    BY <2>5, MoveType
  <2> QED
    BY <2>1, <2>2, <2>3, <2>4, <2>5, NextCases
<1> QED
  BY <1>1, <1>2, PTL DEF Spec

-----------------------------------------------------------------------------
\* Nothing is stored where there is no room for it.
Fits == field = Fitting(catalog, field)

\* The kernel's lock: one fsync per field, of a known field, and what it has
\* read from the buffer is what the buffer still holds.
Locks ==
    /\ \A u \in Users : request[u].op = "fsync" => request[u].node \in known
    /\ \A u \in Users : request[u].op = "fsync" /\ request[u].at = "built"
                          => request[u].data = fileBuffers[request[u].node]
    /\ \A u, v \in Users : /\ request[u].op = "fsync" /\ request[v].op = "fsync"
                            /\ request[u].node = request[v].node
                            => u = v

\* had and lacked tell at least what is so now.
Seen == \A u \in Users : request[u].op = "lookup" =>
            IF Present(request[u].node) THEN request[u].had ELSE request[u].lacked

\* While nothing is taken away, no key is changed and no query fails, what has
\* been found is there, and so is what a lookup has checked so far.
Quiet == removals = 0 /\ ~moved /\ ~failed

NothingLost == Quiet =>
    /\ down # "query"
    /\ \A n \in known : Present(n)
    /\ \A u \in Users : request[u].op = "lookup" =>
         LET n == request[u].node
         IN  /\ request[u].at = "exists" /\ n = Table => Table \in catalog
             /\ request[u].at = "exists" /\ n \in Fields => HasColumn(catalog, n[2])
             /\ request[u].at = "checked" => Present(n)

LEMMA FittingFits ==
    ASSUME NEW cat, NEW rows \in RowsType
    PROVE  Fitting(cat, Fitting(cat, rows)) = Fitting(cat, rows)
<1> DEFINE fit == Fitting(cat, rows)
<1> SUFFICES ASSUME NEW r \in Rows PROVE Fitting(cat, fit)[r] = fit[r]
  BY DEF Fitting
<1>1. CASE Table \notin cat \/ rows[r] = Absent
  BY <1>1 DEF Fitting
<1>2. CASE Table \in cat /\ rows[r] # Absent
  <2> DEFINE row == [c \in Columns |-> IF c \in cat THEN rows[r][c] ELSE Null]
  <2>1. fit[r] = row
    BY <1>2 DEF Fitting
  <2>2. row # Absent
    <3>1. fit[r] \in [Columns -> Contents] \cup {Absent} /\ row \in [Columns -> Contents]
      <4>1. rows[r] \in [Columns -> Contents] /\ Null \in Contents
        BY <1>2 DEF RowsType, Contents
      <4> QED
        BY <4>1, <2>1
    <3> QED
      BY <3>1, PgFsAssumption
  <2>3. Fitting(cat, fit)[r] = [c \in Columns |-> IF c \in cat THEN row[c] ELSE Null]
    BY <1>2, <2>1, <2>2 DEF Fitting
  <2> QED
    BY <2>1, <2>3
<1> QED
  BY <1>1, <1>2

\* An update puts data into a field that is there, and touches no other.
LEMMA ExecUpdates ==
    ASSUME TypeOK, Fits, NEW u \in Users, FsyncStore(u), NEW n, n = request[u].node
    PROVE  /\ n \in Fields /\ field' \in RowsType
           /\ ~Present(n) \/ n[2] = Key => field' = field
           /\ Present(n) /\ n[2] # Key => field'[n[1]][n[2]] = request[u].data
           /\ \A r \in Rows : (field'[r] = Absent) <=> (field[r] = Absent)
           /\ \A r \in Rows, c \in Columns :
                 <<r, c>> # n /\ field[r] # Absent => field'[r][c] = field[r][c]
           /\ Fits'
<1>1. n \in Fields /\ n[1] \in Rows /\ n[2] \in Columns \cup {Key} /\ n = <<n[1], n[2]>>
  BY FieldParts DEF FsyncStore, At, TypeOK, Fields
<1>2. field' \in RowsType
  BY FsyncType DEF TypeOK, RowsType
<1>3. CASE ~(Present(n) /\ n[2] # Key)
  BY <1>1, <1>2, <1>3 DEF FsyncStore, Step, Fits
<1>4. CASE Present(n) /\ n[2] # Key
  <2> DEFINE row == [field[n[1]] EXCEPT ![n[2]] = request[u].data]
  <2>1. field[n[1]] # Absent /\ n[2] \in catalog /\ n[2] \in Columns
    BY <1>1, <1>4, PresentCases DEF Present, HasColumn
  <2>2. field[n[1]] \in [Columns -> Contents]
    BY <1>1, <2>1 DEF TypeOK
  <2>3. request[u].data \in Contents
    BY DEF TypeOK, Request, Contents
  <2>4. row \in [Columns -> Contents]
    BY <2>2, <2>3
  <2>5. row # Absent
    BY <2>4, PgFsAssumption
  <2>6. field' = [field EXCEPT ![n[1]] = row] /\ catalog' = catalog
    BY <1>4 DEF FsyncStore, Step
  <2>7. \A r \in Rows : field'[r] = IF r = n[1] THEN row ELSE field[r]
    BY <1>1, <2>6 DEF TypeOK
  <2>8. row[n[2]] = request[u].data /\ \A c \in Columns : c # n[2] => row[c] = field[n[1]][c]
    BY <2>1, <2>2
  <2> HIDE DEF row
  <2>9. Fits'
    <3>1. \A r \in Rows : field[r] = IF Table \notin catalog \/ field[r] = Absent THEN Absent
                 ELSE [c \in Columns |-> IF c \in catalog THEN field[r][c] ELSE Null]
      BY DEF Fits, Fitting
    <3>2. Table \in catalog
      BY <3>1, <2>1, <1>1
    <3>3. \A c \in Columns : c \notin catalog => field[n[1]][c] = Null
      BY <3>1, <3>2, <1>1, <2>1
    <3>4. row = [c \in Columns |-> IF c \in catalog THEN row[c] ELSE Null]
      BY <3>3, <2>1, <2>4, <2>8
    <3>5. ASSUME NEW r \in Rows PROVE field'[r] = Fitting(catalog, field')[r]
      <4>1. CASE r = n[1]
        <5>1. field'[r] = row
          BY <4>1, <2>7
        <5>2. Fitting(catalog, field')[r] = [c \in Columns |-> IF c \in catalog THEN row[c] ELSE Null]
          BY <5>1, <2>5, <3>2 DEF Fitting
        <5> QED
          BY <5>1, <5>2, <3>4
      <4>2. CASE r # n[1]
        BY <4>2, <2>7, <3>1 DEF Fitting
      <4> QED
        BY <4>1, <4>2
    <3>6. field' = [r \in Rows |-> field'[r]]
      BY <1>2 DEF RowsType
    <3>7. Fitting(catalog, field') = [r \in Rows |-> Fitting(catalog, field')[r]]
      BY DEF Fitting
    <3> QED
      BY <3>5, <3>6, <3>7, <2>6 DEF Fits
  <2> QED
    BY <1>1, <1>2, <1>4, <2>1, <2>5, <2>7, <2>8, <2>9
<1> QED
  BY <1>3, <1>4

-----------------------------------------------------------------------------
LEMMA OwnDatabase ==
    ASSUME NEW u \in Users, Own(u)
    PROVE  UNCHANGED <<catalog, edits, removals, moved>> /\ (UNCHANGED field \/ FsyncStore(u))
<1>1. CASE Lookup(u) \/ Return(u)
  BY <1>1 DEF Lookup, Return, database
<1>2. CASE \E op \in {"lookup", "fsync"}, n \in Nodes : Call(u, op, n)
  BY <1>2 DEF Call, database
<1>3. CASE \E n \in Nodes : ReadDirAll(u, n) \/ Attr(u, n) \/ ReadAll(u, n) \/ Write(u, n)
  BY <1>3 DEF ReadDirAll, ListRoot, ListSchema, ListTable, ListRow,
         Attr, ReadAll, Write, database
<1>4. CASE FsyncBuild(u) \/ FsyncStore(u) \/ FsyncClear(u)
  BY <1>4 DEF FsyncBuild, FsyncStore, FsyncClear, database
<1>5. CASE QueryFails(u) \/ \E v \in Users : MapRace(u, v)
  BY <1>5 DEF QueryFails, MapRace, database
<1> QED
  BY <1>1, <1>2, <1>3, <1>4, <1>5 DEF Own

LEMMA OwnPresence ==
    ASSUME TypeOK, Fits, NEW u \in Users, Own(u)
    PROVE  Fits' /\ \A n \in Nodes : Present(n)' <=> Present(n)
<1>1. CASE UNCHANGED field
  BY <1>1, OwnDatabase DEF Fits, Present
<1>2. CASE FsyncStore(u)
  <2>1. Fits' /\ \A r \in Rows : (field'[r] = Absent) <=> (field[r] = Absent)
    BY <1>2, ExecUpdates
  <2> QED
    BY <2>1, OwnDatabase, FieldParts DEF Present, PresentIn
<1> QED
  BY <1>1, <1>2, OwnDatabase

\* What one step of u does to the requests.
LEMMA OwnRequests ==
    ASSUME TypeOK, NEW u \in Users, Own(u)
    PROVE  \/ request' = NoRequest /\ fileBuffers' = NoBuffers /\ known' = {Root}
              /\ \E why \in {"query", "null", "scan", "map"} : Fatal(why)
           \/ /\ known \subseteq known'
              /\ \/ request' = request
                 \/ \E at \in Ats : Goto(u, at)
                 \/ Done(u)
                 \/ FsyncBuild(u)
                 \/ \E op \in {"lookup", "fsync"}, n \in Nodes : Call(u, op, n)
<1>1. CASE Lookup(u) \/ Return(u)
  <2>1. \/ Found(u) \/ Answer(u) \/ Enoent(u)
        \/ \E at \in Ats : Step(u, at)
        \/ \E why \in {"query", "null", "scan", "map"} : Fatal(why)
    BY <1>1, LookupServes DEF Return
  <2> QED
    BY <2>1 DEF Found, Answer, Enoent, Step, Fatal, Ats
<1>2. CASE \E op \in {"lookup", "fsync"}, n \in Nodes : Call(u, op, n)
  BY <1>2 DEF Call
<1>3. CASE \E n \in Nodes : ReadDirAll(u, n) \/ Attr(u, n) \/ ReadAll(u, n)
  BY <1>3, QueriesServe DEF Answer, Fatal
<1>4. CASE \E n \in Nodes : Write(u, n)
  BY <1>4 DEF Write
<1>5. CASE FsyncBuild(u) \/ FsyncStore(u) \/ FsyncClear(u)
  BY <1>5 DEF FsyncBuild, FsyncStore, FsyncClear, Step, Ats
<1>6. CASE QueryFails(u) \/ \E v \in Users : MapRace(u, v)
  BY <1>6 DEF QueryFails, MapRace, Enoent, Step, Fatal, Ats
<1> QED
  BY <1>1, <1>2, <1>3, <1>4, <1>5, <1>6 DEF Own

LEMMA SeenStep ==
    ASSUME TypeOK, Fits, Seen, NEW u \in Users, Own(u)
    PROVE  Seen'
<1> SUFFICES ASSUME NEW v \in Users, request'[v].op = "lookup"
             PROVE  IF PresentIn(catalog', field', request'[v].node) THEN request'[v].had ELSE request'[v].lacked
  BY DEF Seen, Present
<1> DEFINE was == request[v]
<1>1. \A n \in Nodes : PresentIn(catalog', field', n) <=> Present(n)
  BY OwnPresence DEF Present
<1>2. was \in Request /\ was.node \in Nodes
  BY DEF TypeOK, Request
<1>3. CASE request' = NoRequest
  BY <1>3, IdleType DEF NoRequest
<1>4. CASE request'[v] = request[v]
  BY <1>1, <1>2, <1>4 DEF Seen
<1>5. ASSUME v = u, NEW at \in Ats, Goto(u, at)
      PROVE  IF PresentIn(catalog', field', request'[v].node) THEN request'[v].had ELSE request'[v].lacked
  <2>1. request'[v] = [was EXCEPT !.at = at]
    BY <1>5 DEF Goto, TypeOK
  <2>2. /\ request'[v].op = was.op /\ request'[v].node = was.node
        /\ request'[v].had = was.had /\ request'[v].lacked = was.lacked
    BY <1>2, <2>1 DEF Request
  <2> QED
    BY <1>1, <1>2, <2>2 DEF Seen
<1>6. CASE v = u /\ Done(u)
  BY <1>6, IdleType DEF Done, TypeOK
<1>7. CASE v = u /\ FsyncBuild(u)
  BY <1>2, <1>7 DEF FsyncBuild, At, TypeOK, Request
<1>8. ASSUME NEW op \in {"lookup", "fsync"}, NEW n \in Nodes, Call(u, op, n), v = u
      PROVE  IF PresentIn(catalog', field', request'[v].node) THEN request'[v].had ELSE request'[v].lacked
  <2>1. /\ request'[v].op = op /\ request'[v].node = n
        /\ request'[v].had = (op = "lookup" /\ Present(n))
        /\ request'[v].lacked = (op = "lookup" /\ ~Present(n))
    BY <1>8 DEF Call, TypeOK
  <2> QED
    BY <1>1, <2>1
<1> QED
  <2>1. CASE v # u
    BY <2>1, <1>3, <1>4, OwnRequests DEF Goto, Done, FsyncBuild, Call, TypeOK
  <2>2. CASE v = u
    BY <2>2, <1>3, <1>4, <1>5, <1>6, <1>7, <1>8, OwnRequests
  <2> QED
    BY <2>1, <2>2

LEMMA LocksStep ==
    ASSUME TypeOK, Locks, NEW u \in Users, Own(u)
    PROVE  Locks'
<1> DEFINE Sync(v) == request[v].op = "fsync"
<1>1. CASE request' = NoRequest
  <2>1. \A v \in Users : request'[v].op # "fsync"
    BY <1>1, IdleType
  <2> QED
    BY <2>1 DEF Locks
<1>2. ASSUME NEW op \in {"lookup", "fsync"}, NEW n \in Nodes, Call(u, op, n)
      PROVE  Locks'
  <2>1. \A v \in Users : v # u => request'[v] = request[v]
    BY <1>2 DEF Call, TypeOK
  <2>2. request'[u].op = op /\ request'[u].node = n /\ request'[u].at = "called"
    BY <1>2 DEF Call, TypeOK
  <2>3. op = "fsync" => n \in known /\ \A v \in Users : Sync(v) => request[v].node # n
    BY <1>2 DEF Call, Locked
  <2>4. UNCHANGED <<known, fileBuffers>>
    BY <1>2 DEF Call
  <2> QED
    BY <2>1, <2>2, <2>3, <2>4 DEF Locks
<1>3. CASE FsyncBuild(u)
  <2>1. \A v \in Users : v # u => request'[v] = request[v]
    BY <1>3 DEF FsyncBuild, TypeOK
  <2>2. /\ request'[u].op = request[u].op /\ request'[u].node = request[u].node
        /\ request'[u].data = fileBuffers[request[u].node]
    BY <1>3 DEF FsyncBuild, TypeOK, Request
  <2>3. UNCHANGED <<known, fileBuffers>>
    BY <1>3 DEF FsyncBuild
  <2> QED
    BY <2>1, <2>2, <2>3 DEF Locks
<1>4. CASE FsyncClear(u)
  <2>1. \A v \in Users : request'[v] = IF v = u THEN Idle ELSE request[v]
    BY <1>4 DEF FsyncClear, Done, TypeOK
  <2>2. \A v \in Users : v # u /\ Sync(v) =>
           request[v].node # request[u].node /\ request[v].node \in Fields
    BY <1>4 DEF FsyncClear, At, Locks, TypeOK
  <2>3. /\ known' = known
        /\ \A f \in Fields : f # request[u].node => fileBuffers'[f] = fileBuffers[f]
    BY <1>4 DEF FsyncClear, TypeOK
  <2> QED
    BY <2>1, <2>2, <2>3, IdleType DEF Locks
<1>5. ASSUME NEW n \in Nodes, Write(u, n) PROVE Locks'
  <2>1. \A v \in Users : Sync(v) => request[v].node # n /\ request[v].node \in Fields
    BY <1>5 DEF Write, MayWrite, Locked, TypeOK
  <2>2. /\ UNCHANGED <<known, request>>
        /\ \A f \in Fields : f # n => fileBuffers'[f] = fileBuffers[f]
    BY <1>5 DEF Write, TypeOK
  <2> QED
    BY <2>1, <2>2 DEF Locks
<1>6. ASSUME NEW at \in Ats, Goto(u, at), at # "built", known \subseteq known', UNCHANGED fileBuffers
      PROVE  Locks'
  <2>1. \A v \in Users : v # u => request'[v] = request[v]
    BY <1>6 DEF Goto, TypeOK
  <2>2. request'[u].op = request[u].op /\ request'[u].node = request[u].node /\ request'[u].at = at
    BY <1>6 DEF Goto, TypeOK, Request
  <2> QED
    BY <1>6, <2>1, <2>2 DEF Locks
<1>7. ASSUME Answer(u) PROVE Locks'
  <2>1. \A v \in Users : request'[v] = IF v = u THEN Idle ELSE request[v]
    BY <1>7 DEF Answer, Done, TypeOK
  <2> QED
    BY <1>7, <2>1, IdleType DEF Answer, Locks
<1> DEFINE Onward == \E at \in Ats \ {"built"} :
                        Goto(u, at) /\ known \subseteq known' /\ UNCHANGED fileBuffers
<1>8. Lookup(u) => Onward \/ request' = NoRequest
  BY DEF Lookup, LookupSchema, LookupTable, TableKey, LookupRow, LookupField, FieldRow,
         FieldAttr, Ats, Enoent, Step, Found, Fatal
<1>9. QueryFails(u) => Onward \/ request' = NoRequest
  BY DEF QueryFails, Ats, Enoent, Step, Fatal
<1>10. FsyncStore(u) => Onward
  BY DEF FsyncStore, Step, Ats
<1>11. (\E v \in Users : MapRace(u, v)) => request' = NoRequest
  BY DEF MapRace, Fatal
<1>12. \A n \in Nodes : ReadDirAll(u, n) \/ Attr(u, n) \/ ReadAll(u, n)
                        => Answer(u) \/ request' = NoRequest
  BY QueriesServe DEF Fatal
<1>13. Onward => Locks'
  BY <1>6
<1> HIDE DEF Onward
<1> QED
  BY <1>1, <1>2, <1>3, <1>4, <1>5, <1>7, <1>8, <1>9, <1>10, <1>11, <1>12, <1>13
  DEF Own, Return

LEMMA QuietStep ==
    ASSUME TypeOK, Fits, Seen, NothingLost, NEW u \in Users, Own(u)
    PROVE  NothingLost'
<1> USE DEF Present
<1> SUFFICES ASSUME Quiet' PROVE NothingLost'
  BY DEF NothingLost
<1>1. Quiet
  <2>1. failed' = failed \/ failed' = TRUE
    BY DEF Own, Call, Return, Lookup, ReadDirAll, ListRoot, ListSchema, ListTable, ListRow,
           Attr, ReadAll, Write, FsyncBuild,
           FsyncStore, FsyncClear, QueryFails, MapRace
  <2> QED
    BY <2>1, OwnDatabase DEF Quiet, TypeOK
<1>2. \A n \in Nodes : Present(n)' <=> Present(n)
  BY OwnPresence
<1> DEFINE was == request[u]
           n == was.node
           Sound(r) == r.op = "lookup" =>
               /\ r.at = "exists" /\ r.node = Table => Table \in catalog
               /\ r.at = "exists" /\ r.node \in Fields => HasColumn(catalog, r.node[2])
               /\ r.at = "checked" => Present(r.node)
           Next_ == /\ down' # "query"
                    /\ \A m \in known' : Present(m)
                    /\ Sound(request'[u])
<1>3. /\ down # "query" /\ known \subseteq Nodes /\ was \in Request /\ n \in Nodes
      /\ \A m \in known : Present(m)
      /\ \A v \in Users : Sound(request[v])
  BY <1>1 DEF NothingLost, TypeOK, Request
<1>4. ASSUME NEW at \in Ats, Step(u, at), at \notin {"exists", "checked"} PROVE Next_
  <2>1. request'[u].at = at
    BY <1>4 DEF Step, Goto, TypeOK, Request
  <2> QED
    BY <1>3, <1>4, <2>1 DEF Step
<1>5. Enoent(u) => Next_
  BY <1>4 DEF Enoent, Ats
<1>6. ASSUME Found(u), Present(n) PROVE Next_
  <2>1. request'[u].at = "found"
    BY <1>6 DEF Found, Goto, TypeOK, Request
  <2> QED
    BY <1>3, <1>6, <2>1 DEF Found
<1>7. ASSUME Answer(u) PROVE Next_
  BY <1>3, <1>7, IdleType DEF Answer, Done, TypeOK
<1>8. ASSUME NEW why \in {"null", "scan", "map"}, Fatal(why) PROVE Next_
  BY <1>8, IdleType DEF Fatal, NoRequest, PresentIn
<1>9. ASSUME Lookup(u) PROVE Next_
  <2>1. CASE LookupSchema(u) \/ LookupRow(u)
    BY <1>5, <1>6, <2>1 DEF LookupSchema, LookupRow
  <2>2. CASE LookupTable(u)
    <3>1. CASE Present(Table)
      <4>1. request'[u].at = "exists" /\ request'[u].node = Table
        BY <2>2, <3>1 DEF LookupTable, Step, Goto, TypeOK, Request
      <4>2. Table \in catalog /\ Table \notin Fields
        BY <3>1, PresentCases, PgFsAssumption
      <4> QED
        BY <1>3, <2>2, <3>1, <4>1, <4>2 DEF LookupTable, Step
    <3>2. CASE ~Present(Table)
      BY <1>5, <2>2, <3>2 DEF LookupTable
    <3> QED
      BY <3>1, <3>2
  <2>3. CASE TableKey(u)
    <3>1. n = Table /\ Table \in catalog
      BY <1>3, <2>3 DEF TableKey, At
    <3>2. Present(Table)
      BY <3>1, PresentCases
    <3> QED
      BY <1>6, <2>3, <3>1, <3>2 DEF TableKey
  <2>4. CASE LookupField(u)
    <3>1. CASE HasColumn(catalog, n[2])
      <4>1. request'[u].at = "exists" /\ request'[u].node = n
        BY <2>4, <3>1 DEF LookupField, Step, Goto, TypeOK, Request
      <4>2. n # Table
        BY <2>4, PgFsAssumption DEF LookupField
      <4> QED
        BY <1>3, <2>4, <3>1, <4>1, <4>2 DEF LookupField, Step
    <3>2. CASE ~HasColumn(catalog, n[2])
      BY <1>5, <2>4, <3>2 DEF LookupField
    <3> QED
      BY <3>1, <3>2
  <2>5. CASE FieldRow(u)
    <3>1. HasColumn(catalog, n[2])
      BY <1>3, <2>5 DEF FieldRow, At
    <3>2. CASE Present(n)
      <4>1. request'[u].at = "checked" /\ request'[u].node = n
        BY <2>5, <3>1, <3>2 DEF FieldRow, Step, Goto, TypeOK, Request
      <4> QED
        BY <1>3, <2>5, <3>1, <3>2, <4>1 DEF FieldRow, Step
    <3>3. CASE ~Present(n)
      BY <1>5, <2>5, <3>1, <3>3 DEF FieldRow
    <3> QED
      BY <3>2, <3>3
  <2>6. CASE FieldAttr(u)
    <3>1. Present(n)
      BY <1>3, <2>6 DEF FieldAttr, At
    <3> QED
      BY <1>6, <2>6, <3>1 DEF FieldAttr
  <2> QED
    BY <1>9, <2>1, <2>2, <2>3, <2>4, <2>5, <2>6 DEF Lookup
<1>10. ASSUME NEW m \in Nodes, ReadDirAll(u, m) \/ Attr(u, m) \/ ReadAll(u, m) PROVE Next_
  <2>1. Present(m)
    BY <1>3, <1>10 DEF ReadDirAll, ListRoot, ListSchema, ListTable, ListRow,
           Attr, ReadAll, Ready
  <2> QED
    BY <1>7, <1>8, <1>10, <2>1 DEF ReadDirAll, ListRoot, ListSchema, ListTable, ListRow,
           Attr, ReadAll
<1>11. ASSUME NEW op \in {"lookup", "fsync"}, NEW m \in Nodes, Call(u, op, m) PROVE Next_
  <2>1. request'[u].at = "called"
    BY <1>11 DEF Call, TypeOK
  <2> QED
    BY <1>3, <1>11, <2>1 DEF Call
<1>12. ASSUME NEW m \in Nodes, Write(u, m) PROVE Next_
  BY <1>3, <1>12 DEF Write
<1>13. ASSUME FsyncBuild(u) \/ FsyncStore(u) \/ FsyncClear(u) PROVE Next_
  <2>1. was.op = "fsync" /\ UNCHANGED <<known, down>>
    BY <1>13 DEF FsyncBuild, FsyncStore, FsyncClear, At, Step
  <2>2. request'[u].op # "lookup"
    <3>1. CASE FsyncBuild(u)
      BY <2>1, <3>1 DEF FsyncBuild, TypeOK, Request
    <3>2. CASE FsyncStore(u)
      BY <2>1, <3>2 DEF FsyncStore, Step, Goto, TypeOK, Request
    <3>3. CASE FsyncClear(u)
      BY <3>3, IdleType DEF FsyncClear, Done, TypeOK
    <3> QED
      BY <1>13, <3>1, <3>2, <3>3
  <2> QED
    BY <1>3, <2>1, <2>2
<1>14. ~QueryFails(u)
  BY DEF QueryFails, Quiet
<1>15. (\E v \in Users : MapRace(u, v)) => Next_
  BY <1>8 DEF MapRace
<1>16. Next_
  BY <1>7, <1>9, <1>10, <1>11, <1>12, <1>13, <1>14, <1>15 DEF Own, Return
<1>17. \A v \in Users : v # u => request'[v] = request[v] \/ request' = NoRequest
  BY OwnRequests DEF Goto, Done, FsyncBuild, Call, TypeOK
<1>18. \A v \in Users : Sound(request'[v])
  BY <1>3, <1>16, <1>17, IdleType
<1>19. known' \subseteq Nodes /\ \A v \in Users : request'[v].node \in Nodes
  <2>1. TypeOK'
    BY OwnTypes
  <2> QED
    BY <2>1 DEF TypeOK, Request
<1> QED
  BY <1>2, <1>16, <1>18, <1>19, OwnDatabase DEF NothingLost

-----------------------------------------------------------------------------
LEMMA ChangedRequests ==
    ASSUME TypeOK, NEW cat, NEW rows, Changed(cat, rows), NEW u \in Users
    PROVE  LET q == request'[u]
               p == PresentIn(catalog', field', request[u].node)
           IN  /\ q.op = request[u].op /\ q.node = request[u].node /\ q.at = request[u].at
               /\ q.data = request[u].data
               /\ q.op = "lookup" => /\ q.had = (request[u].had \/ p)
                                     /\ q.lacked = (request[u].lacked \/ ~p)
BY NoticedRequests DEF Changed

LEMMA ChangedLocks ==
    ASSUME TypeOK, Locks, NEW cat, NEW rows, Changed(cat, rows)
    PROVE  Locks'
<1>1. UNCHANGED <<known, fileBuffers>>
  BY DEF Changed
<1> QED
  BY <1>1, ChangedRequests DEF Locks

LEMMA ChangedSeen ==
    ASSUME TypeOK, NEW cat, NEW rows, Changed(cat, rows)
    PROVE  Seen'
<1> SUFFICES ASSUME NEW u \in Users, request'[u].op = "lookup"
             PROVE  IF PresentIn(catalog', field', request'[u].node)
                    THEN request'[u].had ELSE request'[u].lacked
  BY DEF Seen, Present
<1> QED
  BY ChangedRequests

LEMMA GrowthKeeps ==
    ASSUME TypeOK, Fits, NEW cat \in SUBSET Objects, NEW rows \in RowsType,
           Changed(cat, rows), Grows(cat, rows), NEW n \in Nodes, Present(n)
    PROVE  PresentIn(catalog', field', n)
<1>1. ASSUME NEW r \in Rows, field[r] # Absent PROVE field'[r] # Absent
  <2> DEFINE row == [c \in Columns |-> IF c \in cat THEN rows[r][c] ELSE Null]
  <2>1. Table \in cat
    BY <1>1 DEF Fits, Fitting, Grows
  <2>2. rows[r] # Absent /\ rows[r] \in [Columns -> Contents]
    BY <1>1 DEF Grows, RowsType
  <2>3. field'[r] = row
    BY <2>1, <2>2 DEF Changed, Fitting
  <2>4. row \in [Columns -> Contents]
    <3>1. Null \in Contents
      BY DEF Contents
    <3> QED
      BY <2>2, <3>1
  <2> QED
    BY <2>3, <2>4, PgFsAssumption
<1>2. catalog \subseteq catalog'
  BY DEF Changed, Grows
<1> QED
  BY <1>1, <1>2, FieldParts DEF Present, PresentIn, HasColumn

LEMMA ChangedQuiet ==
    ASSUME TypeOK, Fits, NothingLost, NEW cat \in SUBSET Objects, NEW rows \in RowsType,
           Changed(cat, rows), Removes \/ (Adds /\ Grows(cat, rows))
    PROVE  NothingLost'
<1> SUFFICES ASSUME Quiet' PROVE NothingLost'
  BY DEF NothingLost
<1>1. Quiet /\ Grows(cat, rows)
  <2>1. removals' = 0 /\ ~failed' /\ failed' = failed /\ ~moved' /\ moved' = moved
    BY DEF Quiet, Changed
  <2>2. ~Removes
    BY <2>1 DEF Removes, TypeOK
  <2>3. removals' = removals
    BY <2>2 DEF Adds
  <2> QED
    BY <2>1, <2>2, <2>3 DEF Quiet
<1>2. \A n \in Nodes : PresentIn(catalog, field, n) => PresentIn(catalog', field', n)
  BY <1>1, GrowthKeeps DEF Present
<1>3. catalog \subseteq catalog' /\ UNCHANGED <<known, down>>
  BY <1>1 DEF Changed, Grows
<1>4. \A n \in known : PresentIn(catalog', field', n)
  BY <1>1, <1>2 DEF NothingLost, TypeOK, Present
<1>5. ASSUME NEW u \in Users, request'[u].op = "lookup"
      PROVE  LET n == request'[u].node
             IN  /\ request'[u].at = "exists" /\ n = Table => Table \in catalog'
                 /\ request'[u].at = "exists" /\ n \in Fields => HasColumn(catalog', n[2])
                 /\ request'[u].at = "checked" => PresentIn(catalog', field', n)
  <2> DEFINE q == request'[u]
  <2>1. q.op = request[u].op /\ q.node = request[u].node /\ q.at = request[u].at
    BY ChangedRequests
  <2>2. request[u].node \in Nodes
    BY DEF TypeOK, Request
  <2> QED
    BY <1>1, <1>2, <1>3, <1>5, <2>1, <2>2 DEF NothingLost, Present, HasColumn
<1> QED
  BY <1>1, <1>3, <1>4, <1>5 DEF NothingLost, Present

-----------------------------------------------------------------------------
LEMMA FailedStays ==
    ASSUME NEW u \in Users, Own(u), failed
    PROVE  failed'
BY DEF Own, Call, Return, Lookup, ReadDirAll, ListRoot, ListSchema, ListTable, ListRow,
       Attr, ReadAll, Write, FsyncBuild,
       FsyncStore, FsyncClear, QueryFails, MapRace

LEMMA HonestStep ==
    ASSUME TypeOK, Seen, LookupHonest, NEW u \in Users, Own(u)
    PROVE  LookupHonest'
<1> USE DEF Present
<1> DEFINE n == request[u].node
           Honest(r, f) == r.op = "lookup" => /\ r.at = "found" => r.had
                                              /\ r.at = "enoent" => r.lacked \/ f
<1>1. /\ request[u] \in Request /\ n \in Nodes
      /\ \A v \in Users : Honest(request[v], failed)
  BY DEF TypeOK, Request, LookupHonest
<1>2. \A v \in Users : v # u => request'[v] = request[v] \/ request'[v] = Idle
  BY OwnRequests, IdleType DEF Goto, Done, FsyncBuild, Call, TypeOK
<1>3. \A v \in Users : v # u => Honest(request'[v], failed')
  BY <1>1, <1>2, FailedStays, IdleType
<1>4. ASSUME request'[u] = Idle PROVE Honest(request'[u], failed')
  BY <1>4, IdleType
<1>5. ASSUME NEW at \in Ats, Goto(u, at), at \notin {"found", "enoent"}
      PROVE  Honest(request'[u], failed')
  <2>1. request'[u].at = at
    BY <1>5 DEF Goto, TypeOK, Request
  <2> QED
    BY <1>5, <2>1
<1>6. ASSUME Found(u), request[u].op = "lookup" => Present(n)
      PROVE  Honest(request'[u], failed')
  <2>1. /\ request'[u].op = request[u].op /\ request'[u].had = request[u].had
        /\ request'[u].at = "found"
    BY <1>6 DEF Found, Goto, TypeOK, Request
  <2> QED
    BY <1>6, <2>1 DEF Seen
<1>7. ASSUME Enoent(u), ~Present(n) \/ failed'
      PROVE  Honest(request'[u], failed')
  <2>1. /\ request'[u].op = request[u].op /\ request'[u].lacked = request[u].lacked
        /\ request'[u].at = "enoent"
    BY <1>7 DEF Enoent, Step, Goto, TypeOK, Request
  <2> QED
    BY <1>7, <2>1 DEF Seen
<1>8. ASSUME Lookup(u) PROVE Honest(request'[u], failed')
  <2>1. CASE \E why \in {"query", "null", "scan", "map"} : Fatal(why)
    BY <1>4, <2>1, IdleType DEF Fatal
  <2>2. CASE LookupSchema(u) \/ LookupRow(u)
    BY <1>6, <1>7, <2>2 DEF LookupSchema, LookupRow
  <2>3. CASE LookupTable(u)
    BY <1>5, <1>7, <2>3 DEF LookupTable, Step, Ats
  <2>4. CASE TableKey(u)
    BY <1>6, <2>1, <2>4 DEF TableKey
  <2>5. CASE LookupField(u)
    <3>1. n \in Fields /\ (PresentIn(catalog, field, n) => HasColumn(catalog, n[2]))
      BY <2>5, PresentCases DEF LookupField
    <3>2. CASE HasColumn(catalog, n[2])
      BY <1>5, <2>5, <3>2 DEF LookupField, Step, Ats
    <3>3. CASE ~HasColumn(catalog, n[2])
      BY <1>7, <2>5, <3>1, <3>3 DEF LookupField
    <3> QED
      BY <3>2, <3>3
  <2>6. CASE FieldRow(u)
    BY <1>5, <1>7, <2>1, <2>6 DEF FieldRow, Step, Ats
  <2>7. CASE FieldAttr(u)
    BY <1>6, <2>1, <2>7 DEF FieldAttr
  <2> QED
    BY <1>8, <2>2, <2>3, <2>4, <2>5, <2>6, <2>7 DEF Lookup
<1>9. ASSUME Return(u) PROVE Honest(request'[u], failed')
  BY <1>4, <1>9 DEF Return, Answer, Done, TypeOK
<1>10. ASSUME NEW m \in Nodes, ReadDirAll(u, m) \/ Attr(u, m) \/ ReadAll(u, m)
       PROVE  Honest(request'[u], failed')
  BY <1>4, <1>10, QueriesServe, IdleType DEF Answer, Done, Fatal, TypeOK
<1>11. ASSUME NEW m \in Nodes, Write(u, m) PROVE Honest(request'[u], failed')
  BY <1>1, <1>11 DEF Write
<1>12. ASSUME NEW op \in {"lookup", "fsync"}, NEW m \in Nodes, Call(u, op, m)
       PROVE  Honest(request'[u], failed')
  <2>1. request'[u].at = "called"
    BY <1>12 DEF Call, TypeOK
  <2> QED
    BY <2>1
<1>13. ASSUME FsyncBuild(u) \/ FsyncStore(u) \/ FsyncClear(u)
       PROVE  Honest(request'[u], failed')
  <2>1. CASE FsyncBuild(u)
    <3>1. request'[u].at = "built"
      BY <2>1 DEF FsyncBuild, TypeOK, Request
    <3> QED
      BY <3>1
  <2>2. CASE FsyncStore(u)
    BY <1>5, <2>2 DEF FsyncStore, Step, Ats
  <2>3. CASE FsyncClear(u)
    BY <1>4, <2>3 DEF FsyncClear, Done, TypeOK
  <2> QED
    BY <1>13, <2>1, <2>2, <2>3
<1>14. ASSUME QueryFails(u) PROVE Honest(request'[u], failed')
  <2>1. failed' /\ (Enoent(u) \/ Step(u, "executed") \/ Fatal("query"))
    BY <1>14 DEF QueryFails
  <2>2. CASE Enoent(u)
    BY <1>7, <2>1, <2>2
  <2>3. CASE Step(u, "executed")
    BY <1>5, <2>3 DEF Step, Ats
  <2>4. CASE Fatal("query")
    BY <1>4, <2>4, IdleType DEF Fatal
  <2> QED
    BY <2>1, <2>2, <2>3, <2>4
<1>15. ASSUME NEW v \in Users, MapRace(u, v) PROVE Honest(request'[u], failed')
  BY <1>4, <1>15, IdleType DEF MapRace, Fatal
<1>16. Honest(request'[u], failed')
  BY <1>8, <1>9, <1>10, <1>11, <1>12, <1>13, <1>14, <1>15 DEF Own
<1> QED
  BY <1>3, <1>16 DEF LookupHonest

LEMMA ChangedHonest ==
    ASSUME TypeOK, LookupHonest, NEW cat, NEW rows, Changed(cat, rows)
    PROVE  LookupHonest'
<1>1. failed' = failed
  BY DEF Changed
<1> QED
  BY <1>1, ChangedRequests DEF LookupHonest

-----------------------------------------------------------------------------
\* A change of a key keeps what a change by another client keeps.
LEMMA MoveFits ==
    ASSUME TypeOK, Fits, NEW u \in Users, FsyncMove(u)
    PROVE  Fits'
<1>1. catalog' = catalog
  BY DEF FsyncMove
<1>2. \A r \in Rows : field[r] = Fitting(catalog, field)[r]
  BY DEF Fits
<1>3. \A r \in Rows : field'[r] = Fitting(catalog, field')[r]
  BY <1>2, MoveRows DEF Fitting
<1>4. field' = [r \in Rows |-> field'[r]]
  BY MoveRows DEF RowsType
<1>5. Fitting(catalog, field') = [r \in Rows |-> Fitting(catalog, field')[r]]
  BY DEF Fitting
<1> QED
  BY <1>1, <1>3, <1>4, <1>5 DEF Fits

LEMMA MoveKeeps ==
    ASSUME TypeOK, Locks, LookupHonest, NEW u \in Users, FsyncMove(u)
    PROVE  Locks' /\ Seen' /\ NothingLost' /\ LookupHonest'
<1>1. UNCHANGED <<known, fileBuffers, failed>> /\ moved'
  BY DEF FsyncMove
<1>2. Locks'
  <2>1. \A v \in Users : request'[v].at = "built" => request[v].at = "built"
    BY MoveRequests
  <2> QED
    BY <1>1, <2>1, MoveRequests DEF Locks
<1>3. Seen'
  <2> SUFFICES ASSUME NEW v \in Users, request'[v].op = "lookup"
               PROVE  IF PresentIn(catalog', field', request'[v].node)
                      THEN request'[v].had ELSE request'[v].lacked
    BY DEF Seen, Present
  <2> QED
    BY MoveRequests
<1>4. NothingLost'
  BY <1>1 DEF NothingLost, Quiet
<1>5. LookupHonest'
  <2>1. \A v \in Users : request'[v].at \in {"found", "enoent"} => request'[v].at = request[v].at
    BY MoveRequests
  <2> QED
    BY <1>1, <2>1, MoveRequests DEF LookupHonest
<1> QED
  BY <1>2, <1>3, <1>4, <1>5

-----------------------------------------------------------------------------
PgFsInv == TypeOK /\ Fits /\ Locks /\ Seen /\ NothingLost /\ LookupHonest

(* What the theorems below rest on: rows fit the catalog, an fsync has its *)
(* field to itself, a lookup knows what has been so, and what was found is *)
(* there for as long as nothing takes it away.                             *)
THEOREM PgFsInvariance == Spec => []PgFsInv
<1>1. Init => PgFsInv
  <2> SUFFICES ASSUME Init PROVE PgFsInv
    OBVIOUS
  <2>1. TypeOK
    BY InitTypes
  <2>2. \A u \in Users : request[u].op = "none"
    BY IdleType DEF Init
  <2>3. Locks /\ Seen /\ LookupHonest
    BY <2>2 DEF Locks, Seen, LookupHonest
  <2>4. NothingLost
    BY <2>2 DEF Init, NothingLost, Present, PresentIn
  <2> QED
    BY <2>1, <2>3, <2>4 DEF Init, Fits, PgFsInv
<1>2. PgFsInv /\ [Next]_vars => PgFsInv'
  <2> SUFFICES ASSUME PgFsInv, [Next]_vars PROVE PgFsInv'
    OBVIOUS
  <2> USE DEF PgFsInv
  <2>1. ASSUME NEW u \in Users, Own(u) PROVE PgFsInv'
    BY <2>1, OwnTypes, OwnPresence, LocksStep, SeenStep, QuietStep, HonestStep
  <2>2. CASE Client
    <3>1. PICK cat \in SUBSET Objects, rows \in RowsType :
             Changed(cat, rows) /\ (Removes \/ (Adds /\ Grows(cat, rows)))
      BY <2>2, ClientChanges
    <3>2. Fits'
      BY <3>1, FittingFits DEF Fits, Changed
    <3> QED
      BY <3>1, <3>2, ClientType, ChangedLocks, ChangedSeen, ChangedQuiet, ChangedHonest
  <2>3. CASE Restart \/ UNCHANGED vars
    <3>1. UNCHANGED <<database, fileBuffers, known, request, written, failed>>
          /\ down' \in {down, "no"}
      BY <2>3 DEF Restart, vars
    <3>2. TypeOK'
      BY <3>1 DEF TypeOK, database
    <3>3. Fits' /\ Locks' /\ Seen' /\ LookupHonest'
      BY <3>1 DEF Fits, Locks, Seen, LookupHonest, Present, database
    <3>4. NothingLost'
      BY <3>1 DEF NothingLost, Quiet, Present, database
    <3> QED
      BY <3>2, <3>3, <3>4
  <2>4. ASSUME NEW u \in Users, FsyncMove(u) PROVE PgFsInv'
    BY <2>4, MoveType, MoveFits, MoveKeeps
  <2> QED
    BY <2>1, <2>2, <2>3, <2>4, NextCases
<1> QED
  BY <1>1, <1>2, PTL DEF Spec

(* No query without a result ends the daemon while nothing is taken away,  *)
(* no key is changed and no query fails.                                   *)
THEOREM DaemonStaysUp == Spec => []StaysUp
<1>1. PgFsInv => StaysUp
  BY DEF PgFsInv, NothingLost, Quiet, StaysUp, TypeOK
<1> QED
  BY <1>1, PgFsInvariance, PTL

(* A lookup answers what was so at some time since it was asked for.       *)
THEOREM LookupsHonest == Spec => []LookupHonest
<1>1. PgFsInv => LookupHonest
  BY DEF PgFsInv
<1> QED
  BY <1>1, PgFsInvariance, PTL

-----------------------------------------------------------------------------
(* While nothing is taken away, no key is changed and no query fails, an   *)
(* fsync stores what its buffer holds at that moment.                      *)
THEOREM SyncsStore == Spec => SyncStores
<1>1. PgFsInv /\ [Next]_vars =>
        [\A u \in Users, f \in Rows \X Columns :
            /\ At(u, "fsync", "built") /\ request[u].node = f /\ request'[u].at = "executed"
            /\ removals = 0 /\ ~moved /\ ~failed'
            => Stored(f)' = fileBuffers[f]]_vars
  <2> SUFFICES ASSUME PgFsInv, [Next]_vars, NEW u \in Users, NEW f \in Rows \X Columns,
                      At(u, "fsync", "built"), request[u].node = f,
                      request'[u].at = "executed", removals = 0, ~moved, ~failed'
               PROVE  Stored(f)' = fileBuffers[f]
    OBVIOUS
  <2> USE DEF PgFsInv
  <2> f \in Fields /\ f[2] \in Columns /\ f[2] # Key
    BY PgFsAssumption DEF Fields
  <2>1. f \in Nodes /\ f \in known /\ request[u].data = fileBuffers[f]
    BY FieldParts DEF At, Locks
  <2>2. CASE FsyncStore(u)
    <3>1. ~failed
      BY <2>2 DEF FsyncStore
    <3>2. Present(f)
      BY <2>1, <3>1 DEF NothingLost, Quiet
    <3>3. field'[f[1]][f[2]] = request[u].data
      BY <2>2, <3>2, ExecUpdates
    <3>4. Present(f)'
      BY <2>1, <2>2, <3>2, OwnPresence DEF Own
    <3> QED
      BY <2>1, <3>3, <3>4 DEF Stored
  <2>3. ~FsyncStore(u) => request'[u].at # "executed" \/ failed'
    <3> SUFFICES ASSUME ~FsyncStore(u), ~failed' PROVE request'[u].at # "executed"
      OBVIOUS
    <3>1. request[u].op = "fsync" /\ request[u].at = "built"
      BY DEF At
    <3>2. ASSUME NEW v \in Users, Own(v) PROVE request'[u].at # "executed"
      <4>1. CASE v # u
        <5>1. request'[u] = request[u] \/ request'[u] = Idle
          BY <3>2, <4>1, OwnRequests, IdleType DEF Goto, Done, FsyncBuild, Call, TypeOK
        <5> QED
          BY <3>1, <5>1, IdleType DEF Idle
      <4>2. CASE v = u
        <5>1. ~Lookup(u) /\ ~Return(u) /\ ~FsyncBuild(u) /\ ~FsyncClear(u) /\ ~QueryFails(u)
          BY <3>1 DEF Lookup, LookupSchema, LookupTable, TableKey, LookupRow, LookupField,
             FieldRow, FieldAttr, Return, FsyncBuild, FsyncClear, QueryFails, At
        <5>2. request[u] # Idle
          BY <3>1, IdleType
        <5>3. \A n \in Nodes : /\ ~ReadDirAll(u, n) /\ ~Attr(u, n) /\ ~ReadAll(u, n) /\ ~Write(u, n)
                               /\ \A op \in {"lookup", "fsync"} : ~Call(u, op, n)
          BY <5>2 DEF ReadDirAll, ListRoot, ListSchema, ListTable, ListRow,
                 Attr, ReadAll, Write, MayWrite, Ready, Call
        <5>4. \E w \in Users : MapRace(u, w)
          BY <3>2, <4>2, <5>1, <5>3 DEF Own
        <5> QED
          BY <5>4, IdleType DEF MapRace, Fatal, Idle
      <4> QED
        BY <4>1, <4>2
    <3>3. CASE Client
      <4>1. PICK cat \in SUBSET Objects, rows \in RowsType : Changed(cat, rows)
        BY <3>3, ClientChanges
      <4> QED
        BY <3>1, <4>1, ChangedRequests
    <3>4. ASSUME NEW v \in Users, FsyncMove(v) PROVE request'[u].at # "executed"
      <4>1. v # u
        BY <3>4 DEF FsyncMove
      <4> QED
        BY <3>1, <3>4, <4>1, MoveRequests
    <3>5. CASE Restart \/ UNCHANGED vars
      BY <3>1, <3>5 DEF Restart, vars
    <3> QED
      BY <3>2, <3>3, <3>4, <3>5, NextCases
  <2> QED
    BY <2>2, <2>3
<1> QED
  BY <1>1, PgFsInvariance, PTL DEF Spec, SyncStores

-----------------------------------------------------------------------------
\* A request that the abstract file takes to be over: an fsync of a column
\* that has made its update.
Executed(r) == r.op = "fsync" /\ r.at = "executed" /\ r.node[2] # Key

SameFiles == /\ written' = written
             /\ \A f \in Fields : Stored(f)' = Stored(f) /\ Pending(f)' = Pending(f)

LEMMA SameStutters == ASSUME SameFiles PROVE UNCHANGED F!vars
BY DEF SameFiles, F!vars

LEMMA PendingKept ==
    ASSUME NEW u \in Users, \A v \in Users : v # u => request'[v] = request[v],
           ~Executed(request[u]), ~Executed(request'[u]), UNCHANGED fileBuffers
    PROVE  \A f \in Fields : Pending(f)' = Pending(f)
BY DEF Pending, Syncing, Executed

LEMMA StoredKept ==
    ASSUME UNCHANGED <<catalog, field>>
    PROVE  \A f \in Fields : Stored(f)' = Stored(f)
BY DEF Stored, Present

LEMMA FatalCrashes ==
    ASSUME NEW why, Fatal(why), UNCHANGED <<catalog, field, written>>
    PROVE  F!Crash
<1>1. \A f \in Fields : Pending(f)' = <<>>
  BY IdleType DEF Fatal, Pending, NoBuffers
<1> QED
  BY <1>1, StoredKept DEF F!Crash, F!Empty

LEMMA WriteWrites ==
    ASSUME TypeOK, NEW u \in Users, NEW n, Write(u, n)
    PROVE  F!Write(n) /\ n \in Fields
<1>1. n \in Fields /\ ~Syncing(n)
  BY DEF Write, MayWrite, Ready, Locked, Syncing
<1>2. fileBuffers' = [fileBuffers EXCEPT ![n] = Append(@, written + 1)]
      /\ written' = written + 1 /\ UNCHANGED <<catalog, field, request>>
  BY DEF Write, database
<1>3. \A f \in Fields : Syncing(f)' <=> Syncing(f)
  BY <1>2 DEF Syncing
<1>4. \A f \in Fields : Pending(f)' = IF f = n THEN Append(Pending(n), written + 1) ELSE Pending(f)
  BY <1>1, <1>2, <1>3 DEF Pending, TypeOK
<1> QED
  BY <1>1, <1>2, <1>4, StoredKept DEF F!Write

\* The end of an fsync, whether its update was made or not.
LEMMA SyncEnds ==
    ASSUME TypeOK, Locks, NEW u \in Users, At(u, "fsync", "built"), Step(u, "executed"),
           NEW n, n = request[u].node, n[2] # Key
    PROVE  /\ n \in Fields /\ Pending(n) = fileBuffers[n]
           /\ \A f \in Fields : Pending(f)' = IF f = n THEN <<>> ELSE Pending(f)
<1>1. n \in Fields /\ request[u].op = "fsync" /\ request[u].at = "built"
  BY DEF At, TypeOK
<1>2. \A v \in Users : v # u => request'[v] = request[v]
  BY DEF Step, Goto, TypeOK
<1>3. request'[u].op = "fsync" /\ request'[u].node = n /\ request'[u].at = "executed"
  BY <1>1 DEF Step, Goto, TypeOK, Request
<1>4. ~Syncing(n)
  BY <1>1 DEF Syncing, Locks
<1>5. Syncing(n)' /\ \A f \in Fields : f # n => (Syncing(f)' <=> Syncing(f))
  BY <1>1, <1>2, <1>3 DEF Syncing
<1>6. fileBuffers' = fileBuffers
  BY DEF Step
<1> QED
  BY <1>1, <1>4, <1>5, <1>6 DEF Pending

LEMMA ExecSyncs ==
    ASSUME TypeOK, Fits, Locks, NEW u \in Users, FsyncStore(u), NEW n, n = request[u].node,
           n[2] # Key
    PROVE  n \in Fields /\ (F!Sync(n) \/ F!Discard(n))
<1>1. /\ At(u, "fsync", "built") /\ Step(u, "executed")
      /\ written' = written /\ catalog' = catalog
  BY DEF FsyncStore
<1>2. /\ n \in Fields /\ Pending(n) = fileBuffers[n]
      /\ \A f \in Fields : Pending(f)' = IF f = n THEN <<>> ELSE Pending(f)
  BY <1>1, SyncEnds
<1>3. [f \in Fields |-> Pending(f)]' = [[f \in Fields |-> Pending(f)] EXCEPT ![n] = <<>>]
  BY <1>2
<1>4. CASE ~Present(n)
  <2>1. field' = field
    BY <1>4, ExecUpdates
  <2> QED
    BY <1>1, <1>2, <1>3, <2>1, StoredKept DEF F!Discard
<1>5. CASE Present(n)
  <2>1. \A f \in Fields : Present(f)' <=> Present(f)
    BY FieldParts, OwnPresence DEF Own
  <2>2. request[u].data = fileBuffers[n]
    BY <1>1 DEF Locks, At
  <2>3. Stored(n)' = Pending(n)
    BY <1>2, <1>5, <2>1, <2>2, ExecUpdates DEF Stored
  <2>4. ASSUME NEW f \in Fields, f # n PROVE Stored(f)' = Stored(f)
    <3>1. f[1] \in Rows /\ f[2] \in Columns \cup {Key} /\ f = <<f[1], f[2]>>
      BY DEF Fields
    <3>2. Present(f) /\ f[2] # Key => field'[f[1]][f[2]] = field[f[1]][f[2]]
      BY <2>4, <3>1, PresentCases, ExecUpdates DEF Present
    <3> QED
      BY <2>1, <3>2 DEF Stored
  <2>5. [f \in Fields |-> Stored(f)]' = [[f \in Fields |-> Stored(f)] EXCEPT ![n] = Pending(n)]
    BY <1>2, <2>3, <2>4
  <2> QED
    BY <1>1, <1>2, <1>3, <2>5 DEF F!Sync
<1> QED
  BY <1>2, <1>4, <1>5

\* A step that moves a request which is not between the update and the end
\* of an fsync, before or after, is not seen.
LEMMA Unseen ==
    ASSUME TypeOK, NEW u \in Users, UNCHANGED <<catalog, field, written, fileBuffers>>,
           \A v \in Users : v # u => request'[v] = request[v],
           ~Executed(request[u]), ~Executed(request'[u])
    PROVE  UNCHANGED F!vars
BY StoredKept, PendingKept, SameStutters DEF SameFiles

LEMMA LookupUnseen ==
    ASSUME TypeOK, NEW u \in Users, Lookup(u)
    PROVE  F!Crash \/ UNCHANGED F!vars
<1>1. UNCHANGED <<catalog, field, written>>
  BY DEF Lookup, database
<1>2. request[u].op = "lookup"
  BY DEF Lookup, LookupSchema, LookupTable, TableKey, LookupRow, LookupField, FieldRow,
         FieldAttr, At
<1>3. CASE \E why \in {"query", "null", "scan", "map"} : Fatal(why)
  BY <1>1, <1>3, FatalCrashes
<1>4. CASE Found(u) \/ Answer(u) \/ \E at \in Ats : Step(u, at)
  <2>1. (\E at \in Ats : Goto(u, at)) \/ Done(u)
    BY <1>4 DEF Found, Answer, Step, Ats
  <2>2. \A v \in Users : v # u => request'[v] = request[v]
    BY <2>1 DEF Goto, Done, TypeOK
  <2>3. request'[u].op # "fsync"
    BY <1>2, <2>1, IdleType DEF Goto, Done, TypeOK, Request
  <2>4. fileBuffers' = fileBuffers
    BY <1>4 DEF Found, Answer, Step
  <2> QED
    BY <1>1, <1>2, <2>2, <2>3, <2>4, Unseen DEF Executed
<1> QED
  BY <1>3, <1>4, LookupServes DEF Enoent, Ats

LEMMA ClearUnseen ==
    ASSUME TypeOK, NEW u \in Users, FsyncClear(u), NEW n, n = request[u].node
    PROVE  (\E f \in Fields : F!Discard(f)) \/ UNCHANGED F!vars
<1>1. n \in Fields /\ (n[2] # Key => Syncing(n))
  BY DEF FsyncClear, At, Syncing, TypeOK
<1>2. \A v \in Users : request'[v] = IF v = u THEN Idle ELSE request[v]
  BY DEF FsyncClear, Done, TypeOK
<1>3. fileBuffers' = [fileBuffers EXCEPT ![n] = <<>>] /\ UNCHANGED <<catalog, field, written>>
  BY DEF FsyncClear, database
<1>4. \A f \in Fields : f # n => (Syncing(f)' <=> Syncing(f))
  BY <1>2, IdleType DEF Syncing, FsyncClear, At
<1>5. (n[2] # Key => Pending(n) = <<>>) /\ Pending(n)' = <<>>
  BY <1>1, <1>3 DEF Pending, TypeOK
<1>6. \A f \in Fields : f # n => Pending(f)' = Pending(f)
  BY <1>1, <1>3, <1>4 DEF Pending, TypeOK
<1>7. CASE n[2] # Key
  BY <1>3, <1>5, <1>6, <1>7, StoredKept, SameStutters DEF SameFiles
<1>8. CASE n[2] = Key
  BY <1>1, <1>3, <1>5, <1>6, StoredKept DEF F!Discard
<1> QED
  BY <1>7, <1>8

\* An update of a key that changes nothing is not seen before its end.
LEMMA KeyUnseen ==
    ASSUME TypeOK, NEW u \in Users, At(u, "fsync", "built"), Step(u, "executed"),
           request[u].node[2] = Key, UNCHANGED <<catalog, field, written>>
    PROVE  UNCHANGED F!vars
<1>1. \A v \in Users : v # u => request'[v] = request[v]
  BY DEF Step, Goto, TypeOK
<1>2. request'[u].node = request[u].node /\ fileBuffers' = fileBuffers
  BY DEF Step, Goto, TypeOK, Request
<1> QED
  BY <1>1, <1>2, Unseen DEF Executed

\* One that changes it takes the fields of a row away, as another client may.
LEMMA MoveEdits ==
    ASSUME TypeOK, NEW u \in Users, FsyncMove(u)
    PROVE  F!Edit
<1>1. UNCHANGED <<catalog, written, fileBuffers>> /\ request[u].node[2] = Key
  BY DEF FsyncMove
<1>2. \A f \in Fields : Syncing(f)' <=> Syncing(f)
  <2> SUFFICES ASSUME NEW f \in Fields, f[2] # Key
               PROVE  Syncing(f)' <=> Syncing(f)
    BY DEF Syncing
  <2>1. request[u].node # f
    BY <1>1
  <2> QED
    BY <2>1, MoveRequests DEF Syncing
<1>3. \A f \in Fields : Pending(f)' = Pending(f)
  BY <1>1, <1>2 DEF Pending
<1>4. ASSUME NEW f \in Fields PROVE Stored(f)' \in {Absent, Stored(f)}
  <2>1. f[1] \in Rows
    BY FieldParts
  <2>2. CASE f[1] = request[u].node[1]
    BY <2>1, <2>2, MoveRows, PresentCases DEF Stored, Present
  <2>3. CASE f[1] # request[u].node[1]
    <3>1. field'[f[1]] = field[f[1]]
      BY <2>1, <2>3, MoveRows
    <3>2. Present(f)' <=> Present(f)
      BY <1>1, <3>1, PresentCases DEF Present
    <3> QED
      BY <3>1, <3>2 DEF Stored
  <2> QED
    BY <2>2, <2>3
<1> QED
  BY <1>1, <1>3, <1>4 DEF F!Edit

LEMMA OwnIsFile ==
    ASSUME PgFsInv, NEW u \in Users, Own(u)
    PROVE  F!Next \/ UNCHANGED F!vars
<1> USE DEF PgFsInv
<1>1. ASSUME NEW op \in {"lookup", "fsync"}, NEW n \in Nodes, Call(u, op, n)
      PROVE  UNCHANGED F!vars
  <2>1. \A v \in Users : v # u => request'[v] = request[v]
    BY <1>1 DEF Call, TypeOK
  <2>2. request'[u].at = "called" /\ request[u].op = "none"
    BY <1>1, IdleType DEF Call, TypeOK
  <2>3. UNCHANGED <<catalog, field, written, fileBuffers>>
    BY <1>1 DEF Call, database
  <2> QED
    BY <2>1, <2>2, <2>3, Unseen DEF Executed
<1>2. ASSUME Return(u) PROVE UNCHANGED F!vars
  <2>1. request[u].op = "lookup" /\ request'[u] = Idle
    BY <1>2 DEF Return, At, Answer, Done, TypeOK
  <2>2. \A v \in Users : v # u => request'[v] = request[v]
    BY <1>2 DEF Return, Answer, Done, TypeOK
  <2>3. UNCHANGED <<catalog, field, written, fileBuffers>>
    BY <1>2 DEF Return, Answer, database
  <2> QED
    BY <2>1, <2>2, <2>3, Unseen, IdleType DEF Executed
<1>3. ASSUME NEW n \in Nodes, ReadDirAll(u, n) \/ Attr(u, n) \/ ReadAll(u, n)
      PROVE  F!Crash \/ UNCHANGED F!vars
  <2>1. request[u] = Idle /\ UNCHANGED <<catalog, field, written>>
    BY <1>3 DEF ReadDirAll, ListRoot, ListSchema, ListTable, ListRow,
           Attr, ReadAll, Ready, database
  <2>2. CASE Answer(u)
    <3>1. request' = request
      BY <2>1, <2>2 DEF Answer, Done, TypeOK
    <3> QED
      BY <2>1, <2>2, <3>1, Unseen, IdleType DEF Answer, Executed
  <2>3. CASE \E why \in {"query", "null", "scan"} : Fatal(why)
    BY <2>1, <2>3, FatalCrashes
  <2> QED
    BY <1>3, <2>2, <2>3, QueriesServe
<1>4. ASSUME FsyncBuild(u) PROVE UNCHANGED F!vars
  <2>1. request[u].at = "called" /\ request'[u].at = "built"
    BY <1>4 DEF FsyncBuild, At, TypeOK, Request
  <2>2. \A v \in Users : v # u => request'[v] = request[v]
    BY <1>4 DEF FsyncBuild, TypeOK
  <2>3. UNCHANGED <<catalog, field, written, fileBuffers>>
    BY <1>4 DEF FsyncBuild, database
  <2> QED
    BY <2>1, <2>2, <2>3, Unseen DEF Executed
<1>5. ASSUME QueryFails(u) PROVE F!Next \/ UNCHANGED F!vars
  <2>1. UNCHANGED <<catalog, field, written>>
    BY <1>5 DEF QueryFails, database
  <2>2. CASE At(u, "lookup", "called") /\ Enoent(u)
    <3>1. request[u].op = "lookup" /\ request'[u].at = "enoent" /\ fileBuffers' = fileBuffers
      BY <2>2 DEF At, Enoent, Step, Goto, TypeOK, Request
    <3>2. \A v \in Users : v # u => request'[v] = request[v]
      BY <2>2 DEF Enoent, Step, Goto, TypeOK
    <3> QED
      BY <2>1, <3>1, <3>2, Unseen DEF Executed
  <2>3. CASE At(u, "fsync", "built") /\ Step(u, "executed")
    <3> DEFINE n == request[u].node
    <3>1. CASE n[2] # Key
      <4>1. n \in Fields /\ \A f \in Fields : Pending(f)' = IF f = n THEN <<>> ELSE Pending(f)
        BY <2>3, <3>1, SyncEnds
      <4>2. F!Discard(n)
        BY <2>1, <4>1, StoredKept DEF F!Discard
      <4> QED
        BY <4>1, <4>2 DEF F!Next
    <3>2. CASE n[2] = Key
      BY <2>1, <2>3, <3>2, KeyUnseen
    <3> QED
      BY <3>1, <3>2
  <2>4. CASE Fatal("query")
    BY <2>1, <2>4, FatalCrashes DEF F!Next
  <2> QED
    BY <1>5, <2>2, <2>3, <2>4 DEF QueryFails
<1>6. ASSUME NEW v \in Users, MapRace(u, v) PROVE F!Crash
  BY <1>6, FatalCrashes DEF MapRace, database
<1>7. ASSUME NEW n \in Nodes, Write(u, n) PROVE F!Next
  BY <1>7, WriteWrites DEF F!Next
<1>8. ASSUME FsyncStore(u) PROVE F!Next \/ UNCHANGED F!vars
  <2>1. CASE request[u].node[2] # Key
    BY <1>8, <2>1, ExecSyncs DEF F!Next
  <2>2. CASE request[u].node[2] = Key
    <3>1. /\ field' = field /\ UNCHANGED <<catalog, written>>
          /\ At(u, "fsync", "built") /\ Step(u, "executed")
      BY <1>8, <2>2 DEF FsyncStore
    <3> QED
      BY <2>2, <3>1, KeyUnseen
  <2> QED
    BY <2>1, <2>2
<1> QED
  BY <1>1, <1>2, <1>3, <1>4, <1>5, <1>6, <1>7, <1>8, LookupUnseen, ClearUnseen
  DEF Own, F!Next

\* Other clients only make edits.
LEMMA NewValues ==
    ASSUME TypeOK, Fits, Client
    PROVE  \A f \in Fields : Stored(f)' \in Edits \cup {Absent, Stored(f)}
<1> SUFFICES ASSUME NEW f \in Fields, Present(f)', f[2] # Key
             PROVE  field'[f[1]][f[2]] \in Edits \cup {Stored(f)}
  BY DEF Stored, Edits
<1> DEFINE r == f[1]
           c == f[2]
<1>1. r \in Rows /\ c \in Columns
  BY FieldParts
<1>2. c \in catalog' /\ field'[r] # Absent
  BY PresentCases DEF Present, HasColumn
<1>3. Null \in Edits
  BY DEF Edits
<1>4. \A s \in Rows : field[s] = IF Table \notin catalog \/ field[s] = Absent THEN Absent
                 ELSE [k \in Columns |-> IF k \in catalog THEN field[s][k] ELSE Null]
  BY DEF Fits, Fitting
<1>5. ASSUME field[r] # Absent PROVE field[r][c] \in {Null, Stored(f)}
  <2>1. CASE c \in catalog
    BY <1>5, <2>1, PresentCases DEF Stored, Present, HasColumn
  <2>2. CASE c \notin catalog
    BY <1>1, <1>4, <1>5, <2>2
  <2> QED
    BY <2>1, <2>2
<1>6. ASSUME NEW cat, NEW rows, Changed(cat, rows)
      PROVE  rows[r] # Absent /\ field'[r][c] = rows[r][c]
  BY <1>1, <1>2, <1>6 DEF Changed, Fitting
<1>7. ASSUME NEW o \in Objects, Drop(o) \/ Create(o)
      PROVE  field'[r][c] \in {Null, Stored(f)}
  BY <1>5, <1>6, <1>7 DEF Drop, Create
<1>8. ASSUME NEW s \in Rows, NEW v \in NewRows, InsertRow(s, v)
      PROVE  field'[r][c] \in Edits \cup {Stored(f)}
  <2> DEFINE rows == [field EXCEPT ![s] = v]
  <2>1. rows[r] # Absent /\ field'[r][c] = rows[r][c]
    BY <1>6, <1>8 DEF InsertRow
  <2>2. v[c] \in Edits
    BY <1>1 DEF NewRows
  <2>3. rows[r] = IF r = s THEN v ELSE field[r]
    BY <1>1 DEF TypeOK
  <2> QED
    BY <1>3, <1>5, <2>1, <2>2, <2>3
<1>9. ASSUME NEW s \in Rows, DeleteRow(s)
      PROVE  field'[r][c] \in {Null, Stored(f)}
  <2> DEFINE rows == [field EXCEPT ![s] = Absent]
  <2>1. rows[r] # Absent /\ field'[r][c] = rows[r][c]
    BY <1>6, <1>9 DEF DeleteRow
  <2>2. rows[r] = IF r = s THEN Absent ELSE field[r]
    BY <1>1 DEF TypeOK
  <2> QED
    BY <1>5, <2>1, <2>2
<1>10. ASSUME NEW s \in Rows, NEW k \in Columns, NEW v \in Edits, SetField(s, k, v)
       PROVE  field'[r][c] \in Edits \cup {Stored(f)}
  <2> DEFINE row == [field[s] EXCEPT ![k] = v]
             rows == [field EXCEPT ![s] = row]
  <2>1. rows[r] # Absent /\ field'[r][c] = rows[r][c]
    BY <1>6, <1>10 DEF SetField
  <2>2. field[s] # Absent /\ field[s] \in [Columns -> Contents]
    BY <1>10 DEF SetField, TypeOK
  <2>3. row[c] = IF c = k THEN v ELSE field[s][c]
    BY <1>1, <2>2
  <2>4. rows[r] = IF r = s THEN row ELSE field[r]
    BY <1>1 DEF TypeOK
  <2> HIDE DEF row
  <2> QED
    BY <1>3, <1>5, <2>1, <2>2, <2>3, <2>4
<1> QED
  BY <1>3, <1>7, <1>8, <1>9, <1>10 DEF Client

LEMMA ClientEdits ==
    ASSUME TypeOK, Fits, Client
    PROVE  F!Edit
<1>1. PICK cat \in SUBSET Objects, rows \in RowsType : Changed(cat, rows)
  BY ClientChanges
<1>2. UNCHANGED <<fileBuffers, written>>
  BY <1>1 DEF Changed
<1>3. \A f \in Fields : Syncing(f)' <=> Syncing(f)
  BY <1>1, ChangedRequests DEF Syncing
<1>4. \A f \in Fields : Pending(f)' = Pending(f)
  BY <1>2, <1>3 DEF Pending
<1> QED
  BY <1>2, <1>4, NewValues DEF F!Edit

(* The file system implements the abstract synced file.                    *)
THEOREM FilesImplemented == Spec => ImplementsSyncedFile
<1>1. Init => F!Init
  <2> SUFFICES ASSUME Init PROVE F!Init
    OBVIOUS
  <2>1. ASSUME NEW f \in Fields PROVE Pending(f) = <<>> /\ Stored(f) \in Edits \cup {Absent}
    <3>1. f[1] \in Rows /\ f[2] \in Columns \cup {Key} /\ <<0>> \in Edits
      BY FieldParts DEF Edits
    <3>2. ~Syncing(f) /\ fileBuffers[f] = <<>>
      BY IdleType DEF Init, Syncing, NoBuffers
    <3>3. field[f[1]] # Absent /\ f[2] # Key => field[f[1]][f[2]] \in Edits
      BY <3>1 DEF Init, NewRows
    <3>4. Present(f) => field[f[1]] # Absent
      BY PresentCases DEF Present
    <3> QED
      BY <3>1, <3>2, <3>3, <3>4 DEF Pending, Stored
  <2> QED
    BY <2>1 DEF F!Init, F!Empty, Init
<1>2. PgFsInv /\ [Next]_vars => [F!Next]_F!vars
  <2> SUFFICES ASSUME PgFsInv, [Next]_vars PROVE F!Next \/ UNCHANGED F!vars
    OBVIOUS
  <2>1. CASE Client
    BY <2>1, ClientEdits DEF PgFsInv, F!Next
  <2>2. CASE Restart \/ UNCHANGED vars
    <3>1. UNCHANGED <<catalog, field, written, fileBuffers, request>>
      BY <2>2 DEF Restart, vars, database
    <3>2. \A f \in Fields : Pending(f)' = Pending(f)
      BY <3>1 DEF Pending, Syncing
    <3> QED
      BY <3>1, <3>2, StoredKept, SameStutters DEF SameFiles
  <2>3. ASSUME NEW u \in Users, FsyncMove(u) PROVE F!Edit
    BY <2>3, MoveEdits DEF PgFsInv
  <2> QED
    BY <2>1, <2>2, <2>3, OwnIsFile, NextCases DEF F!Next
<1> QED
  BY <1>1, <1>2, PgFsInvariance, PTL DEF Spec, F!Spec, ImplementsSyncedFile

-----------------------------------------------------------------------------
(* The abstract file keeps its pieces in order, so this one does.          *)

NoPieces == Edits \cup {Absent}
InField(f) == IF Stored(f) \in NoPieces THEN {} ELSE F!Pieces(Stored(f))
HeldIn(f)  == F!Pieces(Pending(f)) \cup InField(f)

Ordered ==
    \A f \in Fields :
        /\ F!Rising(Pending(f)) /\ HeldIn(f) \subseteq 1..written
        /\ Stored(f) \notin NoPieces => F!Rising(Stored(f))
        /\ \A p \in InField(f), q \in F!Pieces(Pending(f)) : p < q
        /\ \A g \in Fields \ {f} : HeldIn(f) \cap HeldIn(g) = {}

LEMMA OrderedMeans == Ordered <=> PiecesInOrder
<1>1. ASSUME NEW f \in Fields
      PROVE  F!Held(f) = HeldIn(f)
  BY DEF F!Held, HeldIn, InField, NoPieces
<1>2. \A f \in Fields : [g \in Fields |-> Stored(g)][f] = Stored(f)
                        /\ [g \in Fields |-> Pending(g)][f] = Pending(f)
  OBVIOUS
<1> QED
  BY <1>1, <1>2 DEF PiecesInOrder, F!PiecesInOrder, Ordered, InField, NoPieces

LEMMA PendingType == TypeOK => written \in Nat /\ \A f \in Fields : Pending(f) \in Seq(Nat)
<1>1. <<>> \in Seq(Nat)
  OBVIOUS
<1> QED
  BY <1>1 DEF TypeOK, Pending

LEMMA EmptyPieces == F!Pieces(<<>>) = {} /\ F!Rising(<<>>)
BY DEF F!Pieces, F!Rising

\* A piece that comes after all others keeps their order.
LEMMA AppendRises ==
    ASSUME NEW s \in Seq(Nat), NEW w \in Nat, F!Rising(s), F!Pieces(s) \subseteq 1..w
    PROVE  /\ F!Rising(Append(s, w + 1))
           /\ F!Pieces(Append(s, w + 1)) = F!Pieces(s) \cup {w + 1}
<1> DEFINE t == Append(s, w + 1)
<1>1. /\ DOMAIN s = 1..Len(s) /\ DOMAIN t = 1..(Len(s) + 1) /\ Len(s) \in Nat
      /\ \A i \in 1..Len(s) : t[i] = s[i] /\ t[i] \in 1..w
      /\ t[Len(s) + 1] = w + 1
  BY DEF F!Pieces
<1> HIDE DEF t
<1>2. F!Rising(t)
  BY <1>1 DEF F!Rising
<1>3. F!Pieces(t) = F!Pieces(s) \cup {w + 1}
  BY <1>1 DEF F!Pieces
<1> QED
  BY <1>2, <1>3 DEF t

LEMMA WriteOrdered ==
    ASSUME TypeOK, Ordered, NEW n \in Fields, F!Write(n)
    PROVE  Ordered'
<1>1. /\ written' = written + 1
      /\ \A f \in Fields : Stored(f)' = Stored(f)
      /\ \A f \in Fields : Pending(f)' = IF f = n THEN Append(Pending(n), written + 1) ELSE Pending(f)
  <2>1. /\ [f \in Fields |-> Stored(f)]' = [f \in Fields |-> Stored(f)]
        /\ [f \in Fields |-> Pending(f)]' =
              [[f \in Fields |-> Pending(f)] EXCEPT ![n] = Append(@, written + 1)]
    BY DEF F!Write
  <2>2. \A f \in Fields : [g \in Fields |-> Stored(g)]'[f] = [g \in Fields |-> Stored(g)][f]
    BY <2>1
  <2>3. \A f \in Fields : [g \in Fields |-> Pending(g)]'[f]
              = IF f = n THEN Append(Pending(n), written + 1) ELSE Pending(f)
    BY <2>1
  <2> QED
    BY <2>2, <2>3 DEF F!Write
<1>2. /\ F!Rising(Append(Pending(n), written + 1))
      /\ F!Pieces(Append(Pending(n), written + 1)) = F!Pieces(Pending(n)) \cup {written + 1}
  BY PendingType, AppendRises DEF Ordered, HeldIn
<1>3. \A f \in Fields : InField(f)' = InField(f)
  BY <1>1 DEF InField
<1>4. \A f \in Fields : HeldIn(f)' = IF f = n THEN HeldIn(n) \cup {written + 1} ELSE HeldIn(f)
  BY <1>1, <1>2, <1>3 DEF HeldIn
<1>5. written \in Nat /\ \A f \in Fields : HeldIn(f) \subseteq 1..written
  BY PendingType DEF Ordered
<1>6. \A f \in Fields : InField(f) \subseteq HeldIn(f)
  BY DEF HeldIn
<1> QED
  <2> SUFFICES ASSUME NEW f \in Fields
               PROVE  /\ F!Rising(Pending(f)') /\ HeldIn(f)' \subseteq 1..written'
                      /\ Stored(f)' \notin NoPieces => F!Rising(Stored(f)')
                      /\ \A p \in InField(f)', q \in F!Pieces(Pending(f)') : p < q
                      /\ \A g \in Fields \ {f} : HeldIn(f)' \cap HeldIn(g)' = {}
    BY DEF Ordered, NoPieces
  <2>1. F!Rising(Pending(f)') /\ (Stored(f)' \notin NoPieces => F!Rising(Stored(f)'))
    BY <1>1, <1>2 DEF Ordered
  <2>2. HeldIn(f)' \subseteq 1..written'
    BY <1>1, <1>4, <1>5
  <2>3. \A p \in InField(f)', q \in F!Pieces(Pending(f)') : p < q
    <3>1. \A p \in InField(f), q \in F!Pieces(Pending(f)) : p < q
      BY DEF Ordered
    <3>2. \A p \in InField(f) : p \in 1..written
      BY <1>5, <1>6
    <3>3. F!Pieces(Pending(f)') \subseteq F!Pieces(Pending(f)) \cup {written + 1}
      BY <1>1, <1>2
    <3> QED
      BY <1>3, <1>5, <3>1, <3>2, <3>3
  <2>4. \A g \in Fields \ {f} : HeldIn(f)' \cap HeldIn(g)' = {}
    BY <1>4, <1>5 DEF Ordered
  <2> QED
    BY <2>1, <2>2, <2>3, <2>4

\* A step that only takes pieces away, or stores what was pending.
LEMMA FewerOrdered ==
    ASSUME TypeOK, Ordered, written' = written,
           \A f \in Fields : Pending(f)' \in {Pending(f), <<>>},
           \A f \in Fields : \/ Stored(f)' \in NoPieces \cup {Stored(f)}
                             \/ Stored(f)' = Pending(f) /\ Pending(f)' = <<>>
    PROVE  Ordered'
<1>1. ASSUME NEW f \in Fields
      PROVE  /\ HeldIn(f)' \subseteq HeldIn(f)
             /\ F!Rising(Pending(f)')
             /\ Stored(f)' \notin NoPieces => F!Rising(Stored(f)')
             /\ \A p \in InField(f)', q \in F!Pieces(Pending(f)') : p < q
  BY EmptyPieces DEF HeldIn, InField, Ordered, NoPieces
<1> QED
  BY <1>1 DEF Ordered, NoPieces

(* Written pieces are stored in order, once, and in their own field.       *)
THEOREM PiecesAreInOrder == Spec => []PiecesInOrder
<1>1. Init => Ordered
  <2> SUFFICES ASSUME Init PROVE Ordered
    OBVIOUS
  <2>1. ASSUME NEW f \in Fields PROVE Pending(f) = <<>> /\ Stored(f) \in NoPieces
    <3>1. f[1] \in Rows /\ f[2] \in Columns \cup {Key} /\ <<0>> \in Edits
      BY FieldParts DEF Edits
    <3>2. ~Syncing(f) /\ fileBuffers[f] = <<>>
      BY IdleType DEF Init, Syncing, NoBuffers
    <3>3. field[f[1]] # Absent /\ f[2] # Key => field[f[1]][f[2]] \in Edits
      BY <3>1 DEF Init, NewRows
    <3>4. Present(f) => field[f[1]] # Absent
      BY PresentCases DEF Present
    <3> QED
      BY <3>1, <3>2, <3>3, <3>4 DEF Pending, Stored, NoPieces
  <2> QED
    BY <2>1, EmptyPieces DEF Ordered, HeldIn, InField
<1>2. TypeOK /\ Ordered /\ [F!Next]_F!vars => Ordered'
  <2> SUFFICES ASSUME TypeOK, Ordered, [F!Next]_F!vars PROVE Ordered'
    OBVIOUS
  <2> DEFINE st == [f \in Fields |-> Stored(f)]
             pe == [f \in Fields |-> Pending(f)]
  <2>1. ASSUME NEW n \in Fields, F!Write(n) PROVE Ordered'
    BY <2>1, WriteOrdered
  <2>2. CASE /\ written' = written
             /\ \A f \in Fields : pe'[f] \in {pe[f], <<>>}
             /\ \A f \in Fields : \/ st'[f] \in NoPieces \cup {st[f]}
                                  \/ st'[f] = pe[f] /\ pe'[f] = <<>>
    BY <2>2, FewerOrdered
  <2>3. st \in [Fields -> {st[f] : f \in Fields}] /\ pe \in [Fields -> {pe[f] : f \in Fields}]
    OBVIOUS
  <2> HIDE DEF st, pe
  <2>4. ASSUME NEW n \in Fields, F!Sync(n) \/ F!Discard(n)
        PROVE  Ordered'
    BY <2>2, <2>3, <2>4 DEF F!Sync, F!Discard, st, pe
  <2>5. CASE F!Edit
    BY <2>2, <2>5 DEF F!Edit, NoPieces, st, pe
  <2>6. CASE F!Crash
    BY <2>2, <2>6 DEF F!Crash, F!Empty, st, pe
  <2>7. CASE UNCHANGED F!vars
    BY <2>2, <2>7 DEF F!vars, st, pe
  <2> QED
    BY <2>1, <2>4, <2>5, <2>6, <2>7 DEF F!Next
<1>3. Spec => [][F!Next]_F!vars
  BY FilesImplemented, PTL DEF ImplementsSyncedFile, F!Spec
<1> QED
  BY <1>1, <1>2, <1>3, OrderedMeans, PgFsTyping, PTL DEF Spec
=============================================================================
