-------------------------------- MODULE Http ---------------------------------
(***************************************************************************)
(* The web front end (resource.go, endpoint.go): each request is handled   *)
(* by a goroutine that makes up to three queries, each on a connection of  *)
(* the pool, while other requests change the tables it reads.  A page is   *)
(* found by one query and fetched by another.                              *)
(***************************************************************************)
EXTENDS Naturals

CONSTANTS
    Clients,            \* requests that may be outstanding
    Connections,        \* the connections of the pool left to the handlers
    Texts, Binaries, Functions,   \* ids of endpoint.resource, _binary, _function
    Paths, Contents,
    Versions,           \* the rows each id may stand for
    Decoded,            \* the path in the database that a requested path means
    Malformed,          \* what a path means that cannot be unescaped
    Null, Nobody, Absent, Empty,
    Faults              \* whether queries may fail

Ids == Texts \cup Binaries \cup Functions

\* paths: those that the row's path, or its pattern, matches.  Of functions:
\* valid, the pattern is a regular expression; holes, it has placeholders;
\* short, of a number beyond the function's parameters; a null content, the
\* function fails or returns nothing.
Row == [paths : SUBSET Paths, active : BOOLEAN, content : Contents \cup {Null},
        valid : BOOLEAN, holes : BOOLEAN, short : BOOLEAN]

ASSUME HttpAssumption ==
    /\ Texts \cap Binaries = {} /\ (Texts \cup Binaries) \cap Functions = {}
    /\ Versions \in [Ids -> SUBSET Row]
    /\ \A i \in Ids \ Functions : \A r \in Versions[i] : r.valid /\ r.content \in Contents
    /\ DOMAIN Decoded # {}
    /\ \A p \in DOMAIN Decoded : Decoded[p] \in Paths \cup {Malformed}
    /\ Malformed \notin Paths /\ Nobody \notin Ids \cup Connections
    /\ Absent \notin Row /\ Null \notin Contents /\ Empty \notin Contents
    /\ Faults \in BOOLEAN

VARIABLES
    catalog,     \* the rows of the three tables
    request,     \* each client's request, and where its handler is
    idle,        \* the pool's connections that nobody has
    down         \* the process has ended

vars == <<catalog, request, idle, down>>

Rows     == (UNION {Versions[i] : i \in Ids}) \cup {Absent}
\* What the tables may hold.
Catalogs == {rows \in [Ids -> Rows] : \A i \in Ids : rows[i] \in Versions[i] \cup {Absent}}
Statuses == {0, 200, 300, 404, 405, 500}   \* 0: the connection is dropped
Answer   == [status : Statuses, content : Contents \cup {Empty}]
Reply(status) == [status |-> status, content |-> Empty]

Ok(content) == [status |-> 200, content |-> content]
Blank       == Reply(200)
Choices     == Reply(300)
NotFound    == Reply(404)
Dropped     == Reply(0)
\* An unknown operation, a verb the operation does not have, an exception.
Refusals    == {NotFound, Reply(405), Reply(500)}

\* A handler is at the query it makes next, or at the answer.  due, torn and
\* hurt are history: the answer the tables gave when they were searched,
\* whether the page has changed since, whether a query has failed.
Stages  == {"handler", "match", "fetch", "prepare", "call", "request", "answered"}
Request == [op : {"none", "get", "api"}, path : DOMAIN Decoded \cup Paths, at : Stages,
            conn : Connections \cup {Nobody}, id : Ids \cup {Nobody},
            got : Contents \cup {Null}, answer : Answer, due : Answer,
            torn : BOOLEAN, hurt : BOOLEAN]

WellFormed ==
    {r \in Request :
       /\ r.at = "handler" => r.path \in DOMAIN Decoded
       /\ r.at \in {"match", "fetch", "prepare", "call"} => r.op = "get" /\ r.path \in Paths
       /\ r.at = "fetch" => r.id \in Ids \ Functions
       /\ r.at \in {"prepare", "call"} => r.id \in Functions
       /\ r.at = "request" => r.op = "api"}

Incoming(op, p) ==
    [op |-> op, path |-> p, at |-> "handler", conn |-> Nobody, id |-> Nobody,
     got |-> Null, answer |-> Blank, due |-> Blank,
     torn |-> FALSE, hurt |-> FALSE]

AnyPath   == CHOOSE p \in DOMAIN Decoded : TRUE
Idle      == Incoming("none", AnyPath)
NoRequest == [u \in Clients |-> Idle]

TypeOK ==
    /\ catalog \in Catalogs
    /\ request \in [Clients -> WellFormed]
    /\ idle \subseteq Connections
    /\ down \in BOOLEAN

Init ==
    /\ catalog \in Catalogs
    /\ request = NoRequest /\ idle = Connections /\ down = FALSE

-----------------------------------------------------------------------------
(* What a request has to be answered, were it answered at one moment.      *)

Matches(rows, p) == {i \in Ids : /\ rows[i] # Absent /\ p \in rows[i].paths
                                 /\ i \in Functions \/ rows[i].active}

\* One row whose pattern is no regular expression makes the search fail.
Searchable(rows) == \A i \in Functions : rows[i] # Absent => rows[i].valid

\* A function without content is answered like a missing page.
Called(content) == IF content = Null THEN NotFound ELSE Ok(content)

Served(i, row) == IF i \notin Functions THEN Ok(row.content)
                  ELSE IF row.holes /\ row.short THEN Dropped ELSE Called(row.content)

Due(rows, p) ==
    LET found == Matches(rows, p)
    IN  IF ~Searchable(rows) \/ found = {} THEN NotFound
        ELSE IF \E i, j \in found : i # j THEN Choices
        ELSE LET i == CHOOSE i \in found : TRUE IN Served(i, rows[i])

-----------------------------------------------------------------------------
(* Steps of handlers.                                                      *)

Queries == {"match", "fetch", "prepare", "call", "request"}

\* The handler of u runs the query at stage at, on a connection it has.
Running(u, at) == ~down /\ request[u].at = at /\ request[u].conn # Nobody

\* What is left of r with its answer.
Answered(r, answer) ==
    [r EXCEPT !.at = "answered", !.answer = answer, !.path = AnyPath,
              !.id = Nobody, !.got = Null]

\* Broken variant: an aborted handler does not give it back.
ProceedLeaks(u, r) ==
    /\ request' = [request EXCEPT ![u] = [r EXCEPT !.conn = Nobody]]
    /\ idle' = IF request[u].conn = Nobody \/ r.answer = Dropped THEN idle
               ELSE idle \cup {request[u].conn}
    /\ UNCHANGED down

\* The handler goes on as r.  A query gives its connection back at its end.
Proceed(u, r) ==
    /\ request' = [request EXCEPT ![u] = [r EXCEPT !.conn = Nobody]]
    /\ idle' = IF request[u].conn = Nobody THEN idle ELSE idle \cup {request[u].conn}
    /\ UNCHANGED down

\* The process ends, with everything it holds.
Fatal == /\ down' = TRUE /\ request' = NoRequest /\ idle' = Connections

Send(u, op, p) ==
    /\ ~down /\ request[u].op = "none"
    /\ request' = [request EXCEPT ![u] = Incoming(op, p)]
    /\ UNCHANGED <<catalog, idle, down>>

Receive(u) ==
    /\ request[u].at = "answered"
    /\ request' = [request EXCEPT ![u] = Idle]
    /\ UNCHANGED <<catalog, idle, down>>

\* A handler waits here for as long as every connection is in use.
Acquire(u) ==
    /\ ~down /\ request[u].at \in Queries /\ request[u].conn = Nobody
    /\ \E c \in idle :
          /\ request' = [request EXCEPT ![u] = [@ EXCEPT !.conn = c]]
          /\ idle' = idle \ {c}
    /\ UNCHANGED <<catalog, down>>

-----------------------------------------------------------------------------
(* The resource handler.                                                   *)

\* A path is unescaped that net/http has unescaped before.
Unescape(u) ==
    /\ ~down /\ request[u].op = "get" /\ request[u].at = "handler"
    /\ LET p == Decoded[request[u].path]
       IN  IF p = Malformed THEN Fatal
           ELSE Proceed(u, [[request[u] EXCEPT !.at = "match"] EXCEPT !.path = p])
    /\ UNCHANGED catalog

\* The handler of r with the rows found: none, many or one of them.
Chosen(r, found) ==
    IF found = {} THEN {Answered(r, NotFound)}
    ELSE IF \E i, j \in found : i # j THEN {Answered(r, Choices)}
    ELSE {[[r EXCEPT !.at = IF i \in Functions THEN "prepare" ELSE "fetch"] EXCEPT !.id = i]
             : i \in found}

\* Broken variant of Found: rows that are not active count.
FoundInactive(rows, p) == {i \in Ids : rows[i] # Absent /\ p \in rows[i].paths}

Found(rows, p) == IF Searchable(rows) THEN Matches(rows, p) ELSE {}

Match(u) ==
    /\ Running(u, "match")
    /\ LET r == [request[u] EXCEPT !.due = Due(catalog, request[u].path)]
       IN  \E next \in Chosen(r, Found(catalog, request[u].path)) : Proceed(u, next)
    /\ UNCHANGED catalog

\* The row is read by its id alone; without one the page is blank.
Fetch(u) ==
    /\ Running(u, "fetch")
    /\ LET row == catalog[request[u].id]
       IN  Proceed(u, Answered(request[u], IF row = Absent THEN Blank ELSE Ok(row.content)))
    /\ UNCHANGED catalog

\* The placeholders are filled from the match, of which there is none if the
\* pattern has changed: the handler panics.  Without the row, or if the pattern
\* is none any more, there is no function to call, which the call finds out.
Prepare(u) ==
    /\ Running(u, "prepare")
    /\ LET row == catalog[request[u].id]
           r   == [request[u] EXCEPT !.at = "call"]
       IN  Proceed(u,
             IF row = Absent THEN [r EXCEPT !.got = Null]
             ELSE IF ~row.valid THEN [r EXCEPT !.got = Null]
             ELSE IF row.holes /\ (row.short \/ request[u].path \notin row.paths)
                  THEN Answered(r, Dropped)
             ELSE [r EXCEPT !.got = row.content])
    /\ UNCHANGED catalog

CallFunction(u) ==
    /\ Running(u, "call")
    /\ Proceed(u, Answered(request[u], Called(request[u].got)))
    /\ UNCHANGED catalog

-----------------------------------------------------------------------------
(* The endpoint handler.                                                   *)

\* A path without its third part makes the handler panic; a query string or
\* a body that cannot be read ends the process.
ReadRequest(u) ==
    /\ ~down /\ request[u].op = "api" /\ request[u].at = "handler"
    /\ \/ Proceed(u, Answered(request[u], Dropped))
       \/ Fatal
       \/ Proceed(u, [request[u] EXCEPT !.at = "request"])
    /\ UNCHANGED catalog

\* Pages whose row changes, to what rows say, after it has been found and
\* before it is read.
Torn(rows) == [u \in Clients |->
    LET r == request[u]
    IN  IF r.at \in {"fetch", "prepare"} /\ rows[r.id] # catalog[r.id]
        THEN [r EXCEPT !.torn = TRUE] ELSE r]

\* endpoint.request is one transaction.  It updates or deletes a row, inserts
\* or deletes several, calls a function, which may do anything; or touches no
\* row, or only reads.  Then u goes on as r.
Change(u, r) ==
    \E rows \in Catalogs :
        /\ catalog' = rows
        /\ request' = [Torn(rows) EXCEPT ![u] = [r EXCEPT !.conn = Nobody]]
        /\ idle' = idle \cup {request[u].conn}
        /\ UNCHANGED down

\* The status is 200 whatever number of rows was touched, and with a blank
\* page when the query fails, before or after the commit, or returns no row or
\* a null, as for a function without a result.  Refused, nothing is changed:
\* an exception undoes what came before it.
Perform(u) ==
    /\ Running(u, "request")
    /\ \/ Change(u, Answered(request[u], Reply(200)))
       \/ /\ \E refusal \in Refusals : Proceed(u, Answered(request[u], refusal))
          /\ UNCHANGED catalog

\* A search that fails is blank, but the end of its rows is not told from an
\* error among them.  A page not fetched is blank; a function not prepared is
\* called without a name; one not called is missing.
QueryFails(u) ==
    /\ Faults
    /\ LET r == [request[u] EXCEPT !.hurt = TRUE]
       IN  \/ Running(u, "match") /\ Proceed(u, Answered(r, Blank))
           \/ /\ Running(u, "match")
              /\ \E cut \in SUBSET Found(catalog, request[u].path) :
                    \E next \in Chosen(r, cut) : Proceed(u, next)
           \/ Running(u, "fetch") /\ Proceed(u, Answered(r, Blank))
           \/ Running(u, "prepare") /\ Proceed(u, [[r EXCEPT !.at = "call"] EXCEPT !.got = Null])
           \/ Running(u, "call") /\ Proceed(u, Answered(r, NotFound))
    /\ UNCHANGED catalog

-----------------------------------------------------------------------------
\* Other clients of the database.
Edit(i, v) ==
    /\ catalog[i] # v
    /\ catalog' = [catalog EXCEPT ![i] = v]
    /\ request' = Torn(catalog')
    /\ UNCHANGED <<idle, down>>

Restart == down /\ down' = FALSE /\ UNCHANGED <<catalog, request, idle>>

\* What a handler does once its query is answered.
Handle(u) ==
    \/ Unescape(u) \/ Match(u) \/ Fetch(u) \/ Prepare(u) \/ CallFunction(u)
    \/ ReadRequest(u) \/ Perform(u) \/ QueryFails(u)

Next ==
    \/ \E u \in Clients, p \in DOMAIN Decoded : Send(u, "get", p)
    \/ \E u \in Clients : Send(u, "api", AnyPath) \/ Receive(u) \/ Acquire(u) \/ Handle(u)
    \/ \E i \in Ids : \E v \in Versions[i] \cup {Absent} : Edit(i, v)
    \/ Restart

\* A goroutine runs on; a query ends, for statement_timeout is 0 and functions
\* are taken to return; a waiter for a connection is not passed over for ever.
FairHandler(u) == WF_vars(Handle(u)) /\ SF_vars(Acquire(u))
Fairness       == \A u \in Clients : FairHandler(u)

Spec     == Init /\ [][Next]_vars
FairSpec == Spec /\ Fairness
=============================================================================
