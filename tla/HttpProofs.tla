------------------------------ MODULE HttpProofs -----------------------------
(***************************************************************************)
(* Proofs about module Http, for any sets of clients, connections, ids,    *)
(* paths and contents.                                                     *)
(***************************************************************************)
EXTENDS HttpProperties, TLAPS

\* What a request r owes to the tables, at every stage.
Exact(r, rows) ==
    /\ r.at \in {"fetch", "prepare"} /\ ~r.torn /\ ~r.hurt =>
          /\ rows[r.id] # Absent
          /\ r.due = Served(r.id, rows[r.id])
          /\ r.at = "prepare" => r.path \in rows[r.id].paths /\ rows[r.id].valid
    /\ r.at = "call" /\ ~r.torn /\ ~r.hurt => r.due = Called(r.got)
    /\ r.op = "get" /\ r.at = "answered" => r.answer = r.due \/ r.torn \/ r.hurt

HttpInv ==
    /\ TypeOK
    /\ PoolExact
    /\ \A u \in Clients : Exact(request[u], catalog)

-----------------------------------------------------------------------------
(* Typing of the records requests are.                                     *)

(* Every answer is one.                                                    *)
LEMMA AnswersTyped ==
    /\ Blank \in Answer /\ Choices \in Answer /\ NotFound \in Answer
    /\ Dropped \in Answer /\ Reply(200) \in Answer /\ Refusals \subseteq Answer
    /\ \A c \in Contents : Ok(c) \in Answer
    /\ \A c \in Contents \cup {Null} : Called(c) \in Answer
  BY DEF Blank, Choices, NotFound, Refusals, Dropped, Ok, Called, Reply, Answer, Statuses

LEMMA AnyPathTyped == AnyPath \in DOMAIN Decoded
  BY HttpAssumption DEF AnyPath, HttpAssumption

(* A request that has just come in is well formed.                         *)
LEMMA IncomingTyped ==
  ASSUME NEW op \in {"none", "get", "api"}, NEW p \in DOMAIN Decoded
  PROVE  /\ Incoming(op, p) \in WellFormed
         /\ Incoming(op, p).conn = Nobody /\ Incoming(op, p).at = "handler"
  <1>1. Blank \in Answer  BY AnswersTyped
  <1>2. Incoming(op, p) \in Request
    BY <1>1 DEF Incoming, Request, Stages
  <1> QED  BY <1>2 DEF Incoming, WellFormed

LEMMA IdleTyped == Idle \in WellFormed /\ Idle.conn = Nobody /\ Idle.at = "handler"
  BY IncomingTyped, AnyPathTyped DEF Idle

(* A request that is answered is well formed, whatever it was before.      *)
LEMMA AnsweredTyped ==
  ASSUME NEW r \in Request, NEW a \in Answer
  PROVE  /\ Answered(r, a) \in WellFormed
         /\ Answered(r, a).at = "answered" /\ Answered(r, a).answer = a
         /\ Answered(r, a).op = r.op /\ Answered(r, a).due = r.due
         /\ Answered(r, a).torn = r.torn /\ Answered(r, a).hurt = r.hurt
  <1>1. Answered(r, a) \in Request
    BY AnyPathTyped DEF Answered, Request, Stages
  <1> QED  BY <1>1 DEF Answered, WellFormed, Request

(* What the tables hold.                                                   *)
LEMMA CatalogTyped ==
  ASSUME TypeOK, NEW i \in Ids
  PROVE  catalog[i] \in Versions[i] \cup {Absent}
  BY DEF TypeOK, Catalogs

(* What the tables call for is an answer.                                  *)
LEMMA ServedTyped ==
  ASSUME NEW i \in Ids, NEW row \in Versions[i]
  PROVE  Served(i, row) \in Answer
  <1>1. row \in Row  BY HttpAssumption DEF HttpAssumption
  <1>2. i \notin Functions => row.content \in Contents
    BY HttpAssumption DEF HttpAssumption, Ids
  <1>3. row.content \in Contents \cup {Null}  BY <1>1 DEF Row
  <1> QED  BY <1>2, <1>3, AnswersTyped DEF Served

LEMMA DueTyped ==
  ASSUME TypeOK, NEW p
  PROVE  Due(catalog, p) \in Answer
  <1> DEFINE found == Matches(catalog, p)
  <1>1. \A i \in found : i \in Ids /\ catalog[i] \in Versions[i]
    BY CatalogTyped DEF Matches
  <1>2. ASSUME found # {} PROVE Served(CHOOSE i \in found : TRUE, catalog[CHOOSE i \in found : TRUE]) \in Answer
    BY <1>1, <1>2, ServedTyped
  <1> QED  BY <1>2, AnswersTyped DEF Due

-----------------------------------------------------------------------------
(* The ways a step changes the requests.                                   *)

(* To show of a change of one request and of nothing else.                 *)
LEMMA OneRequest ==
  ASSUME HttpInv, NEW u \in Clients, NEW q \in WellFormed,
         Exact(q, catalog),
         request' = [request EXCEPT ![u] = q], catalog' = catalog,
         idle' \subseteq Connections, down' \in BOOLEAN, PoolExact'
  PROVE  HttpInv'
  <1> USE DEF HttpInv
  <1>1. TypeOK'  BY DEF TypeOK
  <1>2. ASSUME NEW v \in Clients
        PROVE  Exact(request[v], catalog)'
    <2>1. request'[v] = IF v = u THEN q ELSE request[v]  BY DEF TypeOK
    <2>2. CASE v = u
      <3>1. request'[v] = q  BY <2>1, <2>2
      <3> QED  BY <3>1 DEF Exact
    <2>3. CASE v # u
      <3>1. request'[v] = request[v]  BY <2>1, <2>3
      <3> QED  BY <3>1 DEF Exact
    <2> QED  BY <2>2, <2>3
  <1> QED  BY <1>1, <1>2

(* The pool stays exact when a handler gives back what it has, or has      *)
(* nothing to give.                                                        *)
LEMMA GivesBack ==
  ASSUME TypeOK, PoolExact, NEW u \in Clients,
         request'[u].conn = Nobody,
         \A v \in Clients \ {u} : /\ request'[v].conn = request[v].conn
                                  /\ request'[v].at = request[v].at,
         idle' = IF request[u].conn = Nobody THEN idle ELSE idle \cup {request[u].conn}
  PROVE  PoolExact' /\ idle' \subseteq Connections
  <1>1. request[u].conn \in Connections \cup {Nobody}  BY DEF TypeOK, WellFormed, Request
  <1>2. idle' \subseteq Connections  BY <1>1 DEF TypeOK
  <1>3. ASSUME NEW c \in Connections
        PROVE  c \in idle' \/ \E v \in Clients : request'[v].conn = c
    <2>1. Nobody \notin Connections  BY HttpAssumption DEF HttpAssumption
    <2>2. c \in idle \/ \E v \in Clients : request[v].conn = c  BY DEF PoolExact
    <2>3. CASE c \in idle  BY <2>3
    <2>4. CASE request[u].conn = c  BY <2>4, <2>1
    <2>5. ASSUME NEW v \in Clients, v # u, request[v].conn = c
          PROVE  request'[v].conn = c  BY <2>5
    <2> QED  BY <2>2, <2>3, <2>4, <2>5
  <1>4. ASSUME NEW v \in Clients, request'[v].conn # Nobody
        PROVE  /\ request'[v].conn \notin idle'
               /\ request'[v].at \in Queries
               /\ \A w \in Clients : w # v => request'[w].conn # request'[v].conn
    <2>1. v # u /\ request'[v].conn = request[v].conn /\ request'[v].at = request[v].at
      BY <1>4
    <2>2. /\ request[v].conn \notin idle /\ request[v].at \in Queries
          /\ \A w \in Clients : w # v => request[w].conn # request[v].conn
      BY <1>4, <2>1 DEF PoolExact
    <2>3. \A w \in Clients : w # v => request'[w].conn # request'[v].conn
      BY <1>4, <2>1, <2>2
    <2> QED  BY <2>1, <2>2, <2>3
  <1> QED  BY <1>2, <1>3, <1>4 DEF PoolExact

(* Neither typing nor what is owed looks at the connection.                *)
LEMMA WithoutConnection ==
  ASSUME NEW r \in WellFormed, NEW c \in Connections \cup {Nobody}
  PROVE  LET q == [r EXCEPT !.conn = c]
         IN  /\ q \in WellFormed /\ q.conn = c /\ q.at = r.at
             /\ q.id = r.id /\ q.torn = r.torn /\ q.hurt = r.hurt
             /\ Exact(q, catalog) <=> Exact(r, catalog)
  <1> DEFINE q == [r EXCEPT !.conn = c]
  <1>1. r \in Request  BY DEF WellFormed
  <1>2. /\ q.conn = c /\ q.at = r.at /\ q.op = r.op /\ q.path = r.path /\ q.id = r.id
        /\ q.got = r.got /\ q.answer = r.answer /\ q.due = r.due /\ q.torn = r.torn
        /\ q.hurt = r.hurt
    BY <1>1 DEF Request
  <1>3. q \in Request  BY <1>1 DEF Request
  <1>4. q \in WellFormed  BY <1>2, <1>3 DEF WellFormed
  <1>5. Exact(q, catalog) <=> Exact(r, catalog)
    BY <1>2 DEF Exact
  <1> QED  BY <1>2, <1>4, <1>5

(* A handler that goes on keeps the invariant if what it goes on as is     *)
(* well formed and in order.                                               *)
LEMMA Proceeds ==
  ASSUME HttpInv, NEW u \in Clients, NEW r \in WellFormed,
         Exact(r, catalog), Proceed(u, r), UNCHANGED catalog
  PROVE  HttpInv'
  <1> DEFINE q == [r EXCEPT !.conn = Nobody]
  <1>1. /\ q \in WellFormed /\ q.conn = Nobody
        /\ Exact(q, catalog)
    BY WithoutConnection
  <1>2. request' = [request EXCEPT ![u] = q]  BY DEF Proceed
  <1>3. request'[u] = q /\ \A v \in Clients \ {u} : request'[v] = request[v]
    BY <1>2 DEF HttpInv, TypeOK
  <1> HIDE DEF q
  <1>4. PoolExact' /\ idle' \subseteq Connections
    BY <1>1, <1>3, GivesBack DEF HttpInv, Proceed
  <1>5. down' \in BOOLEAN  BY DEF Proceed, HttpInv, TypeOK
  <1> QED  BY <1>1, <1>2, <1>4, <1>5, OneRequest

(* An answer keeps the invariant if it is the due one or excused.          *)
LEMMA ProceedsToAnswer ==
  ASSUME HttpInv, NEW u \in Clients, NEW r \in Request, NEW a \in Answer,
         Proceed(u, Answered(r, a)), UNCHANGED catalog,
         r.op = "get" => a = r.due \/ r.torn \/ r.hurt
  PROVE  HttpInv'
  <1> DEFINE q == Answered(r, a)
  <1>1. /\ q \in WellFormed /\ q.at = "answered" /\ q.answer = a /\ q.op = r.op
        /\ q.due = r.due /\ q.torn = r.torn /\ q.hurt = r.hurt
    BY AnsweredTyped
  <1> HIDE DEF q
  <1>2. Exact(q, catalog)  BY <1>1 DEF Exact
  <1>3. Proceed(u, q)  BY DEF q
  <1> QED  BY <1>1, <1>2, <1>3, Proceeds

(* A change of the tables keeps every request in order: those that are     *)
(* torn by it owe nothing to the new rows.                                 *)
LEMMA TornInOrder ==
  ASSUME HttpInv, NEW rows \in Catalogs, NEW u \in Clients
  PROVE  LET q == Torn(rows)[u]
         IN  /\ q \in WellFormed /\ q.conn = request[u].conn /\ q.at = request[u].at
             /\ Exact(q, rows)
  <1> DEFINE r == request[u]
             q == Torn(rows)[u]
             hit == r.at \in {"fetch", "prepare"} /\ rows[r.id] # catalog[r.id]
  <1>1. r \in WellFormed /\ r \in Request /\ Exact(r, catalog)
    BY DEF HttpInv, TypeOK, WellFormed
  <1>2. CASE hit
    <2>1. q = [r EXCEPT !.torn = TRUE]  BY <1>2 DEF Torn
    <2>2. /\ q.conn = r.conn /\ q.at = r.at /\ q.op = r.op /\ q.path = r.path
          /\ q.id = r.id /\ q.torn = TRUE
      BY <2>1, <1>1 DEF Request
    <2>3. q \in Request  BY <2>1, <1>1 DEF Request
    <2>4. q \in WellFormed  BY <2>2, <2>3, <1>1 DEF WellFormed
    <2>5. Exact(q, rows)
      BY <1>2, <2>2 DEF Exact
    <2> QED  BY <2>2, <2>4, <2>5
  <1>3. CASE ~hit
    <2>1. q = r  BY <1>3 DEF Torn
    <2>2. r.at \in {"fetch", "prepare"} => rows[r.id] = catalog[r.id]
      BY <1>3
    <2>3. Exact(r, rows)  BY <1>1, <2>2 DEF Exact
    <2> QED  BY <1>1, <2>1, <2>3
  <1> QED  BY <1>2, <1>3

(* The tables hold what they may after an edit.                            *)
LEMMA EditTyped ==
  ASSUME TypeOK, NEW i \in Ids, NEW v \in Versions[i] \cup {Absent}
  PROVE  [catalog EXCEPT ![i] = v] \in Catalogs
  <1>1. v \in Rows  BY DEF Rows
  <1> QED  BY <1>1 DEF TypeOK, Catalogs

LEMMA EditSafe ==
  ASSUME HttpInv, NEW i \in Ids, NEW v \in Versions[i] \cup {Absent}, Edit(i, v)
  PROVE  HttpInv'
  <1>0. /\ catalog' \in Catalogs /\ request' = Torn(catalog')
        /\ UNCHANGED <<idle, down>>
    BY EditTyped DEF Edit, HttpInv
  <1>1. \A u \in Clients : /\ request'[u] \in WellFormed
                           /\ request'[u].conn = request[u].conn
                           /\ request'[u].at = request[u].at
                           /\ Exact(request'[u], catalog')
    BY <1>0, TornInOrder
  <1>2. TypeOK'
    <2>1. request' \in [Clients -> WellFormed]  BY <1>0, <1>1 DEF Torn
    <2> QED  BY <1>0, <2>1 DEF HttpInv, TypeOK
  <1>3. PoolExact'  BY <1>0, <1>1 DEF HttpInv, PoolExact
  <1>4. \A u \in Clients : Exact(request[u], catalog)'
    BY <1>1 DEF Exact
  <1> QED  BY <1>2, <1>3, <1>4 DEF HttpInv

(* A change that a request itself makes.                                   *)
LEMMA ChangeSafe ==
  ASSUME HttpInv, NEW u \in Clients, NEW r \in WellFormed, r.at = "answered",
         r.op = "api", request[u].conn # Nobody, Change(u, r)
  PROVE  HttpInv'
  <1> DEFINE q == [r EXCEPT !.conn = Nobody]
  <1>1. PICK rows \in Catalogs :
           /\ catalog' = rows
           /\ request' = [Torn(rows) EXCEPT ![u] = q]
           /\ idle' = idle \cup {request[u].conn}
           /\ UNCHANGED down
    BY DEF Change
  <1>3. q \in WellFormed /\ q.conn = Nobody /\ q.at = "answered" /\ q.op = "api"
    <2>1. q.op = "api"  BY DEF WellFormed, Request
    <2> QED  BY <2>1, WithoutConnection
  <1> HIDE DEF q
  <1>4. request'[u] = q /\ \A w \in Clients \ {u} : request'[w] = Torn(rows)[w]
    BY <1>1 DEF Torn
  <1>5. \A w \in Clients \ {u} : /\ request'[w] \in WellFormed
                                 /\ request'[w].conn = request[w].conn
                                 /\ request'[w].at = request[w].at
                                 /\ Exact(request'[w], rows)
    BY <1>4, TornInOrder
  <1>6. PoolExact' /\ idle' \subseteq Connections
    BY <1>1, <1>3, <1>4, <1>5, GivesBack DEF HttpInv
  <1>7. Exact(q, rows)  BY <1>3 DEF Exact
  <1>8. request' \in [Clients -> WellFormed]
    <2>1. \A w \in Clients : request'[w] \in WellFormed  BY <1>3, <1>4, <1>5
    <2>2. request' = [w \in Clients |-> request'[w]]  BY <1>1 DEF Torn
    <2> QED  BY <2>1, <2>2
  <1>9. TypeOK'
    BY <1>1, <1>6, <1>8 DEF HttpInv, TypeOK
  <1>10. \A w \in Clients : Exact(request'[w], catalog')
    BY <1>1, <1>3, <1>4, <1>5, <1>7
  <1>11. \A w \in Clients : Exact(request[w], catalog)'
    BY <1>10 DEF Exact
  <1> QED  BY <1>6, <1>9, <1>11 DEF HttpInv

-----------------------------------------------------------------------------
(* One lemma for each action.                                              *)

LEMMA FatalSafe ==
  ASSUME HttpInv, Fatal, UNCHANGED catalog
  PROVE  HttpInv'
  <1>1. request' = [u \in Clients |-> Idle] /\ idle' = Connections /\ down' = TRUE
    BY DEF Fatal, NoRequest
  <1>2. Idle \in WellFormed /\ Idle.conn = Nobody /\ Idle.at = "handler"  BY IdleTyped
  <1>3. TypeOK'  BY <1>1, <1>2 DEF HttpInv, TypeOK
  <1>4. PoolExact'  BY <1>1, <1>2 DEF PoolExact
  <1>5. \A u \in Clients : Exact(request[u], catalog)'
    BY <1>1, <1>2 DEF Exact
  <1> QED  BY <1>3, <1>4, <1>5 DEF HttpInv

LEMMA InitSafe ==
  ASSUME Init PROVE HttpInv
  <1>2. Idle \in WellFormed /\ Idle.conn = Nobody /\ Idle.at = "handler"  BY IdleTyped
  <1>3. TypeOK  BY <1>2 DEF Init, TypeOK, NoRequest
  <1>4. PoolExact  BY <1>2 DEF Init, PoolExact, NoRequest
  <1>5. \A u \in Clients : Exact(request[u], catalog)
    BY <1>2 DEF Init, Exact, NoRequest
  <1> QED  BY <1>3, <1>4, <1>5 DEF HttpInv

(* A request that comes in, and one that is over.                          *)
LEMMA FreshSafe ==
  ASSUME HttpInv, NEW u \in Clients, NEW q \in WellFormed,
         request[u].at \in {"handler", "answered"}, q.at = "handler", q.conn = Nobody,
         request' = [request EXCEPT ![u] = q], UNCHANGED <<catalog, idle, down>>
  PROVE  HttpInv'
  <1>1. request'[u] = q /\ \A v \in Clients \ {u} : request'[v] = request[v]
    BY DEF HttpInv, TypeOK
  <1>2. request[u].conn = Nobody
    <2>1. request[u].at \notin Queries  BY DEF Queries
    <2> QED  BY <2>1 DEF HttpInv, PoolExact
  <1>3. PoolExact' /\ idle' \subseteq Connections
    BY <1>1, <1>2, GivesBack DEF HttpInv
  <1>4. Exact(q, catalog)  BY DEF Exact
  <1> QED  BY <1>3, <1>4, OneRequest DEF HttpInv, TypeOK

LEMMA SendSafe ==
  ASSUME HttpInv, NEW u \in Clients, NEW op \in {"get", "api"}, NEW p \in DOMAIN Decoded,
         Send(u, op, p)
  PROVE  HttpInv'
  <1>1. Incoming(op, p) \in WellFormed /\ Incoming(op, p).conn = Nobody
        /\ Incoming(op, p).at = "handler"
    BY IncomingTyped
  <1>2. request[u].at \in {"handler", "answered"}
    BY DEF Send, HttpInv, TypeOK, WellFormed, Request, Stages
  <1> QED  BY <1>1, <1>2, FreshSafe DEF Send

LEMMA ReceiveSafe ==
  ASSUME HttpInv, NEW u \in Clients, Receive(u)
  PROVE  HttpInv'
  BY IdleTyped, FreshSafe DEF Receive

LEMMA AcquireSafe ==
  ASSUME HttpInv, NEW u \in Clients, Acquire(u)
  PROVE  HttpInv'
  <1>1. PICK c \in idle : /\ request' = [request EXCEPT ![u] = [@ EXCEPT !.conn = c]]
                          /\ idle' = idle \ {c}
    BY DEF Acquire
  <1> DEFINE q == [request[u] EXCEPT !.conn = c]
  <1>2. request[u] \in WellFormed /\ c \in Connections /\ request[u].conn = Nobody
    BY DEF Acquire, HttpInv, TypeOK
  <1>3. /\ q \in WellFormed /\ q.conn = c /\ q.at = request[u].at
        /\ Exact(q, catalog)
    BY <1>2, WithoutConnection DEF HttpInv
  <1>4. request' = [request EXCEPT ![u] = q]  BY <1>1
  <1>5. request'[u] = q /\ \A v \in Clients \ {u} : request'[v] = request[v]
    BY <1>4 DEF HttpInv, TypeOK
  <1> HIDE DEF q
  <1>6. q.at \in Queries  BY <1>3 DEF Acquire
  <1>7. \A d \in Connections : d \in idle' \/ \E v \in Clients : request'[v].conn = d
    <2> SUFFICES ASSUME NEW d \in Connections
                 PROVE  d \in idle' \/ \E v \in Clients : request'[v].conn = d
      OBVIOUS
    <2>1. Nobody \notin Connections  BY HttpAssumption DEF HttpAssumption
    <2>2. CASE d = c  BY <2>2, <1>3, <1>5
    <2>3. CASE d # c /\ d \in idle  BY <2>3, <1>1
    <2>4. ASSUME NEW v \in Clients, request[v].conn = d
          PROVE  \E w \in Clients : request'[w].conn = d
      <3>1. v # u  BY <2>1, <2>4, <1>2
      <3> QED  BY <3>1, <2>4, <1>5
    <2> QED  BY <2>2, <2>3, <2>4 DEF HttpInv, PoolExact
  <1>8. ASSUME NEW v \in Clients, request'[v].conn # Nobody
        PROVE  /\ request'[v].conn \notin idle' /\ request'[v].at \in Queries
               /\ \A w \in Clients : w # v => request'[w].conn # request'[v].conn
    <2>1. \A w \in Clients \ {u} : request[w].conn # c
      <3>1. c # Nobody  BY <1>2, HttpAssumption DEF HttpAssumption
      <3> QED  BY <3>1 DEF HttpInv, PoolExact
    <2>2. CASE v = u
      BY <2>1, <2>2, <1>1, <1>3, <1>5, <1>6
    <2>3. CASE v # u
      <3>1. request'[v] = request[v]  BY <2>3, <1>5
      <3>2. /\ request[v].conn \notin idle /\ request[v].at \in Queries
            /\ \A w \in Clients : w # v => request[w].conn # request[v].conn
        BY <3>1, <1>8 DEF HttpInv, PoolExact
      <3>3. \A w \in Clients : w # v => request'[w].conn # request[v].conn
        BY <3>2, <2>1, <2>3, <1>3, <1>5
      <3> QED  BY <3>1, <3>2, <3>3, <1>1
    <2> QED  BY <2>2, <2>3
  <1>9. PoolExact'  BY <1>7, <1>8 DEF PoolExact
  <1>10. idle' \subseteq Connections /\ catalog' = catalog /\ down' \in BOOLEAN
    BY <1>1 DEF Acquire, HttpInv, TypeOK
  <1> QED  BY <1>3, <1>4, <1>9, <1>10, OneRequest

(* A request as the steps that follow use it.                              *)
LEMMA RequestInOrder ==
  ASSUME HttpInv, NEW u \in Clients
  PROVE  /\ request[u] \in WellFormed /\ request[u] \in Request
         /\ Exact(request[u], catalog)
  BY DEF HttpInv, TypeOK, WellFormed

LEMMA UnescapeSafe ==
  ASSUME HttpInv, NEW u \in Clients, Unescape(u)
  PROVE  HttpInv'
  <1> DEFINE p == Decoded[request[u].path]
             q == [[request[u] EXCEPT !.at = "match"] EXCEPT !.path = p]
  <1>1. request[u] \in Request /\ request[u].path \in DOMAIN Decoded /\ request[u].op = "get"
    BY RequestInOrder DEF Unescape, WellFormed
  <1>2. CASE p = Malformed
    BY <1>2, FatalSafe DEF Unescape
  <1>3. CASE p # Malformed
    <2>1. p \in Paths  BY <1>1, <1>3, HttpAssumption DEF HttpAssumption
    <2>2. q.at = "match" /\ q.path = p /\ q.op = "get" /\ q \in Request
      BY <1>1, <2>1 DEF Request, Stages
    <2> HIDE DEF p
    <2>3. q \in WellFormed  BY <2>1, <2>2 DEF WellFormed
    <2>4. Exact(q, catalog)  BY <2>2 DEF Exact
    <2>5. Proceed(u, q) /\ UNCHANGED catalog  BY <1>3 DEF Unescape, p
    <2> HIDE DEF q
    <2> QED  BY <2>3, <2>4, <2>5, Proceeds
  <1> QED  BY <1>2, <1>3

(* What a search leads to keeps the invariant, if it found what the tables *)
(* have or was hurt.                                                       *)
LEMMA ChosenSafe ==
  ASSUME HttpInv, NEW u \in Clients, NEW r \in Request, NEW found \in SUBSET Matches(catalog, request[u].path),
         NEW next \in Chosen(r, found), Proceed(u, next), UNCHANGED catalog,
         r.op = "get", r.path = request[u].path, r.path \in Paths,
         ~r.hurt => /\ r.due = Due(catalog, r.path)
                    /\ found = Found(catalog, r.path)
  PROVE  HttpInv'
  <1>1. CASE found = {}
    <2>1. next = Answered(r, NotFound)  BY <1>1 DEF Chosen
    <2>2. ~r.hurt => r.due = NotFound
      BY <1>1 DEF Found, Due
    <2> QED  BY <2>1, <2>2, AnswersTyped, ProceedsToAnswer
  <1>2. CASE found # {} /\ \E i, j \in found : i # j
    <2>1. next = Answered(r, Choices)  BY <1>2 DEF Chosen
    <2>2. ~r.hurt => r.due = Choices
      BY <1>2 DEF Found, Due
    <2> QED  BY <2>1, <2>2, AnswersTyped, ProceedsToAnswer
  <1>3. CASE found # {} /\ ~\E i, j \in found : i # j
    <2>1. PICK i \in found :
             next = [[r EXCEPT !.at = IF i \in Functions THEN "prepare" ELSE "fetch"] EXCEPT !.id = i]
      BY <1>3 DEF Chosen
    <2>2. i \in Ids /\ catalog[i] # Absent /\ r.path \in catalog[i].paths
      BY DEF Matches
    <2>3. /\ next.at = IF i \in Functions THEN "prepare" ELSE "fetch"
          /\ next.id = i /\ next.op = "get" /\ next.path = r.path
          /\ next.due = r.due /\ next.torn = r.torn /\ next.hurt = r.hurt
      BY <2>1 DEF Request
    <2>4. next \in Request  BY <2>1, <2>2 DEF Request, Stages
    <2>5. next \in WellFormed  BY <2>2, <2>3, <2>4 DEF WellFormed
    <2>6. ~r.hurt => /\ r.due = Served(i, catalog[i])
                     /\ i \in Functions => catalog[i].valid
      <3> SUFFICES ASSUME ~r.hurt
                   PROVE  /\ r.due = Served(i, catalog[i])
                          /\ i \in Functions => catalog[i].valid
        OBVIOUS
      <3>1. Searchable(catalog) /\ found = Matches(catalog, r.path)
        BY <1>3 DEF Found
      <3>2. (CHOOSE j \in found : TRUE) = i  BY <1>3
      <3>3. r.due = Served(i, catalog[i])  BY <1>3, <3>1, <3>2 DEF Due
      <3> QED  BY <2>2, <3>1, <3>3 DEF Searchable
    <2>7. Exact(next, catalog)  BY <2>2, <2>3, <2>6 DEF Exact
    <2> QED  BY <2>5, <2>7, Proceeds
  <1> QED  BY <1>1, <1>2, <1>3

LEMMA MatchSafe ==
  ASSUME HttpInv, NEW u \in Clients, Match(u)
  PROVE  HttpInv'
  <1> DEFINE r == [request[u] EXCEPT !.due = Due(catalog, request[u].path)]
  <1>1. request[u] \in Request /\ request[u].op = "get" /\ request[u].path \in Paths
    BY RequestInOrder DEF Match, Running, WellFormed
  <1>2. Due(catalog, request[u].path) \in Answer  BY DueTyped DEF HttpInv
  <1>3. /\ r \in Request /\ r.op = "get" /\ r.path = request[u].path
        /\ r.torn = request[u].torn /\ r.hurt = request[u].hurt
        /\ r.due = Due(catalog, request[u].path)
    BY <1>1, <1>2 DEF Request
  <1>4. \E next \in Chosen(r, Found(catalog, request[u].path)) : Proceed(u, next)
    BY DEF Match
  <1>5. Found(catalog, request[u].path) \in SUBSET Matches(catalog, request[u].path)
    BY DEF Found
  <1>6. UNCHANGED catalog  BY DEF Match
  <1> HIDE DEF r
  <1> QED  BY <1>1, <1>3, <1>4, <1>5, <1>6, ChosenSafe

LEMMA FetchSafe ==
  ASSUME HttpInv, NEW u \in Clients, Fetch(u)
  PROVE  HttpInv'
  <1> DEFINE row == catalog[request[u].id]
             a   == IF row = Absent THEN Blank ELSE Ok(row.content)
  <1>1. /\ request[u] \in Request /\ request[u].op = "get" /\ request[u].at = "fetch"
        /\ request[u].id \in Ids /\ request[u].id \notin Functions
    BY RequestInOrder DEF Fetch, Running, WellFormed
  <1>2. a \in Answer
    <2>1. CASE row = Absent  BY <2>1, AnswersTyped
    <2>2. CASE row # Absent
      <3>1. row \in Versions[request[u].id]  BY <1>1, <2>2, CatalogTyped DEF HttpInv
      <3>2. row.content \in Contents  BY <1>1, <3>1, HttpAssumption DEF HttpAssumption
      <3> QED  BY <2>2, <3>2, AnswersTyped
    <2> QED  BY <2>1, <2>2
  <1>3. ~request[u].torn /\ ~request[u].hurt => a = request[u].due
    BY <1>1, RequestInOrder DEF Exact, Served
  <1>4. Proceed(u, Answered(request[u], a)) /\ UNCHANGED catalog  BY DEF Fetch
  <1> HIDE DEF a
  <1> QED  BY <1>1, <1>2, <1>3, <1>4, ProceedsToAnswer

(* A handler that goes on to call a function.                              *)
LEMMA CallsSafe ==
  ASSUME HttpInv, NEW u \in Clients, NEW h \in BOOLEAN, NEW got \in Contents \cup {Null},
         request[u].at = "prepare", UNCHANGED catalog,
         Proceed(u, [[[request[u] EXCEPT !.hurt = h] EXCEPT !.at = "call"] EXCEPT !.got = got]),
         ~h /\ ~request[u].torn => request[u].due = Called(got)
  PROVE  HttpInv'
  <1> DEFINE q == [[[request[u] EXCEPT !.hurt = h] EXCEPT !.at = "call"] EXCEPT !.got = got]
  <1>1. /\ request[u] \in Request /\ request[u].op = "get" /\ request[u].path \in Paths
        /\ request[u].id \in Functions
    BY RequestInOrder DEF WellFormed
  <1>2. /\ q.at = "call" /\ q.op = "get" /\ q.path = request[u].path /\ q.id = request[u].id
        /\ q.got = got /\ q.due = request[u].due /\ q.torn = request[u].torn /\ q.hurt = h
        /\ q \in Request
    BY <1>1 DEF Request, Stages
  <1> HIDE DEF q
  <1>3. q \in WellFormed  BY <1>1, <1>2 DEF WellFormed
  <1>4. Exact(q, catalog)  BY <1>2 DEF Exact
  <1> QED  BY <1>3, <1>4, Proceeds DEF q

LEMMA PrepareSafe ==
  ASSUME HttpInv, NEW u \in Clients, Prepare(u)
  PROVE  HttpInv'
  <1> DEFINE row    == catalog[request[u].id]
             r      == [request[u] EXCEPT !.at = "call"]
             panics == row.holes /\ (row.short \/ request[u].path \notin row.paths)
             got    == IF row = Absent THEN Null ELSE IF ~row.valid THEN Null ELSE row.content
  <1>1. /\ request[u] \in Request /\ request[u].op = "get" /\ request[u].at = "prepare"
        /\ request[u].id \in Ids /\ request[u].id \in Functions
    BY RequestInOrder DEF Prepare, Running, WellFormed, Ids
  <1>2. row # Absent => row \in Row
    BY <1>1, CatalogTyped, HttpAssumption DEF HttpInv, HttpAssumption
  <1>3. UNCHANGED catalog  BY DEF Prepare
  <1>4. ~request[u].torn /\ ~request[u].hurt =>
          /\ row # Absent /\ row.valid /\ request[u].path \in row.paths
          /\ request[u].due = Served(request[u].id, row)
    BY <1>1, RequestInOrder DEF Exact
  <1>5. CASE row # Absent /\ row.valid /\ panics
    <2>1. Proceed(u, Answered(r, Dropped))  BY <1>5 DEF Prepare
    <2>2. /\ r \in Request /\ r.op = "get" /\ r.due = request[u].due
          /\ r.torn = request[u].torn /\ r.hurt = request[u].hurt
      BY <1>1 DEF Request, Stages
    <2>3. ~r.torn /\ ~r.hurt => r.due = Dropped
      BY <1>1, <1>4, <1>5, <2>2 DEF Served
    <2> HIDE DEF r
    <2> QED  BY <1>3, <2>1, <2>2, <2>3, AnswersTyped, ProceedsToAnswer
  <1>6. CASE ~(row # Absent /\ row.valid /\ panics)
    <2>1. got \in Contents \cup {Null}  BY <1>2 DEF Row
    <2>2. Proceed(u, [r EXCEPT !.got = got])  BY <1>6 DEF Prepare
    <2>3. [r EXCEPT !.got = got]
            = [[[request[u] EXCEPT !.hurt = request[u].hurt] EXCEPT !.at = "call"] EXCEPT !.got = got]
      BY <1>1 DEF Request
    <2>4. request[u].hurt \in BOOLEAN  BY <1>1 DEF Request
    <2>5. ~request[u].hurt /\ ~request[u].torn => request[u].due = Called(got)
      <3> SUFFICES ASSUME ~request[u].hurt, ~request[u].torn PROVE request[u].due = Called(got)
        OBVIOUS
      <3>1. row # Absent /\ row.valid /\ request[u].path \in row.paths /\ request[u].due = Served(request[u].id, row)
        BY <1>4
      <3>2. ~(row.holes /\ row.short) /\ got = row.content  BY <1>6, <3>1
      <3> QED  BY <1>1, <3>1, <3>2 DEF Served
    <2> HIDE DEF got, r
    <2> QED  BY <1>1, <1>3, <2>1, <2>2, <2>3, <2>4, <2>5, CallsSafe
  <1> QED  BY <1>5, <1>6

LEMMA CallSafe ==
  ASSUME HttpInv, NEW u \in Clients, CallFunction(u)
  PROVE  HttpInv'
  <1>1. /\ request[u] \in Request /\ request[u].op = "get" /\ request[u].at = "call"
        /\ request[u].got \in Contents \cup {Null}
    BY RequestInOrder DEF CallFunction, Running, WellFormed, Request
  <1>2. Called(request[u].got) \in Answer  BY <1>1, AnswersTyped
  <1>3. ~request[u].torn /\ ~request[u].hurt => request[u].due = Called(request[u].got)
    BY <1>1, RequestInOrder DEF Exact
  <1> QED  BY <1>1, <1>2, <1>3, ProceedsToAnswer DEF CallFunction

LEMMA ReadRequestSafe ==
  ASSUME HttpInv, NEW u \in Clients, ReadRequest(u)
  PROVE  HttpInv'
  <1>1. request[u] \in Request /\ request[u].op = "api" /\ UNCHANGED catalog
    BY RequestInOrder DEF ReadRequest
  <1>2. CASE Proceed(u, Answered(request[u], Dropped))
    BY <1>1, <1>2, AnswersTyped, ProceedsToAnswer
  <1>3. CASE Fatal
    BY <1>1, <1>3, FatalSafe
  <1>4. CASE Proceed(u, [request[u] EXCEPT !.at = "request"])
    <2> DEFINE q == [request[u] EXCEPT !.at = "request"]
    <2>1. q \in Request /\ q.at = "request" /\ q.op = "api"
      BY <1>1 DEF Request, Stages
    <2>2. q \in WellFormed  BY <2>1 DEF WellFormed
    <2>3. Exact(q, catalog)  BY <2>1 DEF Exact
    <2> HIDE DEF q
    <2>4. Proceed(u, q)  BY <1>4 DEF q
    <2> QED  BY <1>1, <2>2, <2>3, <2>4, Proceeds
  <1> QED  BY <1>2, <1>3, <1>4 DEF ReadRequest

LEMMA PerformSafe ==
  ASSUME HttpInv, NEW u \in Clients, Perform(u)
  PROVE  HttpInv'
  <1> DEFINE r == Answered(request[u], Reply(200))
  <1>1. request[u] \in Request /\ request[u].op = "api" /\ request[u].conn # Nobody
    BY RequestInOrder DEF Perform, Running, WellFormed
  <1>2. CASE Change(u, r)
    <2>1. r \in WellFormed /\ r.at = "answered" /\ r.op = "api"
      BY <1>1, AnsweredTyped, AnswersTyped
    <2> HIDE DEF r
    <2> QED  BY <1>1, <1>2, <2>1, ChangeSafe
  <1>3. CASE /\ \E refusal \in Refusals : Proceed(u, Answered(request[u], refusal))
             /\ UNCHANGED catalog
    BY <1>1, <1>3, AnswersTyped, ProceedsToAnswer
  <1> QED  BY <1>2, <1>3 DEF Perform

LEMMA QueryFailsSafe ==
  ASSUME HttpInv, NEW u \in Clients, QueryFails(u)
  PROVE  HttpInv'
  <1> DEFINE r == [request[u] EXCEPT !.hurt = TRUE]
  <1>1. request[u] \in Request /\ UNCHANGED catalog  BY RequestInOrder DEF QueryFails
  <1>2. /\ r \in Request /\ r.hurt = TRUE /\ r.op = request[u].op /\ r.path = request[u].path
        /\ r.at = request[u].at
    BY <1>1 DEF Request
  <1>3. request[u].at \in {"match", "fetch", "prepare", "call"} => request[u].op = "get" /\ request[u].path \in Paths
    BY RequestInOrder DEF WellFormed
  <1>4. Blank \in Answer /\ NotFound \in Answer /\ Null \in Contents \cup {Null}  BY AnswersTyped
  <1>5. CASE Running(u, "match") /\ Proceed(u, Answered(r, Blank))
    <2>1. r.op = "get"  BY <1>2, <1>3, <1>5 DEF Running
    <2> HIDE DEF r
    <2> QED  BY <1>1, <1>2, <1>4, <1>5, <2>1, ProceedsToAnswer
  <1>6. CASE /\ Running(u, "match")
             /\ \E cut \in SUBSET Found(catalog, request[u].path) :
                   \E next \in Chosen(r, cut) : Proceed(u, next)
    <2>1. r.op = "get" /\ r.path \in Paths  BY <1>2, <1>3, <1>6 DEF Running
    <2>2. PICK cut \in SUBSET Found(catalog, request[u].path) :
             \E next \in Chosen(r, cut) : Proceed(u, next)
      BY <1>6
    <2>3. cut \in SUBSET Matches(catalog, request[u].path)  BY DEF Found
    <2> HIDE DEF r
    <2> QED  BY <1>1, <1>2, <2>1, <2>2, <2>3, ChosenSafe
  <1>7. CASE Running(u, "fetch") /\ Proceed(u, Answered(r, Blank))
    <2>1. r.op = "get"  BY <1>2, <1>3, <1>7 DEF Running
    <2> HIDE DEF r
    <2> QED  BY <1>1, <1>2, <1>4, <1>7, <2>1, ProceedsToAnswer
  <1>8. CASE Running(u, "prepare") /\ Proceed(u, [[r EXCEPT !.at = "call"] EXCEPT !.got = Null])
    <2>1. request[u].at = "prepare"  BY <1>8 DEF Running
    <2> QED  BY <1>1, <1>4, <1>8, <2>1, CallsSafe
  <1>9. CASE Running(u, "call") /\ Proceed(u, Answered(r, NotFound))
    <2>1. r.op = "get"  BY <1>2, <1>3, <1>9 DEF Running
    <2> HIDE DEF r
    <2> QED  BY <1>1, <1>2, <1>4, <1>9, <2>1, ProceedsToAnswer
  <1> QED  BY <1>5, <1>6, <1>7, <1>8, <1>9 DEF QueryFails

LEMMA HandleSafe ==
  ASSUME HttpInv, NEW u \in Clients, Handle(u)
  PROVE  HttpInv'
  BY UnescapeSafe, MatchSafe, FetchSafe, PrepareSafe, CallSafe, ReadRequestSafe,
     PerformSafe, QueryFailsSafe DEF Handle

(* Every step keeps the invariant.                                         *)
LEMMA NextSafe ==
  ASSUME HttpInv, [Next]_vars
  PROVE  HttpInv'
  <1>1. ASSUME NEW u \in Clients, NEW p \in DOMAIN Decoded, Send(u, "get", p) PROVE HttpInv'
    BY <1>1, SendSafe
  <1>2. ASSUME NEW u \in Clients, Send(u, "api", AnyPath) PROVE HttpInv'
    BY <1>2, SendSafe, AnyPathTyped
  <1>3. ASSUME NEW u \in Clients, Receive(u) \/ Acquire(u) \/ Handle(u) PROVE HttpInv'
    BY <1>3, ReceiveSafe, AcquireSafe, HandleSafe
  <1>4. ASSUME NEW i \in Ids, NEW v \in Versions[i] \cup {Absent}, Edit(i, v) PROVE HttpInv'
    BY <1>4, EditSafe
  <1>5. CASE Restart
    <2>1. UNCHANGED <<catalog, request, idle>> /\ down' = FALSE  BY <1>5 DEF Restart
    <2> QED  BY <2>1 DEF HttpInv, TypeOK, PoolExact, Exact
  <1>6. CASE UNCHANGED vars
    BY <1>6 DEF vars, HttpInv, TypeOK, PoolExact, Exact
  <1> QED  BY <1>1, <1>2, <1>3, <1>4, <1>5, <1>6 DEF Next

-----------------------------------------------------------------------------
(* Every reachable state is well formed, and every request of it in order: *)
(* a page found and untouched since is served as it was when it was found. *)
THEOREM HttpInvariance == Spec => []HttpInv
  BY InitSafe, NextSafe, PTL DEF Spec

(* Handlers, the catalog and the pool keep their types.                    *)
THEOREM HttpTyping == Spec => []TypeOK
  <1>1. HttpInv => TypeOK  BY DEF HttpInv
  <1> QED  BY <1>1, HttpInvariance, PTL

(* An answer is the one the tables called for when they were searched,     *)
(* unless the row changed before it was read or a query failed.            *)
THEOREM AnswersAreExact == Spec => []AnswersExact
  <1>1. HttpInv => AnswersExact  BY DEF HttpInv, AnswersExact, Exact
  <1> QED  BY <1>1, HttpInvariance, PTL

(* No handler loses a connection, or shares one.                           *)
THEOREM PoolIsExact == Spec => []PoolExact
  <1>1. HttpInv => PoolExact  BY DEF HttpInv
  <1> QED  BY <1>1, HttpInvariance, PTL

-----------------------------------------------------------------------------
(* How the steps move the handlers.                                        *)

\* The stages that may follow a stage.
After == [handler |-> {"match", "request", "answered"},
          match |-> {"fetch", "prepare", "answered"}, fetch |-> {"answered"},
          prepare |-> {"call", "answered"}, call |-> {"answered"}, request |-> {"answered"}]

\* Handler v is where it was.
Still(v) == /\ request'[v].at = request[v].at /\ request'[v].conn = request[v].conn
            /\ request'[v].op = request[v].op

\* The handler of u goes on without a connection, all others stay.
Moves(u) ==
    /\ request[u].at \in DOMAIN After
    /\ request'[u].at \in After[request[u].at]
    /\ request'[u].conn = Nobody
    /\ request[u].conn # Nobody => idle' # {}
    /\ \A v \in Clients \ {u} : Still(v)
    /\ down' = down

LEMMA Afters ==
  /\ DOMAIN After = {"handler", "match", "fetch", "prepare", "call", "request"}
  /\ After["handler"] = {"match", "request", "answered"}
  /\ After["match"] = {"fetch", "prepare", "answered"}
  /\ After["prepare"] = {"call", "answered"}
  /\ After["fetch"] = {"answered"} /\ After["call"] = {"answered"} /\ After["request"] = {"answered"}
  /\ \A at \in DOMAIN After : "answered" \in After[at]
  BY DEF After

(* A handler that proceeds as r is where r is.                             *)
LEMMA ProceedMoves ==
  ASSUME HttpInv, NEW u \in Clients, NEW r \in Request, Proceed(u, r),
         request[u].at \in DOMAIN After, r.at \in After[request[u].at]
  PROVE  Moves(u)
  <1>1. /\ request'[u] = [r EXCEPT !.conn = Nobody]
        /\ \A v \in Clients \ {u} : request'[v] = request[v]
        /\ request[u].conn # Nobody => idle' # {}
        /\ down' = down
    BY DEF Proceed, HttpInv, TypeOK
  <1>2. request'[u].at = r.at /\ request'[u].conn = Nobody
    BY <1>1 DEF Request
  <1> QED  BY <1>1, <1>2 DEF Moves, Still

(* So is one that answers.                                                 *)
LEMMA AnswerMoves ==
  ASSUME HttpInv, NEW u \in Clients, NEW r \in Request, NEW a \in Answer,
         Proceed(u, Answered(r, a)), request[u].at \in DOMAIN After
  PROVE  Moves(u)
  <1>1. Answered(r, a).at = "answered" /\ Answered(r, a) \in Request
    BY AnsweredTyped DEF WellFormed
  <1> QED  BY <1>1, ProceedMoves, Afters

(* A change of the tables moves no other handler.                          *)
LEMMA TornStill ==
  ASSUME HttpInv, NEW rows, NEW v \in Clients
  PROVE  /\ Torn(rows)[v].at = request[v].at /\ Torn(rows)[v].conn = request[v].conn
         /\ Torn(rows)[v].op = request[v].op
  BY RequestInOrder DEF Torn, Request

(* A change by endpoint.request answers it.                                *)
LEMMA ChangeMoves ==
  ASSUME HttpInv, NEW u \in Clients, NEW r \in Request, r.at = "answered", Change(u, r),
         request[u].at = "request"
  PROVE  Moves(u)
  <1>1. PICK rows \in Catalogs :
           /\ request' = [Torn(rows) EXCEPT ![u] = [r EXCEPT !.conn = Nobody]]
           /\ idle' = idle \cup {request[u].conn} /\ down' = down
    BY DEF Change
  <1>2. request'[u] = [r EXCEPT !.conn = Nobody]
        /\ \A v \in Clients \ {u} : request'[v] = Torn(rows)[v]
    BY <1>1 DEF Torn
  <1>3. request'[u].at = "answered" /\ request'[u].conn = Nobody
    BY <1>2 DEF Request
  <1> QED  BY <1>1, <1>2, <1>3, TornStill DEF Moves, Still, After

(* A search leads to a fetch, a preparation or an answer.                  *)
LEMMA ChosenMoves ==
  ASSUME HttpInv, NEW u \in Clients, NEW r \in Request, NEW found \in SUBSET Ids,
         NEW next \in Chosen(r, found), Proceed(u, next), request[u].at = "match"
  PROVE  Moves(u)
  <1>1. CASE next \in {Answered(r, NotFound), Answered(r, Choices)}
    BY <1>1, AnswerMoves, AnswersTyped, Afters
  <1>2. CASE \E i \in found :
               next = [[r EXCEPT !.at = IF i \in Functions THEN "prepare" ELSE "fetch"] EXCEPT !.id = i]
    <2>1. next \in Request /\ next.at \in {"prepare", "fetch"}
      BY <1>2 DEF Request, Stages
    <2> QED  BY <2>1, ProceedMoves, Afters
  <1> QED  BY <1>1, <1>2 DEF Chosen

(* Every step of a handler moves it on, or ends the process.               *)
LEMMA HandleMoves ==
  ASSUME HttpInv, NEW u \in Clients, Handle(u)
  PROVE  down' = TRUE \/ Moves(u)
  <1>1. request[u] \in Request /\ request[u].got \in Contents \cup {Null}
    BY RequestInOrder DEF Request
  <1>2. CASE Unescape(u)
    <2> DEFINE p == Decoded[request[u].path]
               q == [[request[u] EXCEPT !.at = "match"] EXCEPT !.path = p]
    <2>1. CASE p = Malformed  BY <1>2, <2>1 DEF Unescape, Fatal
    <2>2. CASE p # Malformed
      <3>1. p \in Paths
        BY <1>2, <2>2, RequestInOrder, HttpAssumption DEF HttpAssumption, Unescape, WellFormed
      <3>2. q \in Request /\ q.at = "match"  BY <1>1, <3>1 DEF Request, Stages
      <3>3. Proceed(u, q) /\ request[u].at = "handler"  BY <1>2, <2>2 DEF Unescape
      <3> HIDE DEF q
      <3> QED  BY <3>2, <3>3, ProceedMoves, Afters
    <2> QED  BY <2>1, <2>2
  <1>3. CASE Match(u)
    <2> DEFINE r == [request[u] EXCEPT !.due = Due(catalog, request[u].path)]
    <2>1. r \in Request  BY <1>1, DueTyped DEF Request, HttpInv
    <2>2. PICK next \in Chosen(r, Found(catalog, request[u].path)) : Proceed(u, next)
      BY <1>3 DEF Match
    <2>3. Found(catalog, request[u].path) \in SUBSET Ids  BY DEF Found, Matches
    <2> HIDE DEF r
    <2> QED  BY <1>3, <2>1, <2>2, <2>3, ChosenMoves DEF Match, Running
  <1>4. CASE Fetch(u)
    <2> DEFINE row == catalog[request[u].id]
               a == IF row = Absent THEN Blank ELSE Ok(row.content)
    <2>1. request[u].at = "fetch" /\ request[u].id \in Ids \ Functions
      BY <1>4, RequestInOrder DEF Fetch, Running, WellFormed
    <2>2. row # Absent => row.content \in Contents
      BY <2>1, CatalogTyped, HttpAssumption DEF HttpAssumption, HttpInv
    <2>3. a \in Answer  BY <2>2, AnswersTyped
    <2>4. Proceed(u, Answered(request[u], a))  BY <1>4 DEF Fetch
    <2> HIDE DEF a
    <2> QED  BY <1>1, <2>1, <2>3, <2>4, AnswerMoves, Afters
  <1>5. CASE Prepare(u)
    <2> DEFINE row == catalog[request[u].id]
               r == [request[u] EXCEPT !.at = "call"]
    <2>1. request[u].at = "prepare" /\ request[u].id \in Functions
      BY <1>5, RequestInOrder DEF Prepare, Running, WellFormed
    <2>2. row # Absent => row \in Row
      BY <2>1, CatalogTyped, HttpAssumption DEF HttpAssumption, HttpInv, Ids
    <2>3. r \in Request /\ r.at = "call"  BY <1>1 DEF Request, Stages
    <2>4. \A g \in Contents \cup {Null} : [r EXCEPT !.got = g] \in Request /\ [r EXCEPT !.got = g].at = "call"
      BY <2>3 DEF Request
    <2> HIDE DEF r
    <2>5. CASE row = Absent \/ ~row.valid
      <3>1. Proceed(u, [r EXCEPT !.got = Null])  BY <1>5, <2>5 DEF Prepare, r
      <3> QED  BY <2>1, <2>4, <3>1, ProceedMoves, Afters
    <2>6. CASE row # Absent /\ row.valid /\ row.holes /\ (row.short \/ request[u].path \notin row.paths)
      <3>1. Proceed(u, Answered(r, Dropped))  BY <1>5, <2>6 DEF Prepare, r
      <3> QED  BY <2>1, <2>3, <3>1, AnswerMoves, AnswersTyped, Afters
    <2>7. CASE /\ row # Absent /\ row.valid
               /\ ~(row.holes /\ (row.short \/ request[u].path \notin row.paths))
      <3>1. Proceed(u, [r EXCEPT !.got = row.content])  BY <1>5, <2>7 DEF Prepare, r
      <3>2. row.content \in Contents \cup {Null}  BY <2>2, <2>7 DEF Row
      <3> QED  BY <2>1, <2>4, <3>1, <3>2, ProceedMoves, Afters
    <2> QED  BY <2>5, <2>6, <2>7
  <1>6. CASE CallFunction(u)
    BY <1>1, <1>6, AnswerMoves, AnswersTyped, Afters DEF CallFunction, Running
  <1>7. CASE ReadRequest(u)
    <2>1. [request[u] EXCEPT !.at = "request"] \in Request
          /\ [request[u] EXCEPT !.at = "request"].at = "request"
      BY <1>1 DEF Request, Stages
    <2> QED  BY <1>1, <1>7, <2>1, AnswerMoves, ProceedMoves, AnswersTyped, Afters
             DEF ReadRequest, Fatal
  <1>8. CASE Perform(u)
    <2> DEFINE r == Answered(request[u], Reply(200))
    <2>0. r \in WellFormed /\ r.at = "answered"
      BY <1>1, AnsweredTyped, AnswersTyped
    <2>1. r \in Request /\ r.at = "answered"
      BY <2>0 DEF WellFormed
    <2>2. Change(u, r) \/ \E refusal \in Refusals : Proceed(u, Answered(request[u], refusal))
      BY <1>8 DEF Perform
    <2> HIDE DEF r
    <2> QED  BY <1>1, <1>8, <2>1, <2>2, ChangeMoves, AnswerMoves, AnswersTyped, Afters
             DEF Perform, Running
  <1>10. CASE QueryFails(u)
    <2> DEFINE r == [request[u] EXCEPT !.hurt = TRUE]
               q == [[r EXCEPT !.at = "call"] EXCEPT !.got = Null]
    <2>1. r \in Request  BY <1>1 DEF Request
    <2>2. q \in Request /\ q.at = "call"  BY <2>1 DEF Request, Stages
    <2> HIDE DEF r
    <2>3. CASE Running(u, "match") /\ Proceed(u, Answered(r, Blank))
      BY <2>1, <2>3, AnswerMoves, AnswersTyped, Afters DEF Running
    <2>4. CASE Running(u, "match") /\ \E cut \in SUBSET Found(catalog, request[u].path) :
                                         \E next \in Chosen(r, cut) : Proceed(u, next)
      <3>1. PICK cut \in SUBSET Found(catalog, request[u].path) :
              \E next \in Chosen(r, cut) : Proceed(u, next)
        BY <2>4
      <3>2. cut \in SUBSET Ids  BY DEF Found, Matches
      <3> QED  BY <2>1, <2>4, <3>1, <3>2, ChosenMoves DEF Running
    <2>5. CASE \/ Running(u, "fetch") /\ Proceed(u, Answered(r, Blank))
               \/ Running(u, "call") /\ Proceed(u, Answered(r, NotFound))
      BY <2>1, <2>5, AnswerMoves, AnswersTyped, Afters DEF Running
    <2>6. CASE Running(u, "prepare") /\ Proceed(u, q)
      <3> HIDE DEF q
      <3> QED  BY <2>2, <2>6, ProceedMoves, Afters DEF Running
    <2> QED  BY <1>10, <2>3, <2>4, <2>5, <2>6 DEF QueryFails, r
  <1> QED  BY <1>2, <1>3, <1>4, <1>5, <1>6, <1>7, <1>8, <1>10 DEF Handle

-----------------------------------------------------------------------------
(* Where a request can be while the process lives.                         *)

Asks(u)      == ~down /\ request[u].op # "none" /\ request[u].at = "handler"
Waits(u, at) == ~down /\ request[u].at = at /\ request[u].conn = Nobody
Holder(u)    == ~down /\ request[u].conn # Nobody

\* It has gone on from stage at, or the process has ended.
Past(u, at) == down \/ (request[u].at \in After[at] /\ request[u].conn = Nobody)

\* A connection is left for who waits for one.
Free == down \/ idle # {}

(* A handler runs before its first query, or when it has a connection.     *)
LEMMA HandleNeeds ==
  ASSUME NEW u \in Clients, Handle(u)
  PROVE  ~down /\ (request[u].at = "handler" \/ request[u].conn # Nobody)
  BY DEF Handle, Unescape, Match, Fetch, Prepare, CallFunction, ReadRequest, Perform,
         QueryFails, Running

(* What others do leaves a handler where it is, or ends the process.       *)
LEMMA OthersStill ==
  ASSUME HttpInv, [Next]_vars, ~down, NEW u \in Clients,
         request[u].op # "none", request[u].at # "answered"
  PROVE  \/ (Still(u) /\ down' = down) \/ down' = TRUE \/ Acquire(u)
         \/ Moves(u) /\ (request[u].at = "handler" \/ request[u].conn # Nobody)
  <1>1. ASSUME NEW v \in Clients, NEW op, NEW p, Send(v, op, p)
        PROVE  Still(u) /\ down' = down
    BY <1>1 DEF Send, Still, HttpInv, TypeOK
  <1>2. ASSUME NEW v \in Clients, Receive(v)
        PROVE  Still(u) /\ down' = down
    BY <1>2 DEF Receive, Still, HttpInv, TypeOK
  <1>3. ASSUME NEW v \in Clients \ {u}, Acquire(v)
        PROVE  Still(u) /\ down' = down
    BY <1>3 DEF Acquire, Still, HttpInv, TypeOK
  <1>4. ASSUME NEW v \in Clients, Handle(v)
        PROVE  \/ (Still(u) /\ down' = down) \/ down' = TRUE
               \/ Moves(u) /\ (request[u].at = "handler" \/ request[u].conn # Nobody)
    <2>1. down' = TRUE \/ Moves(v)  BY <1>4, HandleMoves
    <2>2. v = u => request[u].at = "handler" \/ request[u].conn # Nobody  BY <1>4, HandleNeeds
    <2> QED  BY <2>1, <2>2 DEF Moves
  <1>5. ASSUME NEW i \in Ids, NEW v, Edit(i, v)
        PROVE  Still(u) /\ down' = down
    BY <1>5, TornStill DEF Edit, Still
  <1>6. CASE UNCHANGED vars  BY <1>6 DEF vars, Still
  <1> QED  BY <1>1, <1>2, <1>3, <1>4, <1>5, <1>6 DEF Next, Restart

\* A connection is held at a query only, and a query has a request.
LEMMA HoldersAtQueries ==
  ASSUME HttpInv, NEW u \in Clients
  PROVE  /\ request[u].conn # Nobody => request[u].at \in Queries
         /\ request[u].at \in Queries => request[u].op # "none"
  BY RequestInOrder DEF HttpInv, PoolExact, Queries, WellFormed

(* A handler waits until it acquires, and holds until it goes on.          *)
LEMMA StageMoves ==
  ASSUME HttpInv, [Next]_vars, NEW u \in Clients, NEW at \in Queries
  PROVE  /\ Asks(u) => Asks(u)' \/ Past(u, "handler")'
         /\ Waits(u, at) => Waits(u, at)' \/ Running(u, at)' \/ down'
         /\ Running(u, at) => Running(u, at)' \/ Past(u, at)'
         /\ Holder(u) => Holder(u)' \/ Free'
  <1>1. request[u].at \in Queries => request[u].op # "none" /\ request[u].at # "answered"
    BY HoldersAtQueries DEF Queries
  <1>2. request[u].conn # Nobody => request[u].at \in Queries  BY HoldersAtQueries
  <1>3. Acquire(u) => /\ ~down /\ request[u].at \in Queries /\ request[u].conn = Nobody
                      /\ request'[u].at = request[u].at /\ request'[u].conn # Nobody /\ ~down'
    BY HttpAssumption, RequestInOrder DEF HttpAssumption, Acquire, HttpInv, TypeOK, Request
  <1>4. "handler" \notin Queries  BY DEF Queries
  <1>5. Moves(u) => /\ request'[u].at \in After[request[u].at] /\ request'[u].conn = Nobody
                    /\ request[u].conn # Nobody => idle' # {}
    BY DEF Moves
  <1> QED
    BY <1>1, <1>2, <1>3, <1>4, <1>5, OthersStill
    DEF Asks, Waits, Running, Past, Holder, Free, Still
(* A handler that does something has gone on, and gives back what it had;  *)
(* one that acquires has a connection.                                     *)
LEMMA HandlerActs ==
  ASSUME HttpInv, NEW u \in Clients, NEW at \in Queries
  PROVE  /\ Asks(u) /\ <<Handle(u)>>_vars => Past(u, "handler")'
         /\ Running(u, at) /\ <<Handle(u)>>_vars => Past(u, at)'
         /\ Holder(u) /\ <<Handle(u)>>_vars => Free'
         /\ Waits(u, at) /\ <<Acquire(u)>>_vars => Running(u, at)'
  <1>1. Handle(u) => down' = TRUE \/ Moves(u)  BY HandleMoves
  <1>2. Acquire(u) /\ request[u].at = at =>
            request'[u].at = at /\ request'[u].conn # Nobody /\ ~down'
    BY HttpAssumption, RequestInOrder DEF HttpAssumption, Acquire, HttpInv, TypeOK, Request
  <1> QED  BY <1>1, <1>2 DEF Moves, Asks, Running, Past, Holder, Free, Waits

(* What fairness and progress give every handler.                          *)
LEMMA HandlerFair ==
  ASSUME NEW u \in Clients
  PROVE  FairSpec => WF_vars(Handle(u)) /\ SF_vars(Acquire(u))
  <1>1. FairSpec => Fairness  BY PTL DEF FairSpec
  <1>2. Fairness => FairHandler(u)  BY DEF Fairness
  <1> QED  BY <1>1, <1>2, PTL DEF FairHandler

LEMMA AlwaysInv == FairSpec => []HttpInv /\ [][Next]_vars
  BY HttpInvariance, PTL DEF FairSpec, Spec

(* Who has a connection gives it back, if queries end.                     *)
LEMMA HolderFrees ==
  ASSUME NEW u \in Clients
  PROVE  FairSpec /\ []HandlersNotStuck => [](Holder(u) => <>Free)
  <1> DEFINE at == "call"
  <1>1. at \in Queries  BY DEF Queries
  <1>2. HttpInv /\ [Next]_vars => (Holder(u) => Holder(u)' \/ Free')
    BY <1>1, StageMoves
  <1>3. HttpInv => (Holder(u) /\ <<Handle(u)>>_vars => Free')
    BY <1>1, HandlerActs
  <1>4. HandlersNotStuck => (Holder(u) => ENABLED <<Handle(u)>>_vars)
    BY DEF HandlersNotStuck, Holder
  <1> QED  BY <1>2, <1>3, <1>4, HandlerFair, AlwaysInv, PTL

(* So a pool that is not empty has an idle one again and again: none is    *)
(* lost, and who has one gives it back.                                    *)
LEMMA PoolFrees ==
  ASSUME Connections # {}
  PROVE  FairSpec /\ []HandlersNotStuck => []<>Free
  <1> DEFINE Held == \E u \in Clients : Holder(u)
             Frees == \A u \in Clients : [](Holder(u) => <>Free)
  <1>1. FairSpec /\ []HandlersNotStuck => Frees
    BY HolderFrees
  <1>2. Frees => [](\A u \in Clients : Holder(u) => <>Free)
    OBVIOUS
  <1>3. (\A u \in Clients : Holder(u) => <>Free) => (Held => <>Free)
    OBVIOUS
  <1>4. HttpInv => Free \/ Held
    BY HttpAssumption DEF HttpAssumption, HttpInv, PoolExact, Free, Holder
  <1> HIDE DEF Held, Frees
  <1>5. [](\A u \in Clients : Holder(u) => <>Free) => [](Held => <>Free)
    BY <1>3, PTL
  <1> QED  BY <1>1, <1>2, <1>4, <1>5, AlwaysInv, PTL

(* A query of a handler is made, and ends.                                 *)
LEMMA QueryEnds ==
  ASSUME Connections # {}, NEW u \in Clients, NEW at \in Queries
  PROVE  FairSpec /\ []HandlersNotStuck => [](Waits(u, at) \/ Running(u, at) => <>Past(u, at))
  <1>1. HttpInv /\ [Next]_vars => (Waits(u, at) => Waits(u, at)' \/ Running(u, at)' \/ Past(u, at)')
    BY StageMoves DEF Past
  <1>2. HttpInv /\ [Next]_vars => (Running(u, at) => Running(u, at)' \/ Past(u, at)')
    BY StageMoves
  <1>3. HttpInv => (Running(u, at) /\ <<Handle(u)>>_vars => Past(u, at)')
    BY HandlerActs
  <1>4. HttpInv => (Waits(u, at) /\ <<Acquire(u)>>_vars => Running(u, at)')
    BY HandlerActs
  <1>5. HandlersNotStuck => (Running(u, at) => ENABLED <<Handle(u)>>_vars)
    BY DEF HandlersNotStuck, Running
  <1>6. HandlersNotStuck => (Waits(u, at) /\ Free => ENABLED <<Acquire(u)>>_vars)
    BY DEF HandlersNotStuck, Waits, Free
  <1> QED
    BY <1>1, <1>2, <1>3, <1>4, <1>5, <1>6, PoolFrees, HandlerFair, AlwaysInv, PTL

(* Every request is answered, or the process ends, if a connection is left *)
(* to the handlers, which websockets may not have taken for good, if       *)
(* queries end, and if no handler is stuck.                                *)
THEOREM RequestsGetAnswers ==
  ASSUME Connections # {}
  PROVE  FairSpec /\ []HandlersNotStuck => RequestsAnswered
  <1>1. ASSUME NEW u \in Clients
        PROVE  FairSpec /\ []HandlersNotStuck =>
                 (request[u].op # "none" ~> request[u].at = "answered" \/ down)
    <2> DEFINE Done == request[u].at = "answered" \/ down
               At(at) == Waits(u, at) \/ Running(u, at)
               Ends(at) == [](At(at) => <>Past(u, at))
    <2>1. FairSpec /\ []HandlersNotStuck => [](Asks(u) => <>Past(u, "handler"))
      <3>1. "call" \in Queries  BY DEF Queries
      <3>2. HttpInv /\ [Next]_vars => (Asks(u) => Asks(u)' \/ Past(u, "handler")')
        BY <3>1, StageMoves
      <3>3. HttpInv => (Asks(u) /\ <<Handle(u)>>_vars => Past(u, "handler")')
        BY <3>1, HandlerActs
      <3>4. HandlersNotStuck => (Asks(u) => ENABLED <<Handle(u)>>_vars)
        BY DEF HandlersNotStuck, Asks
      <3> QED  BY <3>2, <3>3, <3>4, HandlerFair, AlwaysInv, PTL
    <2>2. FairSpec /\ []HandlersNotStuck =>
             Ends("match") /\ Ends("fetch") /\ Ends("prepare") /\ Ends("call") /\ Ends("request")
      <3>1. ASSUME NEW at \in Queries PROVE FairSpec /\ []HandlersNotStuck => Ends(at)
        BY QueryEnds
      <3> HIDE DEF Ends
      <3> QED  BY <3>1 DEF Queries
    <2>3. HttpInv => (request[u].op # "none" => \/ Done \/ Asks(u) \/ At("match") \/ At("fetch")
                                                \/ At("prepare") \/ At("call") \/ At("request"))
      BY RequestInOrder DEF Asks, Waits, Running, WellFormed, Request, Stages
    <2>4. Past(u, "handler") => Done \/ At("match") \/ At("request")
      BY Afters DEF Past, Waits
    <2>5. Past(u, "match") => Done \/ At("fetch") \/ At("prepare")
      BY Afters DEF Past, Waits
    <2>6. Past(u, "prepare") => Done \/ At("call")
      BY Afters DEF Past, Waits
    <2>7. Past(u, "fetch") \/ Past(u, "call") \/ Past(u, "request") => Done
      BY Afters DEF Past
    <2> HIDE DEF At, Done
    <2>8. FairSpec /\ []HandlersNotStuck => [](request[u].op # "none" => <>Done)
      BY <2>1, <2>2, <2>3, <2>4, <2>5, <2>6, <2>7, AlwaysInv, PTL
    <2> QED  BY <2>8, PTL DEF Done
  <1> QED  BY <1>1 DEF RequestsAnswered
=============================================================================
