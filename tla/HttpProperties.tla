--------------------------- MODULE HttpProperties ----------------------------
(***************************************************************************)
(* What module Http owes to the clients of the web server and to the pool. *)
(***************************************************************************)
EXTENDS Http

(* A page is found by one query, and its content fetched, or its function  *)
(* prepared and called, by up to two more (resource.go:46-113, 122-236).   *)
(* The answer is still the one that the tables called for at one moment,   *)
(* when they were searched, whatever has been changed before or after:     *)
(* unless that very row was changed in between, or a query failed.         *)
AnswersExact ==
    \A u \in Clients :
        request[u].op = "get" /\ request[u].at = "answered" =>
            request[u].answer = request[u].due \/ request[u].torn \/ request[u].hurt

(* Every connection is idle or has one handler that is at a query: none is *)
(* lost by a return, an error or a panic in the middle of a handler, and   *)
(* none is shared.                                                         *)
PoolExact ==
    /\ \A c \in Connections : c \in idle \/ \E u \in Clients : request[u].conn = c
    /\ \A u \in Clients : request[u].conn # Nobody =>
          /\ request[u].conn \notin idle
          /\ request[u].at \in Queries
          /\ \A v \in Clients : v # u => request[v].conn # request[u].conn

(* Every request is answered, or the process ends: handlers do not wait    *)
(* for connections they keep from each other (a match query's is given     *)
(* back at its last row, before the next query).                           *)
RequestsAnswered ==
    \A u \in Clients :
        request[u].op # "none" ~> request[u].at = "answered" \/ down

(* A hypothesis of the theorem about liveness, not a property of its own:  *)
(* a handler has a next step at every stage, and takes an idle connection. *)
(* It holds by the form of the actions, but it is about ENABLED, which the *)
(* provers do not know.                                                    *)
HandlersNotStuck ==
    \A u \in Clients : ~down =>
        /\ \/ request[u].op # "none" /\ request[u].at = "handler"
           \/ request[u].conn # Nobody
           => ENABLED <<Handle(u)>>_vars
        /\ request[u].at \in Queries /\ request[u].conn = Nobody /\ idle # {}
           => ENABLED <<Acquire(u)>>_vars
=============================================================================
