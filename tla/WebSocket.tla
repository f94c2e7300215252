----------------------------- MODULE WebSocket ------------------------------
(***************************************************************************)
(* The daemon's websocket side (websocket.go) between the browsers and the *)
(* event tables: one listener goroutine that owns one database connection, *)
(* the goroutines it starts to wait for notifications on it, and the       *)
(* handlers of attach and detach, which hand their session to the listener *)
(* over unbuffered channels.                                               *)
(*                                                                         *)
(* The goroutines share the variables done and cancel without a lock: a    *)
(* goroutine just started sets them itself.  Accesses to one variable are  *)
(* atomic here, accesses to two are not.  The database side is modelled by *)
(* how this code uses it: a trigger inserts an event for a session into    *)
(* event.event and notifies the session's channel in one transaction.      *)
(***************************************************************************)
EXTENDS Naturals, Sequences

CONSTANTS
    Sessions,    \* event sessions; all exist at first
    Sockets,     \* browser connections
    Waiters,     \* goroutines running start(); bounds those alive or referenced
    Nil,
    MaxEvents,   \* bound on the events ever published
    Prompt,      \* bound: whether TLC looks only at behaviours where a goroutine
                 \* has run its first two statements before the next request
    Faults       \* whether connections and statements may fail, and the daemon stop

ASSUME WebSocketAssumption ==
    /\ Nil \notin Sockets \cup Waiters \cup Sessions
    /\ MaxEvents \in Nat
    /\ Prompt \in BOOLEAN /\ Faults \in BOOLEAN

VARIABLES
    \* the database
    session,     \* table event.session
    queue,       \* table event.event
    published,   \* number of events ever inserted
    \* the listener's connection
    connected,   \* whether it is alive and the listener's
    pooled,      \* whether it is alive and was given back to the pool
    channels,    \* what it LISTENs to
    wire,        \* notifications not yet read
    notified,    \* notifications read and queued in the driver
    \* the process
    sockets,     \* map of the session's socket
    done, cancel,\* the waiter whose channel, whose cancel function they hold
    closed,      \* the waiters whose done channel is closed
    listener,    \* its program counter, request and local variables
    waiter,      \* the goroutines running start()
    attaching,   \* handlers blocked on listen <- sessionId
    detaching,   \* handlers blocked on unlisten <- sessionId
    \* the browsers
    open,        \* connected sockets
    received,    \* the events each connected one got
    \* history, which no action reads
    overtaken,   \* whether this process took a request while a goroutine had
                 \* yet to run its first two statements
    skipped      \* queued events that the last replay of their session left out

db       == <<session, queue, published>>
conn     == <<connected, pooled, channels, wire, notified>>
shared   == <<done, cancel, closed>>
requests == <<attaching, detaching>>
browser  == <<open, received>>
history  == <<overtaken, skipped>>
vars     == <<db, conn, sockets, shared, listener, waiter, requests, browser,
              history>>

Event == [id : 1..MaxEvents, session : Sessions]

ListenerPc == {"select", "cancelled", "await", "exec", "executing", "spawn",
               "query", "replay", "purge", "dead", "down"}
WaiterPc   == {"none", "new", "named", "loop", "waiting", "closing"}

TypeOK ==
    /\ session \subseteq Sessions
    /\ queue \subseteq {e \in Event : e.session \in session}    \* foreign key
    /\ published \in 0..MaxEvents
    /\ connected \in BOOLEAN /\ pooled \in BOOLEAN
    /\ channels \subseteq Sessions
    /\ wire \in Seq(Event) /\ notified \in Seq(Event)
    /\ sockets \in [Sessions -> Sockets \cup {Nil}]
    /\ done \in Waiters \cup {Nil} /\ cancel \in Waiters \cup {Nil}
    /\ closed \subseteq Waiters
    /\ listener \in [pc : ListenerPc, op : {"listen", "unlisten"},
                     session : Sessions \cup {Nil},
                     wait : Waiters \cup {Nil}, rows : SUBSET Event]
    /\ listener.session = Nil => listener.pc \in {"select", "dead", "down"}
    /\ waiter \in [Waiters -> [pc : WaiterPc, cancelled : BOOLEAN]]
    /\ done = Nil => \A w \in Waiters : waiter[w].pc \in {"none", "new"}
    /\ attaching \subseteq [socket : Sockets, session : Sessions]
    /\ detaching \subseteq Sessions
    /\ open \subseteq Sockets
    /\ received \in [Sockets -> SUBSET Event]
    /\ overtaken \in BOOLEAN
    /\ skipped \subseteq Event

NoWaiter == [pc |-> "none", cancelled |-> FALSE]
Idle(pc) == [pc |-> pc, op |-> "listen", session |-> Nil, wait |-> Nil, rows |-> {}]

Init ==
    /\ session = Sessions /\ queue = {} /\ published = 0
    /\ \E pc \in {"select", "dead"} :      \* "dead": pool.Acquire failed
          listener = Idle(pc) /\ connected = (pc = "select")
    /\ pooled = FALSE /\ channels = {} /\ wire = <<>> /\ notified = <<>>
    /\ sockets = [s \in Sessions |-> Nil]
    /\ done = Nil /\ cancel = Nil /\ closed = {}
    /\ waiter = [w \in Waiters |-> NoWaiter]
    /\ attaching = {} /\ detaching = {}
    /\ open = {} /\ received = [k \in Sockets |-> {}]
    /\ overtaken = FALSE /\ skipped = {}

-----------------------------------------------------------------------------
Up == listener.pc # "down"

\* A goroutine is inside a call that uses the connection.
Waiting == \E w \in Waiters : waiter[w].pc = "waiting"
Busy    == Waiting \/ listener.pc = "executing"

EventsOf(s) == {e \in queue : e.session = s}

\* The connection is closed: calls that wait on it return an error.
CloseConnection ==
    /\ connected' = FALSE /\ pooled' = FALSE /\ channels' = {} /\ wire' = <<>>
    /\ UNCHANGED notified
    /\ waiter' = [w \in Waiters |->
          IF waiter[w].pc = "waiting" THEN [waiter[w] EXCEPT !.pc = "closing"] ELSE waiter[w]]

\* It goes back to the pool, alive and still listening.
GiveBack == connected' = FALSE /\ pooled' = TRUE

\* sendEvent on the session's socket; on a closed one it is lost.
Send(e) ==
    /\ sockets[e.session] # Nil
    /\ received' = IF sockets[e.session] \in open
                   THEN [received EXCEPT ![sockets[e.session]] = @ \cup {e}]
                   ELSE received
    /\ UNCHANGED open

\* A panic in a goroutine ends the process; nothing of it is left.
Crash ==
    /\ listener' = Idle("down")
    /\ connected' = FALSE /\ pooled' = FALSE
    /\ channels' = {} /\ wire' = <<>> /\ notified' = <<>>
    /\ sockets' = [s \in Sessions |-> Nil]
    /\ done' = Nil /\ cancel' = Nil /\ closed' = {}
    /\ waiter' = [w \in Waiters |-> NoWaiter]
    /\ attaching' = {} /\ detaching' = {}
    /\ open' = {} /\ received' = [k \in Sockets |-> {}]
    /\ overtaken' = FALSE /\ skipped' = {}
    /\ UNCHANGED db

\* The operator stops the daemon, at any time.
Stop == Faults /\ Up /\ Crash

Restart ==
    /\ listener.pc = "down"
    /\ \E pc \in {"select", "dead"} :
          listener' = Idle(pc) /\ connected' = (pc = "select")
    /\ UNCHANGED <<db, pooled, channels, wire, notified, sockets, shared, waiter, requests,
                   browser, history>>

-----------------------------------------------------------------------------
(* Browsers and other clients of the database.                             *)

\* A new connection: nothing in the process refers to it yet.
Connect(k) ==
    /\ Up
    /\ k \notin open
    /\ \A s \in Sessions : sockets[s] # k
    /\ \A a \in attaching : a.socket # k
    /\ open' = open \cup {k}
    /\ UNCHANGED <<db, conn, sockets, shared, listener, waiter, requests, received, history>>

\* OnDisconnect and OnError only log.
Disconnect(k) ==
    /\ k \in open
    /\ open' = open \ {k}
    /\ received' = [received EXCEPT ![k] = {}]
    /\ UNCHANGED <<db, conn, sockets, shared, listener, waiter, requests, history>>

\* Broken variant of Attach: a session that has a socket is not listened to again.
AttachKnown(k, s) ==
    /\ k \in open
    /\ \A a \in attaching : a.socket # k
    /\ sockets' = [sockets EXCEPT ![s] = k]
    /\ attaching' = IF sockets[s] = Nil
                    THEN attaching \cup {[socket |-> k, session |-> s]} ELSE attaching
    /\ UNCHANGED <<db, conn, shared, listener, waiter, detaching, browser, history>>

\* The handler of "attach"; a socket's handlers run one at a time.
Attach(k, s) ==
    /\ k \in open
    /\ \A a \in attaching : a.socket # k
    /\ sockets' = [sockets EXCEPT ![s] = k]
    /\ attaching' = attaching \cup {[socket |-> k, session |-> s]}
    /\ UNCHANGED <<db, conn, shared, listener, waiter, detaching, browser, history>>

\* websocketDetach; a session is detached by one request at a time.
Detach(s) ==
    /\ Up
    /\ s \notin detaching
    /\ sockets' = [sockets EXCEPT ![s] = Nil]
    /\ detaching' = detaching \cup {s}
    /\ UNCHANGED <<db, conn, shared, listener, waiter, attaching, browser, history>>

\* event.event_listener_*: insert and pg_notify in the writer's transaction.
Publish(s) ==
    LET e == [id |-> published + 1, session |-> s]
    IN  /\ s \in session
        /\ published < MaxEvents
        /\ published' = published + 1
        /\ queue' = queue \cup {e}
        /\ wire' = IF s \in channels THEN Append(wire, e) ELSE wire
        /\ UNCHANGED <<session, connected, pooled, channels, notified, sockets, shared,
                       listener, waiter, requests, browser, history>>

\* The client deletes an event upon receipt.
Acknowledge(k, e) ==
    /\ k \in open
    /\ e \in received[k] \cap queue
    /\ queue' = queue \ {e}
    /\ UNCHANGED <<session, published, conn, sockets, shared, listener, waiter,
                   requests, browser, history>>

\* Broken variant of DeleteSession: no cascade to event.event.
DeleteSessionKeepsEvents(s) == session' = session \ {s} /\ UNCHANGED <<queue, published>>

\* event.session_delete: the session's events go with it.
DeleteSession(s) ==
    /\ session' = session \ {s}
    /\ queue' = queue \ EventsOf(s)
    /\ UNCHANGED published

SessionDelete(s) ==
    /\ s \in session
    /\ DeleteSession(s)
    /\ UNCHANGED <<conn, sockets, shared, listener, waiter, requests, browser, history>>

\* The server, the network or the pool drops the connection.
ConnectionLost ==
    /\ Faults /\ (connected \/ pooled)
    /\ CloseConnection
    /\ UNCHANGED <<db, sockets, shared, listener, requests, browser, history>>

-----------------------------------------------------------------------------
(* The listener goroutine: select, stop the waiter, use the connection,    *)
(* start a new waiter, answer the request.                                 *)

\* A goroutine just started, which has not set both done and cancel yet.
Starting == \E w \in Waiters : waiter[w].pc \in {"new", "named"}

MayReceive ==
    /\ listener.pc = "select"
    /\ Prompt => ~Starting

\* A request received: cancel() the waiter if cancel is set.
Receive(op, s) ==
    /\ overtaken' = (overtaken \/ Starting)
    /\ UNCHANGED skipped
    /\ IF cancel = Nil
       THEN /\ listener' = [listener EXCEPT !.pc = "exec", !.op = op, !.session = s]
            /\ UNCHANGED waiter
       ELSE /\ listener' = [listener EXCEPT !.pc = "cancelled", !.op = op, !.session = s]
            /\ waiter' = [waiter EXCEPT ![cancel].cancelled = TRUE]

ReceiveListen(a) ==
    /\ MayReceive
    /\ a \in attaching
    /\ attaching' = attaching \ {a}
    /\ Receive("listen", a.session)
    /\ UNCHANGED <<db, conn, sockets, shared, detaching, browser>>

ReceiveUnlisten(s) ==
    /\ MayReceive
    /\ s \in detaching
    /\ detaching' = detaching \ {s}
    /\ Receive("unlisten", s)
    /\ UNCHANGED <<db, conn, sockets, shared, attaching, browser>>

\* Broken variant of ClearCancel: does not wait for the waiter to stop.
ClearCancelNoWait ==
    /\ listener.pc = "cancelled"
    /\ cancel' = Nil
    /\ listener' = [listener EXCEPT !.pc = "exec"]
    /\ UNCHANGED <<db, conn, sockets, done, closed, waiter, requests, browser, history>>

\* cancel = nil, and the channel that <-done will wait on is read.
ClearCancel ==
    /\ listener.pc = "cancelled"
    /\ cancel' = Nil
    /\ listener' = [listener EXCEPT !.pc = "await", !.wait = done]
    /\ UNCHANGED <<db, conn, sockets, done, closed, waiter, requests, browser, history>>

AwaitDone ==
    /\ listener.pc = "await"
    /\ listener.wait \in closed
    /\ listener' = [listener EXCEPT !.pc = "exec", !.wait = Nil]
    /\ UNCHANGED <<db, conn, sockets, shared, waiter, requests, browser, history>>

\* cn.Exec takes the connection.
Exec ==
    /\ listener.pc = "exec"
    /\ connected /\ ~Waiting
    /\ listener' = [listener EXCEPT !.pc = "executing"]
    /\ UNCHANGED <<db, conn, sockets, shared, waiter, requests, browser, history>>

\* Broken variant of Executed: notifications that arrive with the reply are dropped.
ExecutedDrops ==
    /\ listener.pc = "executing" /\ connected
    /\ channels' = IF listener.op = "listen" THEN channels \cup {listener.session}
                                             ELSE channels \ {listener.session}
    /\ wire' = <<>>
    /\ listener' = [listener EXCEPT !.pc = "spawn"]
    /\ UNCHANGED <<db, connected, pooled, notified, sockets, shared, waiter, requests,
                   browser, history>>

\* The server's reply; the driver queues the notifications that came before it.
Reply ==
    /\ listener.pc = "executing" /\ connected
    /\ notified' = notified \o wire /\ wire' = <<>>

\* LISTEN or UNLISTEN succeeds.
Executed ==
    /\ Reply
    /\ channels' = IF listener.op = "listen" THEN channels \cup {listener.session}
                                             ELSE channels \ {listener.session}
    /\ listener' = [listener EXCEPT !.pc = "spawn"]
    /\ UNCHANGED <<db, connected, pooled, sockets, shared, waiter, requests, browser,
                   history>>

(* The server refuses the statement, of an empty session id for example: a *)
(* refused LISTEN ends the goroutine, and its deferred Release gives the   *)
(* connection back to the pool as it is; a refused UNLISTEN is logged.     *)
ListenRefused ==
    /\ Faults /\ Reply /\ listener.op = "listen"
    /\ listener' = [listener EXCEPT !.pc = "dead"]
    /\ GiveBack
    /\ UNCHANGED <<db, channels, sockets, shared, waiter, requests, browser, history>>

UnlistenRefused ==
    /\ Faults /\ Reply /\ listener.op = "unlisten"
    /\ listener' = [listener EXCEPT !.pc = "spawn"]
    /\ UNCHANGED <<db, connected, pooled, channels, sockets, shared, waiter, requests,
                   browser, history>>

\* The connection is in use by another goroutine ("conn busy"), or gone.
ExecFails == \/ listener.pc = "exec" /\ (Waiting \/ ~connected)
             \/ listener.pc = "executing" /\ ~connected

\* The goroutine returns; Release destroys a connection that is still in use then.
ListenFails ==
    /\ ExecFails /\ listener.op = "listen"
    /\ listener' = [listener EXCEPT !.pc = "dead"]
    /\ \/ CloseConnection
       \/ connected /\ GiveBack /\ UNCHANGED <<channels, wire, notified, waiter>>
    /\ UNCHANGED <<db, sockets, shared, requests, browser, history>>

UnlistenFails ==
    /\ ExecFails /\ listener.op = "unlisten"
    /\ listener' = [listener EXCEPT !.pc = "spawn"]
    /\ UNCHANGED <<db, conn, sockets, shared, waiter, requests, browser, history>>

\* A waiter that nothing refers to any more stands for a fresh one.
Fresh(w) == /\ waiter[w].pc = "none"
            /\ w \notin {done, cancel, listener.wait}

\* go start(cn.Conn())
Spawn(w) ==
    /\ listener.pc = "spawn"
    /\ Fresh(w)
    /\ waiter' = [waiter EXCEPT ![w] = [pc |-> "new", cancelled |-> FALSE]]
    /\ closed' = closed \ {w}
    /\ listener' = [listener EXCEPT !.pc = IF listener.op = "listen" THEN "query" ELSE "purge"]
    /\ UNCHANGED <<db, conn, sockets, done, cancel, requests, browser, history>>

\* Broken variant of Query: nothing is replayed.
QueryNothing ==
    /\ listener.pc = "query"
    /\ listener' = [listener EXCEPT !.pc = "replay"]
    /\ UNCHANGED <<db, conn, sockets, shared, waiter, requests, browser, history>>

(* select event from event.event where session_id=..., on a connection of  *)
(* the pool: an error of the query or of a row is printed, and one in the  *)
(* middle of the rows is not looked at; the rows there are are sent.       *)
Query ==
    /\ listener.pc = "query"
    /\ \E rows \in SUBSET EventsOf(listener.session) :
          /\ Faults \/ rows = EventsOf(listener.session)
          /\ listener' = [listener EXCEPT !.pc = "replay", !.rows = rows]
          /\ skipped' = {e \in skipped : e.session # listener.session}
                          \cup (EventsOf(listener.session) \ rows)
    /\ UNCHANGED <<db, conn, sockets, shared, waiter, requests, browser, overtaken>>

Replay ==
    /\ listener.pc = "replay"
    /\ \E e \in listener.rows :
          /\ Send(e)
          /\ listener' = [listener EXCEPT !.rows = @ \ {e}]
    /\ UNCHANGED <<db, conn, sockets, shared, waiter, requests, history>>

ReplayEnds ==
    /\ listener.pc = "replay" /\ listener.rows = {}
    /\ listener' = Idle("select")
    /\ UNCHANGED <<db, conn, sockets, shared, waiter, requests, browser, history>>

\* The session was detached meanwhile: its socket is nil.
ReplayCrashes ==
    /\ listener.pc = "replay"
    /\ \E e \in listener.rows : sockets[e.session] = Nil
    /\ Crash

\* Broken variant of Purge: the session stays.
PurgeKeeps ==
    /\ listener.pc = "purge"
    /\ listener' = Idle("select")
    /\ UNCHANGED <<db, conn, sockets, shared, waiter, requests, browser, history>>

(* delete from event.session, on a connection of the pool: an error is     *)
(* logged.  The listener's session, else Nil at its select, names it.      *)
Purge ==
    /\ listener.pc = "purge"
    /\ \/ DeleteSession(listener.session) /\ listener' = Idle("select")
       \/ /\ Faults /\ UNCHANGED db
          /\ listener' = [Idle("select") EXCEPT !.session = listener.session]
    /\ UNCHANGED <<conn, sockets, shared, waiter, requests, browser, history>>

-----------------------------------------------------------------------------
(* A goroutine running start().                                            *)

Goto(w, pc) == waiter' = [waiter EXCEPT ![w].pc = pc]

AssignDone(w) ==
    /\ waiter[w].pc = "new"
    /\ done' = w
    /\ Goto(w, "named")
    /\ UNCHANGED <<db, conn, sockets, cancel, closed, listener, requests, browser, history>>

AssignCancel(w) ==
    /\ waiter[w].pc = "named"
    /\ cancel' = w
    /\ Goto(w, "loop")
    /\ UNCHANGED <<db, conn, sockets, done, closed, listener, requests, browser, history>>

\* WaitForNotification: a queued one first, then the connection, if it is free.
TakeNotified(w) ==
    /\ waiter[w].pc = "loop"
    /\ notified # <<>>
    /\ Send(Head(notified))
    /\ notified' = Tail(notified)
    /\ UNCHANGED <<db, connected, pooled, channels, wire, sockets, shared, listener, waiter,
                   requests, history>>

\* A connection given back may be in use by whoever took it from the pool.
Wait(w) ==
    /\ waiter[w].pc = "loop"
    /\ notified = <<>>
    /\ IF Busy \/ ~(connected \/ pooled) \/ waiter[w].cancelled
       THEN Goto(w, "closing")
       ELSE Goto(w, "waiting") \/ (pooled /\ Goto(w, "closing"))
    /\ UNCHANGED <<db, conn, sockets, shared, listener, requests, browser, history>>

TakeWire(w) ==
    /\ waiter[w].pc = "waiting"
    /\ wire # <<>>
    /\ Send(Head(wire))
    /\ wire' = Tail(wire)
    /\ Goto(w, "loop")
    /\ UNCHANGED <<db, connected, pooled, channels, notified, sockets, shared, listener,
                   requests, history>>

\* Broken variant of Cancelled: only a notification ends the wait.
CancelledLate(w) ==
    /\ waiter[w].pc = "waiting"
    /\ waiter[w].cancelled /\ wire # <<>>
    /\ Goto(w, "closing")
    /\ UNCHANGED <<db, conn, sockets, shared, listener, requests, browser, history>>

Cancelled(w) ==
    /\ waiter[w].pc = "waiting"
    /\ waiter[w].cancelled
    /\ Goto(w, "closing")
    /\ UNCHANGED <<db, conn, sockets, shared, listener, requests, browser, history>>

\* The session was detached meanwhile: its socket is nil.
TakeCrashes(w) ==
    /\ \/ /\ waiter[w].pc = "loop" /\ notified # <<>>
          /\ sockets[Head(notified).session] = Nil
       \/ /\ waiter[w].pc = "waiting" /\ wire # <<>>
          /\ sockets[Head(wire).session] = Nil
    /\ Crash

\* Broken variant of CloseDone: the goroutine ends without closing done.
CloseDoneMissing(w) ==
    /\ waiter[w].pc = "closing"
    /\ done \notin closed
    /\ waiter' = [waiter EXCEPT ![w] = NoWaiter]
    /\ UNCHANGED <<db, conn, sockets, shared, listener, requests, browser, history>>

\* close(done), whatever channel done holds by now.
CloseDone(w) ==
    /\ waiter[w].pc = "closing"
    /\ done \notin closed
    /\ closed' = closed \cup {done}
    /\ waiter' = [waiter EXCEPT ![w] = NoWaiter]
    /\ UNCHANGED <<db, conn, sockets, done, cancel, listener, requests, browser, history>>

\* Closing a closed channel panics.
CloseCrashes(w) ==
    /\ waiter[w].pc = "closing"
    /\ done \in closed
    /\ Crash

-----------------------------------------------------------------------------
Clients ==
    \/ \E k \in Sockets : Connect(k) \/ Disconnect(k)
    \/ \E k \in Sockets, s \in Sessions : Attach(k, s)
    \/ \E k \in Sockets, e \in queue : Acknowledge(k, e)
    \/ \E s \in Sessions : Detach(s) \/ Publish(s) \/ SessionDelete(s)

Receives == \/ \E a \in attaching : ReceiveListen(a)
            \/ \E s \in detaching : ReceiveUnlisten(s)

\* What the listener does of its own once it has a request.
Listener ==
    \/ ClearCancel \/ AwaitDone
    \/ Exec \/ Executed \/ ListenRefused \/ UnlistenRefused \/ ListenFails \/ UnlistenFails
    \/ \E w \in Waiters : Spawn(w)
    \/ Query \/ Replay \/ ReplayEnds \/ ReplayCrashes
    \/ Purge

Waiter(w) ==
    \/ AssignDone(w) \/ AssignCancel(w)
    \/ TakeNotified(w) \/ Wait(w) \/ TakeWire(w) \/ Cancelled(w) \/ TakeCrashes(w)
    \/ CloseDone(w) \/ CloseCrashes(w)

Next == \/ Clients \/ Receives \/ Listener \/ (\E w \in Waiters : Waiter(w))
        \/ ConnectionLost \/ Stop \/ Restart

Spec == Init /\ [][Next]_vars

(* Goroutines that can run do.  A channel queues its senders and select     *)
(* picks among ready cases at random, so a blocked handler's request is     *)
(* received if the listener comes back to select for ever.                  *)
FairListener    == WF_vars(Listener)
FairWaiter(w)   == WF_vars(Waiter(w))
FairListen(a)   == SF_vars(ReceiveListen(a))
FairUnlisten(s) == SF_vars(ReceiveUnlisten(s))

Fairness ==
    /\ FairListener
    /\ \A w \in Waiters : FairWaiter(w)
    /\ \A a \in [socket : Sockets, session : Sessions] : FairListen(a)
    /\ \A s \in Sessions : FairUnlisten(s)

FairSpec == Spec /\ Fairness
=============================================================================
