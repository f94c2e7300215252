--------------------------- MODULE WebSocketProofs ---------------------------
(***************************************************************************)
(* Theorems about module WebSocket, for any sessions, sockets, goroutines  *)
(* and number of events.                                                   *)
(***************************************************************************)
EXTENDS WebSocketProperties, TLAPS

USE WebSocketAssumption DEF history

(* What the two operators that rewrite most of the state establish.        *)

LEMMA IdleTyped ==
    ASSUME NEW pc \in {"select", "dead", "down"}
    PROVE  Idle(pc) \in [pc : ListenerPc, op : {"listen", "unlisten"},
                         session : Sessions \cup {Nil},
                         wait : Waiters \cup {Nil}, rows : SUBSET Event]
BY DEF Idle, ListenerPc

LEMMA NoWaiterTyped == NoWaiter \in [pc : WaiterPc, cancelled : BOOLEAN]
BY DEF NoWaiter, WaiterPc

LEMMA CrashTyped == ASSUME TypeOK, Crash PROVE TypeOK'
<1>1. listener' = Idle("down") /\ Idle("down").pc = "down"
  BY DEF Crash, Idle
<1>2. wire' \in Seq(Event) /\ notified' \in Seq(Event)
  BY DEF Crash
<1>3. waiter' \in [Waiters -> [pc : WaiterPc, cancelled : BOOLEAN]]
  BY NoWaiterTyped DEF Crash
<1>4. listener' \in [pc : ListenerPc, op : {"listen", "unlisten"},
                     session : Sessions \cup {Nil},
                     wait : Waiters \cup {Nil}, rows : SUBSET Event]
  BY <1>1, IdleTyped
<1>5. \A w \in Waiters : waiter'[w].pc = "none"
  BY DEF Crash, NoWaiter
<1> QED
  BY <1>1, <1>2, <1>3, <1>4, <1>5 DEF TypeOK, Crash, db

LEMMA CloseConnectionTyped ==
    ASSUME TypeOK, CloseConnection
    PROVE  /\ connected' = FALSE /\ pooled' = FALSE /\ channels' = {}
           /\ wire' \in Seq(Event) /\ notified' \in Seq(Event)
           /\ waiter' \in [Waiters -> [pc : WaiterPc, cancelled : BOOLEAN]]
           /\ \A w \in Waiters : waiter'[w].pc =
                IF waiter[w].pc = "waiting" THEN "closing" ELSE waiter[w].pc
<1>1. ASSUME NEW w \in Waiters
      PROVE  /\ waiter[w] \in [pc : WaiterPc, cancelled : BOOLEAN]
             /\ [waiter[w] EXCEPT !.pc = "closing"] \in [pc : WaiterPc, cancelled : BOOLEAN]
  <2>1. waiter[w] \in [pc : WaiterPc, cancelled : BOOLEAN]
    BY DEF TypeOK
  <2> QED
    BY <2>1 DEF WaiterPc
<1>2. waiter' \in [Waiters -> [pc : WaiterPc, cancelled : BOOLEAN]]
  BY <1>1 DEF CloseConnection
<1>3. ASSUME NEW w \in Waiters
      PROVE  waiter'[w].pc = IF waiter[w].pc = "waiting" THEN "closing" ELSE waiter[w].pc
  BY <1>1 DEF CloseConnection
<1> QED
  BY <1>2, <1>3 DEF TypeOK, CloseConnection

LEMMA SendTyped ==
    ASSUME TypeOK, NEW e \in Event, Send(e)
    PROVE  open' = open /\ received' \in [Sockets -> SUBSET Event]
BY DEF TypeOK, Send

LEMMA DeleteSessionTyped ==
    ASSUME TypeOK, NEW s, DeleteSession(s)
    PROVE  /\ session' \subseteq Sessions
           /\ queue' \subseteq {e \in Event : e.session \in session'}
           /\ queue' \subseteq queue
           /\ published' \in 0..MaxEvents
BY DEF TypeOK, DeleteSession, EventsOf, Event

\* Steps of browsers and of other clients of the database are type correct.
LEMMA ClientsTyped == ASSUME TypeOK, Clients PROVE TypeOK'
<1>1. ASSUME NEW k \in Sockets, Connect(k) PROVE TypeOK'
  BY <1>1 DEF TypeOK, Connect, db, conn, shared, requests
<1>2. ASSUME NEW k \in Sockets, Disconnect(k) PROVE TypeOK'
  BY <1>2 DEF TypeOK, Disconnect, db, conn, shared, requests
<1>3. ASSUME NEW k \in Sockets, NEW s \in Sessions, Attach(k, s) PROVE TypeOK'
  BY <1>3 DEF TypeOK, Attach, db, conn, shared, browser
<1>4. ASSUME NEW k \in Sockets, NEW e \in queue, Acknowledge(k, e) PROVE TypeOK'
  BY <1>4 DEF TypeOK, Acknowledge, conn, shared, requests, browser
<1>5. ASSUME NEW s \in Sessions, Detach(s) PROVE TypeOK'
  BY <1>5 DEF TypeOK, Detach, db, conn, shared, browser
<1>6. ASSUME NEW s \in Sessions, Publish(s) PROVE TypeOK'
  <2> DEFINE e == [id |-> published + 1, session |-> s]
  <2>1. e \in Event
    BY <1>6 DEF Publish, TypeOK, Event
  <2>2. wire' \in Seq(Event)
    BY <1>6, <2>1 DEF Publish, TypeOK
  <2>3. queue' \subseteq {x \in Event : x.session \in session'}
    BY <1>6, <2>1 DEF Publish, TypeOK
  <2>4. published' \in 0..MaxEvents
    BY <1>6 DEF Publish, TypeOK
  <2> QED
    BY <1>6, <2>2, <2>3, <2>4 DEF Publish, TypeOK, shared, requests, browser
<1>7. ASSUME NEW s \in Sessions, SessionDelete(s) PROVE TypeOK'
  BY <1>7, DeleteSessionTyped
  DEF TypeOK, SessionDelete, conn, shared, requests, browser
<1> QED
  BY <1>1, <1>2, <1>3, <1>4, <1>5, <1>6, <1>7 DEF Clients

\* Receiving a request is type correct.
LEMMA ReceivesTyped == ASSUME TypeOK, Receives PROVE TypeOK'
<1>1. ASSUME NEW s \in Sessions, NEW op \in {"listen", "unlisten"}, Receive(op, s)
      PROVE  /\ listener' \in [pc : ListenerPc, op : {"listen", "unlisten"},
                     session : Sessions \cup {Nil},
                     wait : Waiters \cup {Nil}, rows : SUBSET Event]
             /\ overtaken' \in BOOLEAN /\ skipped' = skipped
             /\ listener'.session # Nil
             /\ waiter' \in [Waiters -> [pc : WaiterPc, cancelled : BOOLEAN]]
             /\ \A w \in Waiters : waiter'[w].pc = waiter[w].pc
  <2>1. CASE cancel = Nil
    BY <1>1, <2>1 DEF Receive, TypeOK, ListenerPc
  <2>2. CASE cancel # Nil
    <3>1. cancel \in Waiters
      BY <2>2 DEF TypeOK
    <3>2. /\ listener' = [listener EXCEPT !.pc = "cancelled", !.op = op, !.session = s]
          /\ waiter' = [waiter EXCEPT ![cancel].cancelled = TRUE]
      BY <1>1, <2>2 DEF Receive
    <3>3. waiter' \in [Waiters -> [pc : WaiterPc, cancelled : BOOLEAN]]
      BY <3>1, <3>2 DEF TypeOK
    <3>4. \A w \in Waiters : waiter'[w].pc = waiter[w].pc
      BY <3>1, <3>2 DEF TypeOK
    <3>5. overtaken' \in BOOLEAN /\ skipped' = skipped
      BY <1>1 DEF Receive, TypeOK, Starting
    <3> QED
      BY <3>2, <3>3, <3>4, <3>5 DEF TypeOK, ListenerPc
  <2> QED
    BY <2>1, <2>2
<1>2. ASSUME NEW a \in attaching, ReceiveListen(a) PROVE TypeOK'
  <2>1. a.session \in Sessions
    BY DEF TypeOK
  <2> QED
    BY <1>1, <1>2, <2>1 DEF TypeOK, ReceiveListen, db, conn, shared, browser
<1>3. ASSUME NEW s \in detaching, ReceiveUnlisten(s) PROVE TypeOK'
  BY <1>1, <1>3 DEF TypeOK, ReceiveUnlisten, db, conn, shared, browser
<1> QED
  BY <1>2, <1>3 DEF Receives

\* The listener's own steps are type correct.
LEMMA ListenerTyped == ASSUME TypeOK, Listener PROVE TypeOK'
<1>1. ASSUME ClearCancel PROVE TypeOK'
  BY <1>1 DEF TypeOK, ClearCancel, db, conn, requests, browser, ListenerPc
<1>2. ASSUME AwaitDone PROVE TypeOK'
  BY <1>2 DEF TypeOK, AwaitDone, db, conn, shared, requests, browser, ListenerPc
<1>3. ASSUME Exec PROVE TypeOK'
  BY <1>3 DEF TypeOK, Exec, db, conn, shared, requests, browser, ListenerPc
<1>4. ASSUME Executed PROVE TypeOK'
  <2>1. listener.session \in Sessions
    BY <1>4 DEF Executed, Reply, TypeOK
  <2>2. channels' \subseteq Sessions
    BY <1>4, <2>1 DEF Executed, TypeOK
  <2>3. notified' \in Seq(Event) /\ wire' \in Seq(Event)
    BY <1>4 DEF Executed, Reply, TypeOK
  <2>4. listener.session # Nil
    BY <1>4 DEF Executed, Reply, TypeOK
  <2> QED
    BY <1>4, <2>2, <2>3, <2>4 DEF TypeOK, Executed, db, shared, requests, browser, ListenerPc
<1>13. ASSUME ListenRefused \/ UnlistenRefused PROVE TypeOK'
  <2>0. Reply
    BY <1>13 DEF ListenRefused, UnlistenRefused
  <2>1. notified' \in Seq(Event) /\ wire' \in Seq(Event)
    BY <2>0 DEF Reply, TypeOK
  <2>2. connected' \in BOOLEAN /\ pooled' \in BOOLEAN
    BY <1>13 DEF ListenRefused, UnlistenRefused, GiveBack, TypeOK
  <2>3. listener.session # Nil
    BY <2>0 DEF Reply, TypeOK
  <2>4. channels' = channels
    BY <1>13 DEF ListenRefused, UnlistenRefused
  <2> QED
    BY <1>13, <2>1, <2>2, <2>3, <2>4
    DEF TypeOK, ListenRefused, UnlistenRefused, db, shared, requests, browser, ListenerPc
<1>5. ASSUME ListenFails PROVE TypeOK'
  <2>1. CASE CloseConnection
    BY <1>5, <2>1, CloseConnectionTyped
    DEF TypeOK, ListenFails, db, shared, requests, browser, ListenerPc
  <2>2. CASE GiveBack /\ UNCHANGED <<channels, wire, notified, waiter>>
    <3>1. connected' \in BOOLEAN /\ pooled' \in BOOLEAN
      BY <2>2 DEF GiveBack
    <3> QED
      BY <1>5, <2>2, <3>1 DEF TypeOK, ListenFails, db, shared, requests, browser, ListenerPc
  <2> QED
    BY <1>5, <2>1, <2>2 DEF ListenFails
<1>6. ASSUME UnlistenFails PROVE TypeOK'
  <2>1. listener.session # Nil
    BY <1>6 DEF UnlistenFails, ExecFails, TypeOK
  <2> QED
    BY <1>6, <2>1 DEF TypeOK, UnlistenFails, db, conn, shared, requests, browser, ListenerPc
<1>7. ASSUME NEW w \in Waiters, Spawn(w) PROVE TypeOK'
  <2>1. waiter' \in [Waiters -> [pc : WaiterPc, cancelled : BOOLEAN]]
    BY <1>7 DEF TypeOK, Spawn, WaiterPc
  <2> QED
    BY <1>7, <2>1 DEF TypeOK, Spawn, db, conn, requests, browser, ListenerPc
<1>8. ASSUME Query PROVE TypeOK'
  <2>1. PICK rows \in SUBSET EventsOf(listener.session) :
          /\ listener' = [listener EXCEPT !.pc = "replay", !.rows = rows]
          /\ skipped' = {e \in skipped : e.session # listener.session}
                          \cup (EventsOf(listener.session) \ rows)
    BY <1>8 DEF Query
  <2>2. rows \subseteq Event /\ skipped' \subseteq Event
    BY <2>1 DEF TypeOK, EventsOf
  <2>3. listener.session # Nil
    BY <1>8 DEF Query, TypeOK
  <2> QED
    BY <1>8, <2>1, <2>2, <2>3 DEF TypeOK, Query, db, conn, shared, requests, browser, ListenerPc
<1>9. ASSUME Replay PROVE TypeOK'
  <2>1. PICK e \in listener.rows : Send(e) /\ listener' = [listener EXCEPT !.rows = @ \ {e}]
    BY <1>9 DEF Replay
  <2>2. e \in Event
    BY DEF TypeOK
  <2> QED
    BY <1>9, <2>1, <2>2, SendTyped DEF TypeOK, Replay, db, conn, shared, requests
<1>10. ASSUME ReplayEnds PROVE TypeOK'
  BY <1>10, IdleTyped DEF TypeOK, ReplayEnds, Idle, db, conn, shared, requests, browser
<1>11. ASSUME ReplayCrashes PROVE TypeOK'
  BY <1>11, CrashTyped DEF ReplayCrashes
<1>12. ASSUME Purge PROVE TypeOK'
  <2>1. /\ session' \subseteq Sessions
        /\ queue' \subseteq {e \in Event : e.session \in session'}
        /\ published' \in 0..MaxEvents
    BY <1>12, DeleteSessionTyped DEF Purge, TypeOK, db
  <2>2. /\ listener' \in [pc : ListenerPc, op : {"listen", "unlisten"},
                          session : Sessions \cup {Nil},
                          wait : Waiters \cup {Nil}, rows : SUBSET Event]
        /\ listener'.pc = "select"
    BY <1>12 DEF Purge, Idle, ListenerPc, TypeOK
  <2> QED
    BY <1>12, <2>1, <2>2 DEF TypeOK, Purge, conn, shared, requests, browser
<1> QED
  BY <1>1, <1>2, <1>3, <1>4, <1>5, <1>6, <1>7, <1>8, <1>9, <1>10, <1>11, <1>12,
     <1>13 DEF Listener

\* A goroutine's steps are type correct.
LEMMA WaiterTyped == ASSUME TypeOK, NEW w \in Waiters, Waiter(w) PROVE TypeOK'
<1>1. ASSUME NEW pc \in WaiterPc, Goto(w, pc)
      PROVE  waiter' \in [Waiters -> [pc : WaiterPc, cancelled : BOOLEAN]]
  BY <1>1 DEF Goto, TypeOK
<1>2. {"named", "loop", "waiting", "closing"} \subseteq WaiterPc
  BY DEF WaiterPc
<1>3. CASE AssignDone(w)
  BY <1>1, <1>2, <1>3 DEF TypeOK, AssignDone, db, conn, requests, browser
<1>4. CASE AssignCancel(w)
  BY <1>1, <1>2, <1>4 DEF TypeOK, AssignCancel, db, conn, requests, browser
<1>5. CASE TakeNotified(w)
  <2>1. Head(notified) \in Event /\ Tail(notified) \in Seq(Event)
    BY <1>5 DEF TypeOK, TakeNotified
  <2> QED
    BY <1>5, <2>1, SendTyped DEF TypeOK, TakeNotified, db, shared, requests
<1>6. CASE Wait(w)
  BY <1>1, <1>2, <1>6 DEF TypeOK, Wait, db, conn, shared, requests, browser
<1>7. CASE TakeWire(w)
  <2>1. Head(wire) \in Event /\ Tail(wire) \in Seq(Event)
    BY <1>7 DEF TypeOK, TakeWire
  <2> QED
    BY <1>1, <1>2, <1>7, <2>1, SendTyped DEF TypeOK, TakeWire, db, shared, requests
<1>8. CASE Cancelled(w)
  BY <1>1, <1>2, <1>8 DEF TypeOK, Cancelled, db, conn, shared, requests, browser
<1>9. CASE TakeCrashes(w)
  BY <1>9, CrashTyped DEF TakeCrashes
<1>10. CASE CloseDone(w)
  BY <1>10, NoWaiterTyped DEF TypeOK, CloseDone, db, conn, requests, browser
<1>11. CASE CloseCrashes(w)
  BY <1>11, CrashTyped DEF CloseCrashes
<1> QED
  BY <1>3, <1>4, <1>5, <1>6, <1>7, <1>8, <1>9, <1>10, <1>11 DEF Waiter

\* What is left: the initial states, restarts, a lost connection.
LEMMA InitTyped == Init => TypeOK
<1> SUFFICES ASSUME Init PROVE TypeOK
  OBVIOUS
<1>1. listener \in [pc : ListenerPc, op : {"listen", "unlisten"},
                    session : Sessions \cup {Nil},
                    wait : Waiters \cup {Nil}, rows : SUBSET Event]
  BY IdleTyped DEF Init
<1>2. listener.pc \in {"select", "dead"} /\ connected \in BOOLEAN
  BY DEF Init, Idle
<1>3. wire \in Seq(Event) /\ notified \in Seq(Event)
  BY DEF Init
<1>4. /\ \A w \in Waiters : waiter[w].pc = "none"
      /\ waiter \in [Waiters -> [pc : WaiterPc, cancelled : BOOLEAN]]
  BY NoWaiterTyped DEF Init, NoWaiter
<1>5. pooled \in BOOLEAN /\ overtaken \in BOOLEAN /\ skipped = {}
  BY DEF Init
<1>6. /\ session = Sessions /\ queue = {} /\ published \in 0..MaxEvents
      /\ channels = {} /\ closed = {} /\ attaching = {} /\ detaching = {} /\ open = {}
      /\ sockets \in [Sessions -> Sockets \cup {Nil}]
      /\ done = Nil /\ cancel = Nil /\ received \in [Sockets -> SUBSET Event]
  BY DEF Init
<1> QED
  BY <1>1, <1>2, <1>3, <1>4, <1>5, <1>6 DEF TypeOK

LEMMA RestartTyped == ASSUME TypeOK, Restart PROVE TypeOK'
<1>1. listener' \in [pc : ListenerPc, op : {"listen", "unlisten"},
                    session : Sessions \cup {Nil},
                    wait : Waiters \cup {Nil}, rows : SUBSET Event]
  BY IdleTyped DEF Restart
<1>2. listener'.pc \in {"select", "dead"} /\ connected' \in BOOLEAN
  BY DEF Restart, Idle
<1> QED
  BY <1>1, <1>2 DEF TypeOK, Restart, db, shared, requests, browser

LEMMA ConnectionLostTyped == ASSUME TypeOK, ConnectionLost PROVE TypeOK'
BY CloseConnectionTyped DEF TypeOK, ConnectionLost, db, shared, requests, browser

LEMMA StepTyped == TypeOK /\ [Next]_vars => TypeOK'
<1> SUFFICES ASSUME TypeOK, [Next]_vars PROVE TypeOK'
  OBVIOUS
<1>1. CASE Stop
  BY <1>1, CrashTyped DEF Stop
<1>2. CASE UNCHANGED vars
  BY <1>2 DEF TypeOK, vars, db, conn, shared, requests, browser
<1> QED
  BY <1>1, <1>2, ClientsTyped, ReceivesTyped, ListenerTyped, WaiterTyped,
     ConnectionLostTyped, RestartTyped DEF Next

(* Every reachable state of the daemon and its environment is well typed:  *)
(* events only of existing sessions, no goroutine past its first statement *)
(* while done is nil, no request without its session.                      *)
THEOREM WebSocketTyping == Spec => []TypeOK
<1>1. Init => TypeOK
  BY InitTyped
<1>2. TypeOK /\ [Next]_vars => TypeOK'
  BY StepTyped
<1> QED
  BY <1>1, <1>2, PTL DEF Spec

-----------------------------------------------------------------------------
(* No event is lost.                                                       *)

LEMMA InFlightAppend ==
    ASSUME NEW q \in Seq(Event), NEW e \in Event
    PROVE  InFlight(q) \cup {e} \subseteq InFlight(Append(q, e))
<1>1. /\ Len(Append(q, e)) = Len(q) + 1
      /\ \A i \in 1..Len(q) : Append(q, e)[i] = q[i]
      /\ Append(q, e)[Len(q) + 1] = e
      /\ DOMAIN q = 1..Len(q) /\ DOMAIN Append(q, e) = 1..Len(Append(q, e))
      /\ Len(q) \in Nat
  OBVIOUS
<1>2. \A i \in 1..Len(q) : i \in 1..(Len(q) + 1)
  BY <1>1
<1>3. Len(q) + 1 \in 1..(Len(q) + 1)
  BY <1>1
<1> QED
  BY <1>1, <1>2, <1>3, Zenon DEF InFlight

LEMMA InFlightConcat ==
    ASSUME NEW p \in Seq(Event), NEW q \in Seq(Event)
    PROVE  InFlight(p) \cup InFlight(q) \subseteq InFlight(p \o q)
<1>1. ASSUME NEW i \in DOMAIN p PROVE p[i] \in InFlight(p \o q)
  <2>1. i \in DOMAIN (p \o q) /\ (p \o q)[i] = p[i]
    OBVIOUS
  <2> QED
    BY <2>1, Zenon DEF InFlight
<1>2. ASSUME NEW i \in DOMAIN q PROVE q[i] \in InFlight(p \o q)
  <2>1. Len(p) + i \in DOMAIN (p \o q) /\ (p \o q)[Len(p) + i] = q[i]
    OBVIOUS
  <2> QED
    BY <2>1, Zenon DEF InFlight
<1> QED
  BY <1>1, <1>2, Zenon DEF InFlight

LEMMA InFlightTail ==
    ASSUME NEW q \in Seq(Event), q # <<>>
    PROVE  InFlight(q) \subseteq {Head(q)} \cup InFlight(Tail(q))
<1> SUFFICES ASSUME NEW i \in DOMAIN q, q[i] # Head(q) PROVE q[i] \in InFlight(Tail(q))
  BY Zenon DEF InFlight
<1>1. i - 1 \in DOMAIN Tail(q) /\ Tail(q)[i - 1] = q[i]
  OBVIOUS
<1> QED
  BY <1>1, Zenon DEF InFlight

(* A step keeps NoEventLost if every event left that is watched after it   *)
(* was watched before, and one accounted for stays so.                     *)
LEMMA Kept ==
    ASSUME NoEventLost, queue' \subseteq queue, UNCHANGED skipped,
           \A e \in queue' : Watched(e)' => Watched(e) /\ (Accounted(e) => Accounted(e)')
    PROVE  NoEventLost'
BY DEF NoEventLost

\* What the listener or a goroutine does without touching any of them.
LEMMA Untouched ==
    ASSUME NoEventLost,
           UNCHANGED <<db, conn, sockets, browser, skipped>>, UNCHANGED listener.rows,
           \A s \in Sessions : AttachPending(s) => AttachPending(s)',
           TypeOK
    PROVE  NoEventLost'
<1>1. \A e \in queue : e.session \in Sessions
  BY DEF TypeOK, Event
<1> QED
  BY <1>1 DEF NoEventLost, Watched, Accounted, InFlight, db, conn, browser

LEMMA LostKeeps ==
    ASSUME connected' = FALSE PROVE NoEventLost'
BY DEF NoEventLost, Watched

\* Browsers and other clients lose no event.
LEMMA ClientsKeep == ASSUME TypeOK, NoEventLost, Clients PROVE NoEventLost'
<1> USE DEF Watched, Accounted
<1>1. ASSUME NEW k \in Sockets, Connect(k) PROVE NoEventLost'
  <2>1. \A e \in queue : e.session \in Sessions
    BY DEF TypeOK, Event
  <2>2. \A e \in queue' : Watched(e)' => Watched(e)
    BY <1>1, <2>1 DEF Connect, db, conn
  <2>3. \A e \in queue' : Accounted(e) => Accounted(e)'
    BY <1>1 DEF Connect, db, conn, requests, AttachPending, InFlight
  <2> QED
    BY <1>1, <2>2, <2>3, Kept DEF Connect, db
<1>2. ASSUME NEW k \in Sockets, Disconnect(k) PROVE NoEventLost'
  <2>1. \A e \in queue' : Watched(e)' => Watched(e) /\ sockets[e.session] # k
    BY <1>2 DEF Disconnect, db, conn
  <2>2. \A e \in queue' : sockets[e.session] # k /\ sockets[e.session] \in Sockets
                          => received'[sockets[e.session]] = received[sockets[e.session]]
    BY <1>2 DEF Disconnect, TypeOK
  <2>3. \A e \in queue' : Watched(e) => sockets[e.session] \in Sockets
    BY DEF TypeOK
  <2>4. \A e \in queue' : Watched(e)' => (Accounted(e) => Accounted(e)')
    BY <1>2, <2>1, <2>2, <2>3 DEF Disconnect, db, conn, requests, AttachPending, InFlight
  <2> QED
    BY <1>2, <2>1, <2>4, Kept DEF Disconnect, db
<1>3. ASSUME NEW k \in Sockets, NEW s \in Sessions, Attach(k, s) PROVE NoEventLost'
  <2> SUFFICES ASSUME NEW e \in queue', Watched(e)', e \notin skipped' PROVE Accounted(e)'
    BY DEF NoEventLost
  <2>1. CASE e.session = s
    <3>1. [socket |-> k, session |-> s] \in attaching'
      BY <1>3 DEF Attach
    <3> QED
      BY <2>1, <3>1 DEF AttachPending
  <2>2. CASE e.session # s
    <3>1. sockets'[e.session] = sockets[e.session] /\ attaching \subseteq attaching'
      BY <1>3, <2>2 DEF Attach, TypeOK, db, Event
    <3>2. Accounted(e)
      BY <1>3, <3>1 DEF Attach, NoEventLost, db, conn, browser
    <3> QED
      BY <1>3, <3>1, <3>2 DEF Attach, AttachPending, InFlight, db, conn, browser
  <2> QED
    BY <2>1, <2>2
<1>4. ASSUME NEW k \in Sockets, NEW x \in queue, Acknowledge(k, x) PROVE NoEventLost'
  BY <1>4, Kept DEF Acknowledge, conn, browser, requests, InFlight, AttachPending
<1>5. ASSUME NEW s \in Sessions, Detach(s) PROVE NoEventLost'
  <2> SUFFICES ASSUME NEW e \in queue', Watched(e)', e \notin skipped' PROVE Accounted(e)'
    BY DEF NoEventLost
  <2>1. e.session # s
    BY <1>5 DEF Detach, TypeOK, browser
  <2>2. sockets'[e.session] = sockets[e.session]
    BY <1>5, <2>1 DEF Detach, TypeOK, db, Event
  <2>3. Accounted(e)
    BY <1>5, <2>2 DEF Detach, NoEventLost, db, conn, browser
  <2> QED
    BY <1>5, <2>2, <2>3 DEF Detach, AttachPending, InFlight, db, conn, browser
<1>6. ASSUME NEW s \in Sessions, Publish(s) PROVE NoEventLost'
  <2> DEFINE n == [id |-> published + 1, session |-> s]
  <2> SUFFICES ASSUME NEW e \in queue', Watched(e)', e \notin skipped' PROVE Accounted(e)'
    BY DEF NoEventLost
  <2>1. n \in Event /\ wire \in Seq(Event)
    BY <1>6 DEF Publish, TypeOK, Event
  <2>2. wire' = IF s \in channels THEN Append(wire, n) ELSE wire
    BY <1>6 DEF Publish
  <2>3. CASE e \in queue
    <3>1. Accounted(e)
      BY <1>6, <2>3 DEF Publish, NoEventLost, browser
    <3>2. InFlight(wire) \subseteq InFlight(wire)'
      BY <2>1, <2>2, InFlightAppend DEF InFlight
    <3> QED
      BY <1>6, <3>1, <3>2 DEF Publish, AttachPending, InFlight, browser, requests
  <2>4. CASE e = n
    <3>1. wire' = Append(wire, n)
      BY <1>6, <2>2, <2>4 DEF Publish
    <3>2. n \in InFlight(wire)'
      BY <2>1, <3>1, InFlightAppend DEF InFlight
    <3> QED
      BY <2>4, <3>2
  <2> QED
    BY <1>6, <2>3, <2>4 DEF Publish
<1>7. ASSUME NEW s \in Sessions, SessionDelete(s) PROVE NoEventLost'
  BY <1>7, Kept, DeleteSessionTyped
  DEF SessionDelete, conn, browser, requests, InFlight, AttachPending
<1> QED
  BY <1>1, <1>2, <1>3, <1>4, <1>5, <1>6, <1>7 DEF Clients

\* Nor does receiving a request: it is pending until its events are queried.
LEMMA ReceivesKeep == ASSUME TypeOK, DeliveryInv, Receives PROVE NoEventLost'
<1>1. ASSUME NEW s \in Sessions, NEW op \in {"listen", "unlisten"},
             listener.pc = "select", Receive(op, s)
      PROVE  /\ listener'.pc \in {"cancelled", "exec"} /\ listener'.op = op
             /\ listener'.session = s /\ listener'.rows = listener.rows
             /\ skipped' = skipped
  BY <1>1 DEF Receive, TypeOK
<1>2. ASSUME NEW a \in attaching, ReceiveListen(a) PROVE NoEventLost'
  <2>1. a.session \in Sessions
    BY DEF TypeOK
  <2>2. /\ listener'.pc \in {"cancelled", "exec"} /\ listener'.op = "listen"
        /\ listener'.session = a.session /\ listener'.rows = listener.rows
        /\ skipped' = skipped
    BY <1>1, <1>2, <2>1 DEF ReceiveListen, MayReceive
  <2>3. \A s \in Sessions : AttachPending(s) => AttachPending(s)'
    BY <1>2, <2>2 DEF ReceiveListen, MayReceive, AttachPending
  <2> QED
    BY <1>2, <2>2, <2>3, Untouched DEF ReceiveListen, DeliveryInv
<1>3. ASSUME NEW s \in detaching, ReceiveUnlisten(s) PROVE NoEventLost'
  <2>1. s \in Sessions
    BY DEF TypeOK
  <2>2. listener'.rows = listener.rows /\ skipped' = skipped
    BY <1>1, <1>3, <2>1 DEF ReceiveUnlisten, MayReceive
  <2>3. \A x \in Sessions : AttachPending(x) => AttachPending(x)'
    BY <1>3 DEF ReceiveUnlisten, MayReceive, AttachPending
  <2> QED
    BY <1>3, <2>2, <2>3, Untouched DEF ReceiveUnlisten, DeliveryInv
<1> QED
  BY <1>2, <1>3 DEF Receives

\* An event sent to the socket of its session is accounted for, if it is watched.
LEMMA SendKeeps ==
    ASSUME TypeOK, NEW x \in Event, Send(x), sockets' = sockets
    PROVE  \A e \in Event :
              /\ e \in received[sockets[e.session]] /\ sockets[e.session] \in open
                    => e \in received'[sockets[e.session]]
              /\ e = x /\ sockets[e.session] \in open => e \in received'[sockets[e.session]]
BY DEF Send, TypeOK

\* The listener loses no event.
LEMMA ListenerKeeps == ASSUME TypeOK, DeliveryInv, Listener PROVE NoEventLost'
<1> USE DEF Watched, Accounted
<1>1. CASE ClearCancel
  BY <1>1, Untouched DEF ClearCancel, DeliveryInv, AttachPending, requests, TypeOK
<1>2. CASE AwaitDone
  BY <1>2, Untouched DEF AwaitDone, DeliveryInv, AttachPending, requests, TypeOK
<1>3. CASE Exec
  BY <1>3, Untouched DEF Exec, DeliveryInv, AttachPending, requests, TypeOK
<1>4. CASE Executed \/ UnlistenRefused
  <2> SUFFICES ASSUME NEW e \in queue', Watched(e)', e \notin skipped' PROVE Accounted(e)'
    BY DEF NoEventLost
  <2>1. /\ listener'.pc = "spawn" /\ listener'.op = listener.op
        /\ listener'.session = listener.session /\ listener'.rows = listener.rows
    BY <1>4 DEF Executed, UnlistenRefused, TypeOK
  <2>2. CASE e.session = listener.session /\ listener.op = "listen"
    BY <2>1, <2>2 DEF AttachPending
  <2>3. CASE ~(e.session = listener.session /\ listener.op = "listen")
    <3>1. Accounted(e)
      BY <1>4, <2>3 DEF Executed, UnlistenRefused, Reply, DeliveryInv, NoEventLost, db, browser
    <3>2. InFlight(wire) \cup InFlight(notified) \subseteq InFlight(notified)'
      <4>1. notified' = notified \o wire /\ notified \in Seq(Event) /\ wire \in Seq(Event)
        BY <1>4 DEF Executed, UnlistenRefused, Reply, TypeOK
      <4>2. InFlight(notified)' = InFlight(notified \o wire)
        BY <4>1 DEF InFlight
      <4> QED
        BY <4>1, <4>2, InFlightConcat
    <3>3. AttachPending(e.session) => AttachPending(e.session)'
      BY <1>4, <2>1 DEF Executed, UnlistenRefused, Reply, AttachPending, requests
    <3>4. /\ received' = received /\ sockets' = sockets
          /\ InFlight(wire) \cup InFlight(notified) \cup listener.rows
               \subseteq InFlight(wire)' \cup InFlight(notified)' \cup listener'.rows
      BY <1>4, <2>1, <3>2 DEF Executed, UnlistenRefused, browser
    <3> QED
      BY <3>1, <3>3, <3>4
  <2> QED
    BY <2>2, <2>3
<1>5. CASE ListenFails
  BY <1>5, LostKeeps DEF ListenFails, CloseConnection, GiveBack
<1>13. CASE ListenRefused
  BY <1>13, LostKeeps DEF ListenRefused, GiveBack
<1>6. CASE UnlistenFails
  BY <1>6, Untouched DEF UnlistenFails, DeliveryInv, AttachPending, requests, TypeOK
<1>7. ASSUME NEW w \in Waiters, Spawn(w) PROVE NoEventLost'
  BY <1>7, Untouched DEF Spawn, DeliveryInv, AttachPending, requests, TypeOK
<1>8. CASE Query
  <2>1. PICK rows \in SUBSET EventsOf(listener.session) :
          /\ listener' = [listener EXCEPT !.pc = "replay", !.rows = rows]
          /\ skipped' = {e \in skipped : e.session # listener.session}
                          \cup (EventsOf(listener.session) \ rows)
    BY <1>8 DEF Query
  <2> SUFFICES ASSUME NEW e \in queue', Watched(e)', e \notin skipped' PROVE Accounted(e)'
    BY DEF NoEventLost
  <2>2. listener'.rows = rows /\ listener.rows = {} /\ e \in queue
    BY <1>8, <2>1 DEF Query, DeliveryInv, RowsInReplay, TypeOK, db
  <2>3. CASE e.session = listener.session
    BY <2>1, <2>2, <2>3 DEF EventsOf
  <2>4. CASE e.session # listener.session
    <3>1. e \notin skipped
      BY <2>1, <2>4
    <3>2. Accounted(e)
      BY <1>8, <2>2, <3>1 DEF Query, DeliveryInv, NoEventLost, conn, browser
    <3>3. AttachPending(e.session) => AttachPending(e.session)'
      BY <1>8, <2>4 DEF Query, AttachPending, requests
    <3> QED
      BY <1>8, <2>2, <3>2, <3>3 DEF Query, InFlight, conn, browser
  <2> QED
    BY <2>3, <2>4
<1>9. CASE Replay
  <2>1. PICK x \in listener.rows : Send(x) /\ listener' = [listener EXCEPT !.rows = @ \ {x}]
    BY <1>9 DEF Replay
  <2>2. x \in Event /\ listener'.rows = listener.rows \ {x}
    BY <2>1 DEF TypeOK
  <2>3. open' = open /\ sockets' = sockets
    BY <1>9, <2>1 DEF Replay, Send
  <2> SUFFICES ASSUME NEW e \in queue', Watched(e)', e \notin skipped' PROVE Accounted(e)'
    BY DEF NoEventLost
  <2>4. e \in Event /\ Accounted(e) /\ sockets[e.session] \in open
    BY <1>9, <2>3 DEF Replay, DeliveryInv, NoEventLost, db, conn, TypeOK
  <2>5. AttachPending(e.session) => AttachPending(e.session)'
    BY <1>9 DEF Replay, AttachPending, requests
  <2> QED
    BY <1>9, <2>1, <2>2, <2>3, <2>4, <2>5, SendKeeps DEF Replay, InFlight, conn
<1>10. CASE ReplayEnds
  BY <1>10, Untouched DEF ReplayEnds, Idle, DeliveryInv, AttachPending, requests
<1>11. CASE ReplayCrashes
  BY <1>11, LostKeeps DEF ReplayCrashes, Crash
<1>12. CASE Purge
  <2>1. queue' \subseteq queue
    BY <1>12, DeleteSessionTyped DEF Purge, db
  <2>2. listener.rows = {} /\ listener'.rows = {}
    BY <1>12 DEF Purge, Idle, DeliveryInv, RowsInReplay
  <2>3. \A e \in queue : AttachPending(e.session) => AttachPending(e.session)'
    BY <1>12 DEF Purge, AttachPending, requests
  <2> QED
    BY <1>12, <2>1, <2>2, <2>3, Kept DEF Purge, DeliveryInv, conn, browser, InFlight
<1> QED
  BY <1>1, <1>2, <1>3, <1>4, <1>5, <1>6, <1>7, <1>8, <1>9, <1>10, <1>11, <1>12,
     <1>13 DEF Listener

\* A goroutine loses no event: what it takes, it sends.
LEMMA WaiterKeeps ==
    ASSUME TypeOK, DeliveryInv, NEW w \in Waiters, Waiter(w) PROVE NoEventLost'
<1> USE DEF Watched, Accounted
<1>1. CASE AssignDone(w)
  BY <1>1, Untouched DEF AssignDone, DeliveryInv, AttachPending, requests
<1>2. CASE AssignCancel(w)
  BY <1>2, Untouched DEF AssignCancel, DeliveryInv, AttachPending, requests
<1>3. CASE TakeNotified(w) \/ TakeWire(w)
  <2>1. PICK x \in Event :
          /\ Send(x) /\ UNCHANGED <<db, sockets, connected, channels, listener, requests, skipped>>
          /\ InFlight(wire) \cup InFlight(notified)
               \subseteq {x} \cup InFlight(wire)' \cup InFlight(notified)'
    <3>1. CASE TakeNotified(w)
      <4>1. notified \in Seq(Event) /\ notified # <<>> /\ notified' = Tail(notified)
        BY <3>1 DEF TakeNotified, TypeOK
      <4>2. Head(notified) \in Event
        BY <4>1
      <4>3. wire' = wire /\ Send(Head(notified))
        BY <3>1 DEF TakeNotified
      <4>4. InFlight(notified)' = InFlight(Tail(notified)) /\ InFlight(wire)' = InFlight(wire)
        BY <4>1, <4>3 DEF InFlight
      <4>5. InFlight(notified) \subseteq {Head(notified)} \cup InFlight(Tail(notified))
        BY <4>1, InFlightTail
      <4> QED
        BY <3>1, <4>2, <4>3, <4>4, <4>5 DEF TakeNotified
    <3>2. CASE TakeWire(w)
      <4>1. wire \in Seq(Event) /\ wire # <<>> /\ wire' = Tail(wire)
        BY <3>2 DEF TakeWire, TypeOK
      <4>2. Head(wire) \in Event
        BY <4>1
      <4>3. notified' = notified /\ Send(Head(wire))
        BY <3>2 DEF TakeWire
      <4>4. InFlight(wire)' = InFlight(Tail(wire)) /\ InFlight(notified)' = InFlight(notified)
        BY <4>1, <4>3 DEF InFlight
      <4>5. InFlight(wire) \subseteq {Head(wire)} \cup InFlight(Tail(wire))
        BY <4>1, InFlightTail
      <4> QED
        BY <3>2, <4>2, <4>3, <4>4, <4>5 DEF TakeWire
    <3> QED
      BY <1>3, <3>1, <3>2
  <2>2. open' = open
    BY <2>1 DEF Send
  <2> SUFFICES ASSUME NEW e \in queue', Watched(e)', e \notin skipped' PROVE Accounted(e)'
    BY DEF NoEventLost
  <2>3. e \in Event /\ Accounted(e) /\ sockets[e.session] \in open
    BY <2>1, <2>2 DEF DeliveryInv, NoEventLost, db, TypeOK
  <2>4. AttachPending(e.session) => AttachPending(e.session)'
    BY <2>1 DEF AttachPending, requests
  <2> QED
    BY <2>1, <2>3, <2>4, SendKeeps
<1>4. CASE Wait(w)
  BY <1>4, Untouched DEF Wait, DeliveryInv, AttachPending, requests
<1>5. CASE Cancelled(w)
  BY <1>5, Untouched DEF Cancelled, DeliveryInv, AttachPending, requests
<1>6. CASE TakeCrashes(w)
  BY <1>6, LostKeeps DEF TakeCrashes, Crash
<1>7. CASE CloseDone(w)
  BY <1>7, Untouched DEF CloseDone, DeliveryInv, AttachPending, requests
<1>8. CASE CloseCrashes(w)
  BY <1>8, LostKeeps DEF CloseCrashes, Crash
<1> QED
  BY <1>1, <1>2, <1>3, <1>4, <1>5, <1>6, <1>7, <1>8 DEF Waiter

\* The two conjuncts of DeliveryInv that NoEventLost rests on.
LEMMA ClientsLeave ==
    ASSUME Clients PROVE UNCHANGED <<listener, connected, pooled, channels>>
<1>1. ASSUME NEW k \in Sockets, Connect(k) \/ Disconnect(k)
      PROVE  UNCHANGED <<listener, connected, pooled, channels>>
  BY <1>1 DEF Connect, Disconnect, conn
<1>2. ASSUME NEW k \in Sockets, NEW s \in Sessions, Attach(k, s)
      PROVE  UNCHANGED <<listener, connected, pooled, channels>>
  BY <1>2 DEF Attach, conn
<1>3. ASSUME NEW k \in Sockets, NEW e \in queue, Acknowledge(k, e)
      PROVE  UNCHANGED <<listener, connected, pooled, channels>>
  BY <1>3 DEF Acknowledge, conn
<1>4. ASSUME NEW s \in Sessions, Detach(s) \/ Publish(s) \/ SessionDelete(s)
      PROVE  UNCHANGED <<listener, connected, pooled, channels>>
  BY <1>4 DEF Detach, Publish, SessionDelete, conn
<1> QED
  BY <1>1, <1>2, <1>3, <1>4 DEF Clients

LEMMA ReceivesLeave ==
    ASSUME TypeOK, Receives
    PROVE  /\ UNCHANGED <<connected, pooled, channels, listener.rows>>
           /\ listener.pc = "select" /\ listener'.pc \in {"exec", "cancelled"}
<1>1. ASSUME NEW s, NEW op, Receive(op, s)
      PROVE  listener'.rows = listener.rows /\ listener'.pc \in {"exec", "cancelled"}
  BY <1>1 DEF Receive, TypeOK
<1>2. ASSUME NEW a \in attaching, ReceiveListen(a)
      PROVE  /\ listener.pc = "select" /\ Receive("listen", a.session)
             /\ UNCHANGED <<connected, pooled, channels>>
  BY <1>2 DEF ReceiveListen, MayReceive, conn
<1>3. ASSUME NEW s \in detaching, ReceiveUnlisten(s)
      PROVE  /\ listener.pc = "select" /\ Receive("unlisten", s)
             /\ UNCHANGED <<connected, pooled, channels>>
  BY <1>3 DEF ReceiveUnlisten, MayReceive, conn
<1> QED
  BY <1>1, <1>2, <1>3 DEF Receives

LEMMA CrashLeaves ==
    ASSUME Crash
    PROVE  /\ listener'.pc = "down" /\ listener'.rows = {}
           /\ connected' = FALSE /\ pooled' = FALSE /\ channels' = {}
BY DEF Crash, Idle

LEMMA WaiterLeaves ==
    ASSUME NEW w \in Waiters, Waiter(w)
    PROVE  UNCHANGED <<listener, connected, pooled, channels>> \/ Crash
BY DEF Waiter, AssignDone, AssignCancel, TakeNotified, Wait, TakeWire, Cancelled,
       TakeCrashes, CloseDone, CloseCrashes, conn

LEMMA RestartLeaves ==
    ASSUME Restart
    PROVE  /\ listener.pc = "down" /\ channels' = channels /\ pooled' = pooled
           /\ listener'.rows = {}
           /\ listener'.pc \in {"select", "dead"}
           /\ listener'.pc = "dead" => ~connected'
<1>1. PICK pc \in {"select", "dead"} : listener' = Idle(pc) /\ connected' = (pc = "select")
  BY DEF Restart
<1>2. listener'.pc = pc /\ listener'.rows = {}
  BY <1>1 DEF Idle
<1> QED
  BY <1>1, <1>2 DEF Restart

LEMMA RowsKept == ASSUME TypeOK, RowsInReplay, [Next]_vars PROVE RowsInReplay'
<1> USE DEF RowsInReplay
<1>1. CASE Clients \/ ConnectionLost \/ UNCHANGED vars
  BY <1>1, ClientsLeave DEF ConnectionLost, vars
<1>2. CASE Receives
  BY <1>2, ReceivesLeave
<1>3. CASE Listener
  <2>1. listener.pc = "replay" \/ listener.rows = {}
    OBVIOUS
  <2>2. CASE ClearCancel \/ AwaitDone \/ Exec \/ Executed \/ ListenRefused \/ UnlistenRefused
    BY <2>1, <2>2 DEF ClearCancel, AwaitDone, Exec, Executed, ListenRefused, UnlistenRefused,
                      Reply, TypeOK
  <2>3. CASE ListenFails \/ UnlistenFails
    BY <2>1, <2>3 DEF ListenFails, UnlistenFails, ExecFails, TypeOK
  <2>4. ASSUME NEW w \in Waiters, Spawn(w) PROVE RowsInReplay'
    BY <2>1, <2>4 DEF Spawn, TypeOK
  <2>5. CASE Query \/ Replay
    BY <2>5 DEF Query, Replay, TypeOK
  <2>6. CASE ReplayEnds \/ Purge
    BY <2>6 DEF ReplayEnds, Purge, Idle
  <2>7. CASE ReplayCrashes
    BY <2>7, CrashLeaves DEF ReplayCrashes
  <2> QED
    BY <1>3, <2>2, <2>3, <2>4, <2>5, <2>6, <2>7 DEF Listener
<1>4. ASSUME NEW w \in Waiters, Waiter(w) PROVE RowsInReplay'
  BY <1>4, WaiterLeaves, CrashLeaves
<1>5. CASE Stop \/ Restart
  BY <1>5, CrashLeaves, RestartLeaves DEF Stop
<1> QED
  BY <1>1, <1>2, <1>3, <1>4, <1>5 DEF Next

LEMMA SilenceKept == ASSUME TypeOK, LostIsSilent, [Next]_vars PROVE LostIsSilent'
<1> USE DEF LostIsSilent
<1>1. CASE Clients \/ UNCHANGED vars
  BY <1>1, ClientsLeave DEF vars, conn
<1>2. CASE ConnectionLost
  BY <1>2 DEF ConnectionLost, CloseConnection
<1>3. CASE Receives
  BY <1>3, ReceivesLeave
<1>8. ASSUME listener'.pc \notin {"dead", "down"}, UNCHANGED <<connected, pooled, channels>>
      PROVE  LostIsSilent'
  BY <1>8
<1>4. CASE Listener
  <2>1. CASE ClearCancel \/ AwaitDone \/ Exec \/ UnlistenFails \/ Query \/ Replay
    <3>1. listener'.pc \notin {"dead", "down"}
      BY <2>1 DEF ClearCancel, AwaitDone, Exec, UnlistenFails, Query, Replay, TypeOK
    <3>2. UNCHANGED <<connected, pooled, channels>>
      BY <2>1 DEF ClearCancel, AwaitDone, Exec, UnlistenFails, Query, Replay, conn
    <3> QED
      BY <1>8, <3>1, <3>2
  <2>2. CASE Executed \/ UnlistenRefused
    BY <2>2 DEF Executed, UnlistenRefused, Reply, TypeOK
  <2>3. CASE ListenFails \/ ListenRefused
    BY <2>3 DEF ListenFails, ListenRefused, CloseConnection, GiveBack, TypeOK
  <2>5. ASSUME NEW w \in Waiters, Spawn(w) PROVE LostIsSilent'
    BY <1>8, <2>5 DEF Spawn, TypeOK, conn
  <2>7. CASE ReplayEnds \/ Purge
    BY <1>8, <2>7 DEF ReplayEnds, Purge, Idle, conn
  <2>8. CASE ReplayCrashes
    BY <2>8, CrashLeaves DEF ReplayCrashes
  <2> QED
    BY <1>4, <2>1, <2>2, <2>3, <2>5, <2>7, <2>8 DEF Listener
<1>5. ASSUME NEW w \in Waiters, Waiter(w) PROVE LostIsSilent'
  BY <1>5, WaiterLeaves, CrashLeaves
<1>6. CASE Stop
  BY <1>6, CrashLeaves DEF Stop
<1>7. CASE Restart
  BY <1>7, RestartLeaves
<1> QED
  BY <1>1, <1>2, <1>3, <1>4, <1>5, <1>6, <1>7 DEF Next

LEMMA EventsKept == ASSUME TypeOK, DeliveryInv, [Next]_vars PROVE NoEventLost'
<1>1. CASE UNCHANGED vars
  BY <1>1 DEF vars, db, conn, requests, browser, DeliveryInv, NoEventLost, Watched,
              Accounted, AttachPending, InFlight
<1>2. CASE ConnectionLost
  BY <1>2, LostKeeps DEF ConnectionLost, CloseConnection
<1>3. CASE Stop
  BY <1>3, LostKeeps DEF Stop, Crash
<1>4. CASE Restart
  BY <1>4 DEF Restart, DeliveryInv, LostIsSilent, NoEventLost, Watched
<1> QED
  BY <1>1, <1>2, <1>3, <1>4, ClientsKeep, ReceivesKeep, ListenerKeeps, WaiterKeeps
  DEF Next, DeliveryInv

(* No reconnection, detach, fault or order of requests and notifications   *)
(* loses an event of an attached session, however the goroutines are       *)
(* scheduled, but for the events that a replay whose query failed left out *)
(* (websocket.go:96-110), and those only until the next replay.            *)
THEOREM Delivery == Spec => []DeliveryInv
<1>1. Init => TypeOK /\ DeliveryInv
  <2> SUFFICES ASSUME Init PROVE DeliveryInv
    BY InitTyped
  <2>1. listener.rows = {} /\ queue = {} /\ channels = {} /\ pooled = FALSE
    BY DEF Init, Idle
  <2>2. PICK pc \in {"select", "dead"} : listener = Idle(pc) /\ connected = (pc = "select")
    BY DEF Init
  <2>3. listener.pc = pc
    BY <2>2 DEF Idle
  <2> QED
    BY <2>1, <2>2, <2>3 DEF DeliveryInv, RowsInReplay, LostIsSilent, NoEventLost
<1>2. TypeOK /\ DeliveryInv /\ [Next]_vars => TypeOK' /\ DeliveryInv'
  BY StepTyped, RowsKept, SilenceKept, EventsKept DEF DeliveryInv
<1> QED
  BY <1>1, <1>2, PTL DEF Spec

THEOREM EventsNotLost == Spec => []NoEventLost
<1>1. DeliveryInv => NoEventLost
  BY DEF DeliveryInv
<1> QED
  BY <1>1, Delivery, PTL

-----------------------------------------------------------------------------
(* The listener and its goroutine do not meet on the connection, unless a  *)
(* request was taken before a goroutine had set done and cancel.           *)

\* Only the end of the process makes one overtaken forgotten.
LEMMA StaysOvertaken == ASSUME [Next]_vars PROVE (overtaken => overtaken') \/ Crash
<1>1. ASSUME NEW k \in Sockets, Connect(k) \/ Disconnect(k) PROVE overtaken' = overtaken
  BY <1>1 DEF Connect, Disconnect
<1>2. ASSUME NEW k \in Sockets, NEW s \in Sessions, Attach(k, s) PROVE overtaken' = overtaken
  BY <1>2 DEF Attach
<1>3. ASSUME NEW k \in Sockets, NEW e \in queue, Acknowledge(k, e) PROVE overtaken' = overtaken
  BY <1>3 DEF Acknowledge
<1>4. ASSUME NEW s \in Sessions, Detach(s) \/ Publish(s) \/ SessionDelete(s)
      PROVE  overtaken' = overtaken
  BY <1>4 DEF Detach, Publish, SessionDelete
<1>5. CASE Receives
  BY <1>5 DEF Receives, ReceiveListen, ReceiveUnlisten, Receive
<1>6. CASE ClearCancel \/ AwaitDone \/ Exec \/ Executed \/ ListenRefused \/ UnlistenRefused
  BY <1>6 DEF ClearCancel, AwaitDone, Exec, Executed, ListenRefused, UnlistenRefused
<1>7. CASE ListenFails \/ UnlistenFails \/ (\E w \in Waiters : Spawn(w))
  BY <1>7 DEF ListenFails, UnlistenFails, Spawn
<1>8. CASE Query \/ Replay \/ ReplayEnds \/ ReplayCrashes \/ Purge
  BY <1>8 DEF Query, Replay, ReplayEnds, ReplayCrashes, Purge
<1>9. ASSUME NEW w \in Waiters, Waiter(w) PROVE overtaken' = overtaken \/ Crash
  BY <1>9 DEF Waiter, AssignDone, AssignCancel, TakeNotified, Wait, TakeWire, Cancelled,
              TakeCrashes, CloseDone, CloseCrashes
<1>10. CASE ConnectionLost \/ Stop \/ Restart \/ UNCHANGED vars
  BY <1>10 DEF ConnectionLost, Stop, Restart, vars
<1> QED
  BY <1>1, <1>2, <1>3, <1>4, <1>5, <1>6, <1>7, <1>8, <1>9, <1>10 DEF Next, Clients, Listener

\* The places of the program that Handshake tells apart from no other.
Elsewhere == ListenerPc \ {"cancelled", "await", "exec", "executing", "spawn"}
Looping   == {"loop", "waiting", "closing"}

LEMMA SameHandshake ==
    ASSUME Handshake, UNCHANGED shared,
           \/ listener'.pc = listener.pc /\ listener'.wait = listener.wait
           \/ listener.pc \in Elsewhere /\ listener'.pc \in Elsewhere,
           \A w \in Waiters : \/ waiter'[w].pc = waiter[w].pc
                              \/ waiter[w].pc \in Looping /\ waiter'[w].pc \in Looping
    PROVE  Handshake'
<1>1. UNCHANGED <<done, cancel, closed>>
  BY DEF shared
<1>2. ASSUME NEW w \in Waiters
      PROVE  /\ Running(w)' = Running(w)
             /\ waiter'[w].pc = "new" <=> waiter[w].pc = "new"
             /\ waiter'[w].pc = "named" <=> waiter[w].pc = "named"
  BY DEF Running, Looping
<1>3. CASE listener'.pc = listener.pc /\ listener'.wait = listener.wait
  BY <1>1, <1>2, <1>3 DEF Handshake
<1>4. CASE listener.pc \in Elsewhere /\ listener'.pc \in Elsewhere
  BY <1>1, <1>2, <1>4 DEF Handshake, Elsewhere
<1> QED
  BY <1>3, <1>4

LEMMA NoneRunning ==
    ASSUME \A w \in Waiters : waiter[w].pc = "none",
           cancel # Nil => done # Nil,
           listener.pc \notin {"cancelled", "await"}
    PROVE  Handshake
BY DEF Handshake, Running

LEMMA CrashHandshake == ASSUME Crash PROVE Handshake'
<1>1. /\ \A w \in Waiters : waiter'[w].pc = "none"
      /\ cancel' = Nil /\ listener'.pc = "down"
  BY DEF Crash, NoWaiter, Idle
<1> QED
  BY <1>1 DEF Handshake, Running

(* A request that overtakes none: all are past their first statements.     *)
LEMMA ReceivesOne ==
    ASSUME ~overtaken', TypeOK, Receives
    PROVE  /\ listener.pc = "select" /\ UNCHANGED shared
           /\ \A w \in Waiters : waiter[w].pc \notin {"new", "named"}
           /\ \E op \in {"listen", "unlisten"}, s \in Sessions : Receive(op, s)
<1>1. ASSUME NEW a \in attaching, ReceiveListen(a)
      PROVE  MayReceive /\ UNCHANGED shared /\ a.session \in Sessions
             /\ Receive("listen", a.session)
  BY <1>1 DEF ReceiveListen, TypeOK
<1>2. ASSUME NEW s \in detaching, ReceiveUnlisten(s)
      PROVE  MayReceive /\ UNCHANGED shared /\ s \in Sessions /\ Receive("unlisten", s)
  BY <1>2 DEF ReceiveUnlisten, TypeOK
<1> QED
  BY <1>1, <1>2 DEF Receives, MayReceive, Receive, Starting

\* What the clients do is none of the goroutines' business.
LEMMA ClientsApart == ASSUME Clients PROVE UNCHANGED <<waiter, shared, listener>>
<1>1. ASSUME NEW k \in Sockets, Connect(k) \/ Disconnect(k)
      PROVE  UNCHANGED <<waiter, shared, listener>>
  BY <1>1 DEF Connect, Disconnect
<1>2. ASSUME NEW k \in Sockets, NEW s \in Sessions, Attach(k, s)
      PROVE  UNCHANGED <<waiter, shared, listener>>
  BY <1>2 DEF Attach
<1>3. ASSUME NEW k \in Sockets, NEW e \in queue, Acknowledge(k, e)
      PROVE  UNCHANGED <<waiter, shared, listener>>
  BY <1>3 DEF Acknowledge
<1>4. ASSUME NEW s \in Sessions, Detach(s) \/ Publish(s) \/ SessionDelete(s)
      PROVE  UNCHANGED <<waiter, shared, listener>>
  BY <1>4 DEF Detach, Publish, SessionDelete
<1> QED
  BY <1>1, <1>2, <1>3, <1>4 DEF Clients

LEMMA ReceivesShake == ASSUME ~overtaken', TypeOK, Handshake, Receives PROVE Handshake'
<1>1. /\ listener.pc = "select" /\ UNCHANGED shared
      /\ \A w \in Waiters : waiter[w].pc \notin {"new", "named"}
      /\ \E op \in {"listen", "unlisten"}, s \in Sessions : Receive(op, s)
  BY ReceivesOne
<1>2. PICK op \in {"listen", "unlisten"}, s \in Sessions : Receive(op, s)
  BY <1>1
<1>3. CASE cancel = Nil
  <2>1. listener'.pc = "exec" /\ waiter' = waiter
    BY <1>2, <1>3 DEF Receive, TypeOK
  <2>2. \A w \in Waiters : ~Running(w)
    BY <1>1, <1>3 DEF Handshake
  <2> QED
    BY <1>1, <1>3, <2>1, <2>2 DEF Handshake, Running, shared
<1>4. CASE cancel # Nil
  <2>1. listener'.pc = "cancelled" /\ waiter' = [waiter EXCEPT ![cancel].cancelled = TRUE]
    BY <1>2, <1>4 DEF Receive, TypeOK
  <2>2. \A w \in Waiters : waiter'[w].pc = waiter[w].pc
    BY <2>1 DEF TypeOK
  <2> QED
    BY <1>1, <1>4, <2>1, <2>2 DEF Handshake, Running, shared
<1> QED
  BY <1>3, <1>4

LEMMA ListenerShakes == ASSUME TypeOK, Handshake, Listener PROVE Handshake'
<1>1. CASE ClearCancel
  <2>1. listener'.pc = "await" /\ listener'.wait = done /\ listener.pc = "cancelled"
    BY <1>1 DEF ClearCancel, TypeOK
  <2> QED
    BY <1>1, <2>1 DEF ClearCancel, Handshake, Running
<1>2. CASE AwaitDone
  <2>1. listener'.pc = "exec" /\ listener.pc = "await" /\ listener.wait \in closed
    BY <1>2 DEF AwaitDone, TypeOK
  <2>2. \A w \in Waiters : ~Running(w)
    BY <2>1 DEF Handshake
  <2> QED
    BY <1>2, <2>1, <2>2 DEF AwaitDone, Handshake, Running, shared
<1>3. CASE Exec \/ Executed \/ UnlistenFails \/ ListenRefused \/ UnlistenRefused
  <2>1. /\ listener'.pc \in {"executing", "spawn", "dead"} /\ listener.pc \in {"exec", "executing"}
        /\ UNCHANGED <<waiter, done, cancel, closed>>
    BY <1>3 DEF Exec, Executed, UnlistenFails, ExecFails, ListenRefused, UnlistenRefused,
                Reply, TypeOK, shared
  <2>2. \A w \in Waiters : ~Running(w)
    BY <2>1 DEF Handshake
  <2> QED
    BY <2>1, <2>2 DEF Handshake, Running
<1>4. CASE ListenFails
  <2>1. /\ listener'.pc = "dead" /\ listener.pc \in {"exec", "executing"}
        /\ UNCHANGED <<done, cancel, closed>>
    BY <1>4 DEF ListenFails, ExecFails, TypeOK, shared
  <2>2. \A w \in Waiters : waiter'[w].pc = "none"
    BY <1>4, <2>1, CloseConnectionTyped DEF ListenFails, Handshake, Running
  <2> QED
    BY <2>1, <2>2 DEF Handshake, Running
<1>5. ASSUME NEW w \in Waiters, Spawn(w) PROVE Handshake'
  <2>1. /\ listener'.pc \in {"query", "purge"} /\ listener.pc = "spawn"
        /\ closed' = closed \ {w} /\ UNCHANGED <<done, cancel>>
    BY <1>5 DEF Spawn, TypeOK
  <2>2. \A v \in Waiters : waiter'[v].pc = IF v = w THEN "new" ELSE waiter[v].pc
    BY <1>5 DEF Spawn, TypeOK
  <2>3. \A v \in Waiters : waiter[v].pc = "none"
    BY <2>1 DEF Handshake, Running
  <2>4. \A v \in Waiters : Running(v)' => v = w /\ waiter'[v].pc = "new"
    BY <2>2, <2>3 DEF Running
  <2> QED
    BY <2>1, <2>4 DEF Handshake
<1>6. CASE Query \/ Replay \/ ReplayEnds \/ Purge
  <2>1. /\ listener'.pc \in Elsewhere /\ listener.pc \in Elsewhere
        /\ UNCHANGED <<waiter, shared>>
    <3>1. {"query", "replay", "purge", "select"} \subseteq Elsewhere
      BY DEF Elsewhere, ListenerPc
    <3>2. CASE Query
      BY <3>1, <3>2 DEF Query, TypeOK
    <3>3. CASE Replay
      BY <3>1, <3>3 DEF Replay, TypeOK
    <3>4. CASE ReplayEnds \/ Purge
      BY <3>1, <3>4 DEF ReplayEnds, Purge, Idle
    <3> QED
      BY <1>6, <3>2, <3>3, <3>4
  <2> QED
    BY <2>1, SameHandshake
<1>7. CASE ReplayCrashes
  BY <1>7, CrashHandshake DEF ReplayCrashes
<1> QED
  BY <1>1, <1>2, <1>3, <1>4, <1>5, <1>6, <1>7 DEF Listener

LEMMA WaiterShakes ==
    ASSUME TypeOK, Handshake, NEW w \in Waiters, Waiter(w) PROVE Handshake'
<1>1. ASSUME NEW pc, Goto(w, pc)
      PROVE  \A v \in Waiters : waiter'[v].pc = IF v = w THEN pc ELSE waiter[v].pc
  BY <1>1 DEF Goto, TypeOK
<1>2. Running(w) => \A v \in Waiters : v # w => waiter[v].pc = "none"
  BY DEF Handshake, Running
<1>3. CASE AssignDone(w)
  <2>1. \A v \in Waiters : waiter'[v].pc = IF v = w THEN "named" ELSE "none"
    BY <1>1, <1>2, <1>3 DEF AssignDone, Running
  <2>2. waiter[w].pc = "new" /\ done' = w /\ UNCHANGED <<cancel, closed, listener>>
    BY <1>3 DEF AssignDone
  <2> QED
    BY <2>1, <2>2 DEF Handshake, Running
<1>4. CASE AssignCancel(w)
  <2>1. \A v \in Waiters : waiter'[v].pc = IF v = w THEN "loop" ELSE "none"
    BY <1>1, <1>2, <1>4 DEF AssignCancel, Running
  <2>2. waiter[w].pc = "named" /\ cancel' = w /\ UNCHANGED <<done, closed, listener>>
    BY <1>4 DEF AssignCancel
  <2> QED
    BY <2>1, <2>2 DEF Handshake, Running
<1>5. CASE TakeNotified(w) \/ Wait(w) \/ TakeWire(w) \/ Cancelled(w)
  <2>1. UNCHANGED <<shared, listener>>
    BY <1>5 DEF TakeNotified, Wait, TakeWire, Cancelled
  <2>2. waiter' = waiter \/ (/\ waiter[w].pc \in Looping
                             /\ \E pc \in Looping : Goto(w, pc))
    BY <1>5 DEF TakeNotified, Wait, TakeWire, Cancelled, Looping
  <2> QED
    BY <1>1, <2>1, <2>2, SameHandshake
<1>6. CASE CloseDone(w)
  <2>1. waiter' = [waiter EXCEPT ![w] = NoWaiter] /\ waiter[w].pc = "closing"
    BY <1>6 DEF CloseDone
  <2>2. \A v \in Waiters : waiter'[v].pc = "none"
    BY <1>2, <2>1 DEF TypeOK, NoWaiter, Running
  <2> QED
    BY <1>6, <2>2 DEF CloseDone, Handshake, Running
<1>7. CASE TakeCrashes(w) \/ CloseCrashes(w)
  BY <1>7, CrashHandshake DEF TakeCrashes, CloseCrashes
<1> QED
  BY <1>3, <1>4, <1>5, <1>6, <1>7 DEF Waiter

LEMMA HandshakeKept ==
    ASSUME ~overtaken', TypeOK, Handshake, [Next]_vars PROVE Handshake'
<1>1. CASE Clients \/ UNCHANGED vars
  <2>1. UNCHANGED <<waiter, shared, listener>>
    BY <1>1, ClientsApart DEF vars
  <2> QED
    BY <2>1, SameHandshake
<1>2. CASE ConnectionLost
  <2>1. UNCHANGED <<shared, listener>>
    BY <1>2 DEF ConnectionLost
  <2>2. \A w \in Waiters : \/ waiter'[w].pc = waiter[w].pc
                           \/ waiter[w].pc \in Looping /\ waiter'[w].pc \in Looping
    BY <1>2, CloseConnectionTyped DEF ConnectionLost, Looping
  <2> QED
    BY <2>1, <2>2, SameHandshake
<1>3. CASE Stop
  BY <1>3, CrashHandshake DEF Stop
<1>4. CASE Restart
  <2>1. listener.pc \in Elsewhere /\ listener'.pc \in Elsewhere /\ UNCHANGED <<waiter, shared>>
    BY <1>4, RestartLeaves DEF Restart, Elsewhere, ListenerPc
  <2> QED
    BY <2>1, SameHandshake
<1> QED
  BY <1>1, <1>2, <1>3, <1>4, ReceivesShake, ListenerShakes, WaiterShakes DEF Next

(* In a process that has taken no request before a goroutine had run its   *)
(* first two statements, the protocol around done and cancel works as      *)
(* meant, whatever faults there are ...                                    *)
THEOREM HandshakeHolds == Spec => [](TypeOK /\ (overtaken \/ Handshake))
<1>1. Init => TypeOK /\ Handshake
  <2> SUFFICES ASSUME Init PROVE Handshake
    BY InitTyped
  <2>1. /\ \A w \in Waiters : waiter[w].pc = "none"
        /\ cancel = Nil /\ listener.pc \in {"select", "dead"}
    BY DEF Init, NoWaiter, Idle
  <2> QED
    BY <2>1, NoneRunning
<1>2. TypeOK /\ (overtaken \/ Handshake) /\ [Next]_vars
        => TypeOK' /\ (overtaken' \/ Handshake')
  BY StepTyped, HandshakeKept, StaysOvertaken, CrashHandshake
<1> QED
  BY <1>1, <1>2, PTL DEF Spec

(* ... and the listener never uses the connection while another goroutine  *)
(* waits on it.                                                            *)
THEOREM Exclusive == Spec => []ExclusiveUnlessOvertaken
<1>1. TypeOK /\ Handshake => ConnectionExclusive
  BY DEF Handshake, Running, ConnectionExclusive, Waiting
<1>2. TypeOK /\ (overtaken \/ Handshake) => ExclusiveUnlessOvertaken
  BY <1>1 DEF ExclusiveUnlessOvertaken
<1> QED
  BY <1>2, HandshakeHolds, PTL

-----------------------------------------------------------------------------
(* The listener is freed: it never waits for a goroutine that has not been *)
(* told to stop, or that is gone without closing its channel.              *)

Freed ==
    /\ listener.pc \in {"cancelled", "await"} => \A w \in Waiters : Running(w) => waiter[w].cancelled
    /\ done # Nil /\ done \notin closed => Running(done)

LEMMA SameFreed ==
    ASSUME TypeOK, Freed, UNCHANGED shared,
           \/ listener'.pc = listener.pc
           \/ listener'.pc \notin {"cancelled", "await"},
           \A w \in Waiters : /\ waiter'[w].cancelled = waiter[w].cancelled
                              /\ Running(w)' = Running(w)
    PROVE  Freed'
<1>1. UNCHANGED <<done, closed>> /\ done \in Waiters \cup {Nil}
  BY DEF shared, TypeOK
<1> QED
  BY <1>1 DEF Freed

LEMMA CrashFrees == ASSUME Crash PROVE Freed'
<1>1. done' = Nil /\ listener'.pc = "down"
  BY DEF Crash, Idle
<1> QED
  BY <1>1 DEF Freed

LEMMA ReceivesFree == ASSUME ~overtaken', TypeOK, Handshake, Freed, Receives PROVE Freed'
<1>1. /\ listener.pc = "select" /\ UNCHANGED shared
      /\ \A w \in Waiters : waiter[w].pc \notin {"new", "named"}
      /\ \E op \in {"listen", "unlisten"}, s \in Sessions : Receive(op, s)
  BY ReceivesOne
<1>2. PICK op \in {"listen", "unlisten"}, s \in Sessions : Receive(op, s)
  BY <1>1
<1>3. CASE cancel = Nil
  <2>1. listener'.pc = "exec" /\ waiter' = waiter
    BY <1>2, <1>3 DEF Receive, TypeOK
  <2> QED
    BY <1>1, <2>1, SameFreed DEF Running
<1>4. CASE cancel # Nil
  <2>1. waiter' = [waiter EXCEPT ![cancel].cancelled = TRUE] /\ cancel \in Waiters
    BY <1>2, <1>4 DEF Receive, TypeOK
  <2>2. \A w \in Waiters : waiter'[w].pc = waiter[w].pc
    BY <2>1 DEF TypeOK
  <2>3. waiter'[cancel].cancelled = TRUE
    BY <2>1 DEF TypeOK
  <2>4. \A w \in Waiters : Running(w) => w = cancel
    BY <1>1 DEF Handshake
  <2> QED
    BY <1>1, <2>2, <2>3, <2>4 DEF Freed, Running, shared, TypeOK
<1> QED
  BY <1>3, <1>4

LEMMA ListenerFrees == ASSUME TypeOK, Handshake, Freed, Listener PROVE Freed'
<1>1. CASE ClearCancel
  <2>1. listener'.pc = "await" /\ listener.pc = "cancelled" /\ UNCHANGED <<waiter, done, closed>>
    BY <1>1 DEF ClearCancel, TypeOK
  <2> QED
    BY <2>1 DEF Freed, Running
<1>2. CASE \/ AwaitDone \/ Exec \/ Executed \/ UnlistenFails \/ ListenRefused \/ UnlistenRefused
           \/ Query \/ Replay \/ ReplayEnds \/ Purge
  <2>1. CASE AwaitDone \/ Exec \/ Executed \/ UnlistenFails \/ ListenRefused \/ UnlistenRefused
    <3>1. /\ listener'.pc \in {"exec", "executing", "spawn", "dead"}
          /\ UNCHANGED <<waiter, shared>>
      BY <2>1 DEF AwaitDone, Exec, Executed, UnlistenFails, ListenRefused, UnlistenRefused,
                  Reply, TypeOK
    <3> QED
      BY <3>1, SameFreed DEF Running
  <2>2. CASE Query \/ Replay
    <3>1. listener'.pc = "replay" /\ UNCHANGED <<waiter, shared>>
      BY <2>2 DEF Query, Replay, TypeOK
    <3> QED
      BY <3>1, SameFreed DEF Running
  <2>3. CASE ReplayEnds \/ Purge
    <3>1. listener'.pc = "select" /\ UNCHANGED <<waiter, shared>>
      BY <2>3 DEF ReplayEnds, Purge, Idle
    <3> QED
      BY <3>1, SameFreed DEF Running
  <2> QED
    BY <1>2, <2>1, <2>2, <2>3
<1>3. CASE ListenFails
  <2>1. /\ listener'.pc = "dead" /\ listener.pc \in {"exec", "executing"}
        /\ UNCHANGED <<done, closed>>
    BY <1>3 DEF ListenFails, ExecFails, TypeOK, shared
  <2>2. \A w \in Waiters : Running(w)' = Running(w)
    BY <1>3, CloseConnectionTyped DEF ListenFails, Running
  <2> QED
    BY <2>1, <2>2 DEF Freed, TypeOK
<1>4. ASSUME NEW w \in Waiters, Spawn(w) PROVE Freed'
  <2>1. /\ listener'.pc \in {"query", "purge"} /\ w # done
        /\ closed' = closed \ {w} /\ done' = done
    BY <1>4 DEF Spawn, Fresh, TypeOK
  <2>2. \A v \in Waiters : v # w => waiter'[v] = waiter[v]
    BY <1>4 DEF Spawn, TypeOK
  <2> QED
    BY <2>1, <2>2 DEF Freed, Running, TypeOK
<1>5. CASE ReplayCrashes
  BY <1>5, CrashFrees DEF ReplayCrashes
<1> QED
  BY <1>1, <1>2, <1>3, <1>4, <1>5 DEF Listener

LEMMA WaiterFrees ==
    ASSUME TypeOK, Handshake, Freed, NEW w \in Waiters, Waiter(w) PROVE Freed'
<1>1. ASSUME NEW pc, Goto(w, pc)
      PROVE  /\ \A v \in Waiters : waiter'[v].pc = IF v = w THEN pc ELSE waiter[v].pc
             /\ \A v \in Waiters : waiter'[v].cancelled = waiter[v].cancelled
  BY <1>1 DEF Goto, TypeOK
<1>2. Running(w) => \A v \in Waiters : v # w => waiter[v].pc = "none"
  BY DEF Handshake, Running
<1>3. CASE AssignDone(w)
  <2>1. /\ \A v \in Waiters : waiter'[v].pc = IF v = w THEN "named" ELSE waiter[v].pc
        /\ \A v \in Waiters : waiter'[v].cancelled = waiter[v].cancelled
    BY <1>1, <1>3 DEF AssignDone
  <2>2. waiter[w].pc = "new" /\ done' = w /\ UNCHANGED listener
    BY <1>3 DEF AssignDone
  <2> QED
    BY <2>1, <2>2 DEF Freed, Running
<1>4. CASE AssignCancel(w)
  <2>1. /\ \A v \in Waiters : waiter'[v].pc = IF v = w THEN "loop" ELSE waiter[v].pc
        /\ \A v \in Waiters : waiter'[v].cancelled = waiter[v].cancelled
    BY <1>1, <1>4 DEF AssignCancel
  <2>2. waiter[w].pc = "named" /\ UNCHANGED <<done, closed, listener>>
    BY <1>4 DEF AssignCancel
  <2> QED
    BY <2>1, <2>2 DEF Freed, Running, TypeOK
<1>5. CASE TakeNotified(w) \/ Wait(w) \/ TakeWire(w) \/ Cancelled(w)
  <2>1. UNCHANGED <<shared, listener>>
    BY <1>5 DEF TakeNotified, Wait, TakeWire, Cancelled
  <2>2. waiter' = waiter \/ (/\ waiter[w].pc \in Looping
                             /\ \E pc \in Looping : Goto(w, pc))
    BY <1>5 DEF TakeNotified, Wait, TakeWire, Cancelled, Looping
  <2> QED
    BY <1>1, <2>1, <2>2, SameFreed DEF Running, Looping
<1>6. CASE CloseDone(w)
  <2>1. waiter' = [waiter EXCEPT ![w] = NoWaiter] /\ closed' = closed \cup {done}
        /\ UNCHANGED <<done, listener>>
    BY <1>6 DEF CloseDone
  <2>2. \A v \in Waiters : Running(v)' => v # w /\ waiter'[v] = waiter[v]
    BY <2>1 DEF TypeOK, NoWaiter, Running
  <2> QED
    BY <2>1, <2>2 DEF Freed, Running
<1>7. CASE TakeCrashes(w) \/ CloseCrashes(w)
  BY <1>7, CrashFrees DEF TakeCrashes, CloseCrashes
<1> QED
  BY <1>3, <1>4, <1>5, <1>6, <1>7 DEF Waiter

LEMMA FreedKept ==
    ASSUME ~overtaken', TypeOK, Handshake, Freed, [Next]_vars PROVE Freed'
<1>1. CASE Clients \/ UNCHANGED vars
  <2>1. UNCHANGED <<waiter, shared, listener>>
    BY <1>1, ClientsApart DEF vars
  <2> QED
    BY <2>1, SameFreed DEF Running
<1>2. CASE ConnectionLost
  <2>1. UNCHANGED <<shared, listener>> /\ CloseConnection
    BY <1>2 DEF ConnectionLost
  <2>2. \A w \in Waiters : /\ waiter'[w].cancelled = waiter[w].cancelled
                           /\ Running(w)' = Running(w)
    BY <2>1, CloseConnectionTyped DEF CloseConnection, TypeOK, Running
  <2> QED
    BY <2>1, <2>2, SameFreed
<1>3. CASE Stop
  BY <1>3, CrashFrees DEF Stop
<1>4. CASE Restart
  <2>1. listener'.pc \in {"select", "dead"} /\ UNCHANGED <<waiter, shared>>
    BY <1>4, RestartLeaves DEF Restart
  <2> QED
    BY <2>1, SameFreed DEF Running
<1> QED
  BY <1>1, <1>2, <1>3, <1>4, ReceivesFree, ListenerFrees, WaiterFrees DEF Next

(* The listener waits only for a goroutine that has been told to stop, and *)
(* no channel is closed twice, in a process where no request has overtaken *)
(* a goroutine.                                                            *)
THEOREM ListenerIsFreed == Spec => []ListenerFreed
<1>1. Init => Freed
  <2> SUFFICES ASSUME Init PROVE Freed
    OBVIOUS
  <2>1. done = Nil /\ listener.pc \in {"select", "dead"}
    BY DEF Init, Idle
  <2> QED
    BY <2>1 DEF Freed
<1>2. /\ TypeOK /\ (overtaken \/ Handshake) /\ (overtaken \/ Freed) /\ [Next]_vars
      => (overtaken' \/ Freed')
  BY FreedKept, StaysOvertaken, CrashFrees
<1>3. TypeOK /\ Handshake /\ Freed => DoneCloses
  <2> SUFFICES ASSUME TypeOK, Handshake, Freed PROVE DoneCloses
    OBVIOUS
  <2>1. ASSUME listener.pc = "await", listener.wait \notin closed
        PROVE  /\ listener.wait \in Waiters /\ done = listener.wait
               /\ waiter[done].pc \in {"loop", "waiting", "closing"} /\ waiter[done].cancelled
    <3>1. done = listener.wait /\ done \in Waiters /\ Running(done)
      BY <2>1 DEF Handshake, Freed, TypeOK
    <3>2. waiter[done].pc \in WaiterPc \ {"none", "new", "named"}
      BY <2>1, <3>1 DEF Handshake, Running, TypeOK
    <3> QED
      BY <2>1, <3>1, <3>2 DEF Freed, WaiterPc
  <2>2. ASSUME NEW w \in Waiters, waiter[w].pc = "closing" PROVE done \notin closed
    BY <2>2 DEF Handshake, Running
  <2> QED
    BY <2>1, <2>2 DEF DoneCloses
<1>4. TypeOK /\ (overtaken \/ Handshake) /\ (overtaken \/ Freed) => ListenerFreed
  BY <1>3 DEF ListenerFreed
<1> QED
  BY <1>1, <1>2, <1>4, HandshakeHolds, PTL DEF Spec

-----------------------------------------------------------------------------
(* The event tables behave as an inbox.                                    *)

LEMMA DeleteSessionIsDelete ==
    ASSUME NEW s, DeleteSession(s) PROVE I!Delete(s)
BY DEF DeleteSession, EventsOf, I!Delete

LEMMA ClientsAreInbox == ASSUME TypeOK, Clients PROVE I!Next \/ UNCHANGED I!vars
<1> USE DEF I!vars
<1>1. ASSUME NEW k \in Sockets, Connect(k) \/ Disconnect(k) PROVE UNCHANGED I!vars
  BY <1>1 DEF Connect, Disconnect, db
<1>2. ASSUME NEW k \in Sockets, NEW s \in Sessions, Attach(k, s) PROVE UNCHANGED I!vars
  BY <1>2 DEF Attach, db
<1>3. ASSUME NEW k \in Sockets, NEW e \in queue, Acknowledge(k, e) PROVE I!Next
  BY <1>3 DEF Acknowledge, I!Next, I!Acknowledge
<1>4. ASSUME NEW s \in Sessions, Detach(s) PROVE UNCHANGED I!vars
  BY <1>4 DEF Detach, db
<1>5. ASSUME NEW s \in Sessions, Publish(s) PROVE I!Next
  <2>1. I!Post({s})
    BY <1>5 DEF Publish, I!Post, I!Entries
  <2> QED
    BY <2>1 DEF I!Next
<1>6. ASSUME NEW s \in Sessions, SessionDelete(s) PROVE I!Next
  BY <1>6, DeleteSessionIsDelete DEF SessionDelete, I!Next
<1> QED
  BY <1>1, <1>2, <1>3, <1>4, <1>5, <1>6 DEF Clients

LEMMA ListenerIsInbox == ASSUME TypeOK, Listener PROVE I!Next \/ UNCHANGED I!vars
<1>1. CASE Purge
  <2>1. listener.session \in Sessions
    BY <1>1 DEF Purge, TypeOK
  <2> QED
    BY <1>1, <2>1, DeleteSessionIsDelete DEF Purge, I!Next, I!vars, db
<1>2. ASSUME NEW w \in Waiters, Spawn(w) PROVE UNCHANGED I!vars
  BY <1>2 DEF Spawn, I!vars, db
<1>3. CASE ClearCancel \/ AwaitDone \/ Exec \/ Executed \/ ListenFails \/ UnlistenFails
  BY <1>3 DEF ClearCancel, AwaitDone, Exec, Executed, ListenFails, UnlistenFails, I!vars, db
<1>5. CASE ListenRefused \/ UnlistenRefused
  BY <1>5 DEF ListenRefused, UnlistenRefused, I!vars, db
<1>4. CASE Query \/ Replay \/ ReplayEnds \/ ReplayCrashes
  BY <1>4 DEF Query, Replay, ReplayEnds, ReplayCrashes, Crash, I!vars, db
<1> QED
  BY <1>1, <1>2, <1>3, <1>4, <1>5 DEF Listener

(* The daemon never changes an entry of the inbox, and removes entries     *)
(* only with their session: what module Inbox allows.                      *)
THEOREM InboxImplemented == Spec => ImplementsInbox
<1>1. Init => I!Init
  BY DEF Init, I!Init
<1>2. TypeOK /\ [Next]_vars => [I!Next]_(I!vars)
  <2> SUFFICES ASSUME TypeOK, [Next]_vars PROVE I!Next \/ UNCHANGED I!vars
    OBVIOUS
  <2>1. CASE Receives
    BY <2>1 DEF Receives, ReceiveListen, ReceiveUnlisten, I!vars, db
  <2>2. ASSUME NEW w \in Waiters, Waiter(w) PROVE UNCHANGED I!vars
    BY <2>2 DEF Waiter, AssignDone, AssignCancel, TakeNotified, Wait, TakeWire, Cancelled,
                TakeCrashes, CloseDone, CloseCrashes, Crash, I!vars, db
  <2>3. CASE ConnectionLost \/ Stop \/ Restart \/ UNCHANGED vars
    BY <2>3 DEF ConnectionLost, Stop, Restart, Crash, vars, I!vars, db
  <2> QED
    BY <2>1, <2>2, <2>3, ClientsAreInbox, ListenerIsInbox DEF Next
<1> QED
  BY <1>1, <1>2, WebSocketTyping, PTL DEF Spec, ImplementsInbox, I!Spec

\* No step of an inbox brings an entry of the past into it.
LEMMA GoneStays ==
    ASSUME published \in Nat, NEW e, e.id \in 1..published, e \notin queue, [I!Next]_(I!vars)
    PROVE  e.id \in 1..published' /\ e \notin queue'
<1>1. ASSUME NEW S \in SUBSET Sessions, I!Post(S) PROVE e.id \in 1..published' /\ e \notin queue'
  <2>1. published' = published + 1 /\ queue' = queue \cup I!Entries(S)
    BY <1>1 DEF I!Post
  <2>2. \A d \in I!Entries(S) : d.id = published + 1
    BY DEF I!Entries
  <2> QED
    BY <2>1, <2>2
<1>2. CASE UNCHANGED I!vars
  BY <1>2 DEF I!vars
<1>3. ASSUME NEW s \in Sessions, I!Create(s) \/ I!Delete(s) PROVE e.id \in 1..published' /\ e \notin queue'
  BY <1>3 DEF I!Create, I!Delete
<1>4. ASSUME NEW d \in queue, I!Acknowledge(d) PROVE e.id \in 1..published' /\ e \notin queue'
  BY <1>4 DEF I!Acknowledge
<1> QED
  BY <1>1, <1>2, <1>3, <1>4 DEF I!Next

(* Nothing the daemon does, no crash and no attach, brings an event back   *)
(* that was acknowledged or went with its session.                         *)
THEOREM EventsGoneForGood == ASSUME NEW e PROVE Spec => I!GoneForGood(e)
<1> DEFINE Gone == e.id \in 1..published /\ e \notin queue
<1>1. TypeOK /\ Gone /\ [I!Next]_(I!vars) => Gone'
  <2>1. TypeOK => published \in Nat
    BY DEF TypeOK
  <2> QED
    BY <2>1, GoneStays
<1>2. Gone => e \notin queue
  OBVIOUS
<1>3. Spec => [][I!Next]_(I!vars)
  BY InboxImplemented, PTL DEF ImplementsInbox, I!Spec
<1> HIDE DEF Gone
<1>4. Spec => [](Gone => [](e \notin queue))
  BY <1>1, <1>2, <1>3, WebSocketTyping, PTL
<1> QED
  BY <1>4 DEF I!GoneForGood, Gone
=============================================================================
