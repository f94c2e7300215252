------------------------- MODULE WebSocketLiveProofs -------------------------
(***************************************************************************)
(* Proofs of the liveness properties of module WebSocket: while the        *)
(* connection lasts, every attach is answered, every detached session is   *)
(* deleted, and every event of an attached session reaches its socket.     *)
(* They hold for goroutines that run fairly, in a process where no request *)
(* is received before the goroutine started last has set done and cancel,  *)
(* and rest on GoroutinesNotStuck, which is about ENABLED and is a         *)
(* hypothesis here.                                                        *)
(*                                                                         *)
(* Two ranks carry the argument.  Left counts the steps until the listener *)
(* selects again; Turns those until the first notification of the line is  *)
(* sent on, whether or not the listener is at a request.                   *)
(***************************************************************************)
EXTENDS WebSocketProofs, FiniteSets, FiniteSetTheorems, NaturalsInduction, WellFoundedInduction

USE WebSocketAssumption

\* Where the listener is between a request and the next goroutine.
Between == {"cancelled", "await", "exec", "executing", "spawn"}

(* What the liveness proofs add to the invariants of WebSocketProofs.  The *)
(* rows of a replay are of one session, so there are at most MaxEvents;    *)
(* a goroutine told to stop is one that the listener is about to wait for; *)
(* nothing is in flight in a daemon that is down; and while the connection *)
(* lasts, a goroutine ends only when told to, one that can take them is    *)
(* there for the notifications queued, and one is there, or about to be    *)
(* started, whenever the connection listens to a session.                  *)
RowsOfSession == \A e \in listener.rows : e.session = listener.session
ToldAwaited   == \A w \in Waiters :
                    Running(w) /\ waiter[w].cancelled => listener.pc \in {"cancelled", "await"}
DownIsEmpty   == listener.pc = "down" => /\ notified = <<>> /\ wire = <<>>
                                         /\ \A w \in Waiters : ~Running(w)
Attended ==
    connected =>
        /\ \A w \in Waiters : waiter[w].pc = "closing" => waiter[w].cancelled
        /\ notified # <<>> => \/ listener.pc = "spawn"
                              \/ \E w \in Waiters : waiter[w].pc \in {"new", "named", "loop"}
        /\ channels # {} \/ wire # <<>> =>
              listener.pc \in Between \/ \E w \in Waiters : Running(w)

\* The inductive invariant.
LiveInv ==
    /\ TypeOK /\ DeliveryInv /\ Handshake /\ Freed
    /\ RowsOfSession /\ ToldAwaited /\ DownIsEmpty /\ Attended

\* What the clients and a step that does nothing leave to the goroutines.
Still ==
    /\ UNCHANGED <<listener, waiter, closed, connected, channels, notified>>
    /\ wire' = wire \/ (channels # {} /\ \E e \in Event : wire' = Append(wire, e))

\* What a step of the listener does while the connection lasts.
ListenerMoves ==
    /\ UNCHANGED <<connected, sockets, open>>
    /\ UNCHANGED <<notified, wire, channels>> \/ listener.pc = "executing"
    /\ UNCHANGED waiter \/ listener.pc = "spawn"
    /\ UNCHANGED <<listener.rows>> \/ listener.pc \in {"query", "replay", "purge"}
    /\ UNCHANGED <<listener.session, listener.op>> \/ listener'.pc = "select"
    /\ \/ listener.pc = "cancelled" /\ listener'.pc = "await"
       \/ listener.pc = "await" /\ listener.wait \in closed /\ listener'.pc = "exec"
       \/ listener.pc = "exec" /\ listener'.pc = "executing"
       \/ /\ listener.pc = "executing" /\ listener'.pc = "spawn"
          /\ notified' = notified \o wire /\ wire' = <<>>
       \/ /\ listener.pc = "spawn"
          /\ listener'.pc = (IF listener.op = "listen" THEN "query" ELSE "purge")
          /\ \E w \in Waiters :
                /\ waiter[w].pc = "none"
                /\ waiter' = [waiter EXCEPT ![w] = [pc |-> "new", cancelled |-> FALSE]]
       \/ /\ listener.pc = "query" /\ listener'.pc = "replay"
          /\ \A e \in EventsOf(listener.session) : e \in listener'.rows \/ e \in skipped'
       \/ /\ listener.pc = "replay" /\ listener'.pc = "replay"
          /\ \E e \in listener.rows : Send(e) /\ listener'.rows = listener.rows \ {e}
       \/ listener.pc = "replay" /\ listener'.pc = "select" /\ listener.rows = {} /\ listener'.rows = {}
       \/ /\ listener.pc = "purge" /\ listener'.pc = "select" /\ listener'.rows = {}
          /\ DeleteSession(listener.session) \/ listener'.session = listener.session

\* What a step of a goroutine does while the connection lasts.
WaiterMoves(w) ==
    /\ UNCHANGED <<listener, connected, channels, sockets, open>>
    /\ UNCHANGED closed \/ waiter[w].pc = "closing"
    /\ \A v \in Waiters \ {w} : waiter'[v] = waiter[v]
    /\ waiter[w].pc # "closing" => waiter'[w].cancelled = waiter[w].cancelled
    /\ \/ /\ \/ waiter[w].pc = "new" /\ waiter'[w].pc = "named"
             \/ waiter[w].pc = "named" /\ waiter'[w].pc = "loop"
             \/ waiter[w].pc = "closing" /\ waiter'[w].pc = "none"
             \/ waiter[w].pc = "waiting" /\ waiter[w].cancelled /\ waiter'[w].pc = "closing"
             \/ /\ waiter[w].pc = "loop" /\ notified = <<>>
                /\ waiter'[w].pc = (IF waiter[w].cancelled THEN "closing" ELSE "waiting")
          /\ UNCHANGED <<notified, wire>>
       \/ /\ waiter[w].pc = "loop" /\ notified # <<>> /\ Send(Head(notified))
          /\ waiter'[w].pc = "loop" /\ notified' = Tail(notified) /\ wire' = wire
       \/ /\ waiter[w].pc = "waiting" /\ wire # <<>> /\ Send(Head(wire))
          /\ waiter'[w].pc = "loop" /\ wire' = Tail(wire) /\ notified' = notified

\* Clients only add notifications.
LEMMA ClientsStill == ASSUME TypeOK, Clients PROVE Still
<1>1. ASSUME NEW k \in Sockets, Connect(k) \/ Disconnect(k) PROVE Still
  BY <1>1 DEF Connect, Disconnect, Still, conn, shared
<1>2. ASSUME NEW k \in Sockets, NEW s \in Sessions, Attach(k, s) PROVE Still
  BY <1>2 DEF Attach, Still, conn, shared
<1>3. ASSUME NEW k \in Sockets, NEW e \in queue, Acknowledge(k, e) PROVE Still
  BY <1>3 DEF Acknowledge, Still, conn, shared
<1>4. ASSUME NEW s \in Sessions, Detach(s) \/ SessionDelete(s) PROVE Still
  BY <1>4 DEF Detach, SessionDelete, Still, conn, shared
<1>5. ASSUME NEW s \in Sessions, Publish(s) PROVE Still
  <2> DEFINE e == [id |-> published + 1, session |-> s]
  <2>1. e \in Event
    BY <1>5 DEF Publish, TypeOK, Event
  <2>2. wire' = wire \/ (channels # {} /\ wire' = Append(wire, e))
    BY <1>5 DEF Publish
  <2>3. UNCHANGED <<listener, waiter, closed, connected, channels, notified>>
    BY <1>5 DEF Publish, shared
  <2> QED
    BY <2>1, <2>2, <2>3 DEF Still
<1> QED
  BY <1>1, <1>2, <1>3, <1>4, <1>5 DEF Clients

\* The listener does not fail while the connection lasts: nobody else uses it.
LEMMA ListenerDoes ==
    ASSUME TypeOK, Handshake, connected, Listener, connected'
    PROVE  ListenerMoves
<1>0. ~Crash /\ ~CloseConnection
  BY DEF Crash, CloseConnection
<1>1. CASE ClearCancel
  BY <1>1 DEF ClearCancel, ListenerMoves, TypeOK, conn, browser
<1>2. CASE AwaitDone
  BY <1>2 DEF AwaitDone, ListenerMoves, TypeOK, conn, browser
<1>3. CASE Exec
  BY <1>3 DEF Exec, ListenerMoves, TypeOK, conn, browser
<1>4. CASE Executed \/ UnlistenRefused
  BY <1>4 DEF Executed, UnlistenRefused, Reply, ListenerMoves, TypeOK, conn, browser
<1>5. CASE ListenFails \/ ListenRefused
  BY <1>0, <1>5 DEF ListenFails, ListenRefused, GiveBack
<1>6. CASE UnlistenFails
  <2>1. listener.pc \in {"exec", "executing"} /\ Waiting
    BY <1>6 DEF UnlistenFails, ExecFails
  <2> QED
    BY <2>1 DEF Handshake, Running, Waiting
<1>7. ASSUME NEW w \in Waiters, Spawn(w) PROVE ListenerMoves
  <2>1. waiter[w].pc = "none"
        /\ waiter' = [waiter EXCEPT ![w] = [pc |-> "new", cancelled |-> FALSE]]
    BY <1>7 DEF Spawn, Fresh
  <2>2. /\ listener.pc = "spawn"
        /\ listener'.pc = (IF listener.op = "listen" THEN "query" ELSE "purge")
        /\ UNCHANGED <<listener.rows, listener.session, listener.op>>
        /\ UNCHANGED <<connected, sockets, open, notified, wire, channels>>
    BY <1>7 DEF Spawn, TypeOK, conn, browser
  <2> QED
    BY <2>1, <2>2 DEF ListenerMoves
<1>8. CASE Query
  <2>1. PICK rows \in SUBSET EventsOf(listener.session) :
          /\ listener' = [listener EXCEPT !.pc = "replay", !.rows = rows]
          /\ skipped' = {e \in skipped : e.session # listener.session}
                          \cup (EventsOf(listener.session) \ rows)
    BY <1>8 DEF Query
  <2>2. /\ listener.pc = "query" /\ listener'.pc = "replay" /\ listener'.rows = rows
        /\ UNCHANGED <<listener.session, listener.op>>
        /\ UNCHANGED <<connected, sockets, open, notified, wire, channels, waiter>>
    BY <1>8, <2>1 DEF Query, TypeOK, conn, browser
  <2> QED
    BY <2>1, <2>2 DEF ListenerMoves
<1>9. CASE Replay
  <2>1. PICK e \in listener.rows : Send(e) /\ listener' = [listener EXCEPT !.rows = @ \ {e}]
    BY <1>9 DEF Replay
  <2>2. listener.pc = "replay" /\ UNCHANGED <<connected, sockets, open, notified, wire, channels, waiter>>
    BY <1>9, <2>1 DEF Replay, Send, conn
  <2>3. /\ listener'.pc = "replay" /\ listener'.rows = listener.rows \ {e}
        /\ UNCHANGED <<listener.session, listener.op>>
    BY <2>1, <2>2 DEF TypeOK
  <2> QED
    BY <2>1, <2>2, <2>3 DEF ListenerMoves
<1>10. CASE ReplayEnds
  BY <1>10 DEF ReplayEnds, Idle, ListenerMoves, TypeOK, conn, browser
<1>11. CASE ReplayCrashes
  BY <1>0, <1>11 DEF ReplayCrashes
<1>12. CASE Purge
  <2>1. /\ listener.pc = "purge" /\ listener'.pc = "select" /\ listener'.rows = {}
        /\ UNCHANGED <<connected, sockets, open, notified, wire, channels, waiter>>
        /\ DeleteSession(listener.session) \/ listener'.session = listener.session
    BY <1>12 DEF Purge, Idle, conn, browser
  <2> QED
    BY <2>1 DEF ListenerMoves
<1> QED
  BY <1>1, <1>2, <1>3, <1>4, <1>5, <1>6, <1>7, <1>8, <1>9, <1>10, <1>11, <1>12 DEF Listener

\* Nor does a goroutine, or panic.
LEMMA WaiterDoes ==
    ASSUME TypeOK, LostIsSilent, Handshake, connected, NEW w \in Waiters, Waiter(w), connected'
    PROVE  WaiterMoves(w)
<1>0. ~Crash
  BY DEF Crash
<1>1. ASSUME NEW pc, Goto(w, pc)
      PROVE  /\ waiter'[w].pc = pc
             /\ \A v \in Waiters \ {w} : waiter'[v] = waiter[v]
             /\ waiter'[w].cancelled = waiter[w].cancelled
  BY <1>1 DEF Goto, TypeOK
<1>2. CASE AssignDone(w) \/ AssignCancel(w) \/ Cancelled(w)
  BY <1>1, <1>2 DEF AssignDone, AssignCancel, Cancelled, WaiterMoves, conn, shared, browser
<1>3. CASE TakeNotified(w)
  BY <1>3 DEF TakeNotified, Send, WaiterMoves, shared
<1>4. CASE Wait(w)
  <2>1. ~Busy
    BY <1>4 DEF Wait, Busy, Waiting, Handshake, Running
  <2>2. Goto(w, IF waiter[w].cancelled THEN "closing" ELSE "waiting")
    BY <1>4, <2>1 DEF Wait, LostIsSilent
  <2> QED
    BY <1>1, <1>4, <2>2 DEF Wait, WaiterMoves, conn, shared, browser
<1>5. CASE TakeWire(w)
  BY <1>1, <1>5 DEF TakeWire, Send, WaiterMoves, shared
<1>6. CASE CloseDone(w)
  <2>1. waiter' = [waiter EXCEPT ![w] = NoWaiter]
    BY <1>6 DEF CloseDone
  <2>2. waiter'[w].pc = "none" /\ \A v \in Waiters \ {w} : waiter'[v] = waiter[v]
    BY <2>1 DEF TypeOK, NoWaiter
  <2> QED
    BY <1>6, <2>2 DEF CloseDone, WaiterMoves, conn, browser
<1>7. CASE TakeCrashes(w) \/ CloseCrashes(w)
  BY <1>0, <1>7 DEF TakeCrashes, CloseCrashes
<1> QED
  BY <1>2, <1>3, <1>4, <1>5, <1>6, <1>7 DEF Waiter

(* While the connection lasts, no other step is taken.                     *)
LEMMA StepsConnected ==
    ASSUME TypeOK, LostIsSilent, Handshake, connected, [Next]_vars, connected'
    PROVE  \/ Still \/ Receives \/ (Listener /\ ListenerMoves)
           \/ \E w \in Waiters : Waiter(w) /\ WaiterMoves(w)
<1>1. CASE Clients
  BY <1>1, ClientsStill
<1>2. CASE UNCHANGED vars
  BY <1>2 DEF vars, conn, shared, Still
<1>3. CASE Listener
  BY <1>3, ListenerDoes
<1>4. ASSUME NEW w \in Waiters, Waiter(w) PROVE Waiter(w) /\ WaiterMoves(w)
  BY <1>4, WaiterDoes
<1>5. CASE ConnectionLost
  BY <1>5 DEF ConnectionLost, CloseConnection
<1>6. CASE Stop
  BY <1>6 DEF Stop, Crash
<1>7. CASE Restart
  BY <1>7, RestartLeaves DEF LostIsSilent
<1> QED
  BY <1>1, <1>2, <1>3, <1>4, <1>5, <1>6, <1>7 DEF Next

\* Receiving a request tells the goroutine to stop and leaves the connection.
LEMMA ReceivesAttend ==
    ASSUME ~overtaken', TypeOK, Handshake, Receives
    PROVE  /\ UNCHANGED <<connected, channels, notified, wire, sockets, open, received, queue, session>>
           /\ listener.pc = "select" /\ UNCHANGED <<closed, listener.rows>>
           /\ \A w \in Waiters : /\ waiter'[w].pc = waiter[w].pc
                                 /\ waiter[w].pc \notin {"new", "named"}
           /\ \/ /\ listener'.pc = "exec" /\ waiter' = waiter
                 /\ \A w \in Waiters : ~Running(w)
              \/ listener'.pc = "cancelled"
<1>1. /\ listener.pc = "select" /\ UNCHANGED shared
      /\ \A w \in Waiters : waiter[w].pc \notin {"new", "named"}
      /\ \E op \in {"listen", "unlisten"}, s \in Sessions : Receive(op, s)
  BY ReceivesOne
<1>2. PICK op \in {"listen", "unlisten"}, s \in Sessions : Receive(op, s)
  BY <1>1
<1>3. /\ UNCHANGED <<connected, channels, notified, wire, sockets, open, received, queue, session>>
  <2>1. ASSUME NEW a \in attaching, ReceiveListen(a)
        PROVE  UNCHANGED <<db, conn, sockets, browser>>
    BY <2>1 DEF ReceiveListen
  <2>2. ASSUME NEW x \in detaching, ReceiveUnlisten(x)
        PROVE  UNCHANGED <<db, conn, sockets, browser>>
    BY <2>2 DEF ReceiveUnlisten
  <2> QED
    BY <2>1, <2>2 DEF Receives, db, conn, browser
<1>4. CASE cancel = Nil
  <2>1. listener'.pc = "exec" /\ waiter' = waiter /\ listener'.rows = listener.rows
    BY <1>2, <1>4 DEF Receive, TypeOK
  <2>2. \A w \in Waiters : ~Running(w)
    BY <1>1, <1>4 DEF Handshake
  <2> QED
    BY <1>1, <1>3, <2>1, <2>2 DEF shared
<1>5. CASE cancel # Nil
  <2>1. /\ listener'.pc = "cancelled" /\ waiter' = [waiter EXCEPT ![cancel].cancelled = TRUE]
        /\ listener'.rows = listener.rows
    BY <1>2, <1>5 DEF Receive, TypeOK
  <2>2. \A w \in Waiters : waiter'[w].pc = waiter[w].pc
    BY <2>1 DEF TypeOK
  <2> QED
    BY <1>1, <1>3, <2>1, <2>2 DEF shared
<1> QED
  BY <1>4, <1>5

-----------------------------------------------------------------------------
\* A panic leaves nothing to attend to.
LEMMA CrashAttends ==
    ASSUME Crash
    PROVE  RowsOfSession' /\ ToldAwaited' /\ DownIsEmpty' /\ Attended' /\ connected' = FALSE
<1>1. /\ \A w \in Waiters : waiter'[w].pc = "none"
      /\ listener'.rows = {} /\ connected' = FALSE /\ notified' = <<>> /\ wire' = <<>>
  BY DEF Crash, NoWaiter, Idle
<1> QED
  BY <1>1 DEF RowsOfSession, ToldAwaited, DownIsEmpty, Attended, Running

\* The rows replayed are of the session attached.
LEMMA RowsStay ==
    ASSUME ~overtaken', TypeOK, RowsInReplay, RowsOfSession, Handshake, [Next]_vars
    PROVE  RowsOfSession'
<1> USE DEF RowsOfSession
<1>1. CASE Clients \/ ConnectionLost \/ UNCHANGED vars
  BY <1>1, ClientsLeave DEF ConnectionLost, vars
<1>2. CASE Receives
  BY <1>2, ReceivesAttend DEF RowsInReplay
<1>3. CASE Listener
  <2>1. CASE ClearCancel \/ AwaitDone \/ Exec \/ Executed
    BY <2>1 DEF ClearCancel, AwaitDone, Exec, Executed, TypeOK
  <2>2. CASE ListenFails \/ UnlistenFails \/ ListenRefused \/ UnlistenRefused
    BY <2>2 DEF ListenFails, UnlistenFails, ListenRefused, UnlistenRefused, TypeOK
  <2>3. ASSUME NEW w \in Waiters, Spawn(w) PROVE RowsOfSession'
    BY <2>3 DEF Spawn, TypeOK
  <2>4. CASE Query
    <3>1. PICK rows \in SUBSET EventsOf(listener.session) :
            listener' = [listener EXCEPT !.pc = "replay", !.rows = rows]
      BY <2>4 DEF Query
    <3>2. listener'.rows = rows /\ listener'.session = listener.session
      BY <3>1 DEF TypeOK
    <3> QED
      BY <3>2 DEF EventsOf
  <2>7. CASE Replay
    <3>1. PICK e \in listener.rows : listener' = [listener EXCEPT !.rows = @ \ {e}]
      BY <2>7 DEF Replay
    <3>2. listener'.rows = listener.rows \ {e} /\ listener'.session = listener.session
      BY <3>1 DEF TypeOK
    <3> QED
      BY <3>2
  <2>5. CASE ReplayEnds \/ Purge
    BY <2>5 DEF ReplayEnds, Purge, Idle
  <2>6. CASE ReplayCrashes
    BY <2>6, CrashAttends DEF ReplayCrashes
  <2> QED
    BY <1>3, <2>1, <2>2, <2>3, <2>4, <2>5, <2>6, <2>7 DEF Listener
<1>4. ASSUME NEW w \in Waiters, Waiter(w) PROVE RowsOfSession'
  BY <1>4, WaiterLeaves, CrashAttends
<1>5. CASE Stop \/ Restart
  BY <1>5, CrashAttends, RestartLeaves DEF Stop
<1> QED
  BY <1>1, <1>2, <1>3, <1>4, <1>5 DEF Next

\* Only the listener cancels, and it waits next.
LEMMA ToldStay ==
    ASSUME ~overtaken', TypeOK, ToldAwaited, Handshake, [Next]_vars
    PROVE  ToldAwaited'
<1> USE DEF ToldAwaited, Running
<1>1. CASE Clients \/ UNCHANGED vars
  BY <1>1, ClientsApart DEF vars
<1>2. CASE Receives
  BY <1>2, ReceivesAttend
<1>3. CASE Listener
  <2>1. CASE ClearCancel
    BY <2>1 DEF ClearCancel, TypeOK
  <2>2. CASE AwaitDone
    BY <2>2 DEF AwaitDone, Handshake
  <2>3. CASE \/ Exec \/ Executed \/ UnlistenFails \/ ListenRefused \/ UnlistenRefused
             \/ Query \/ Replay \/ ReplayEnds \/ Purge
    BY <2>3 DEF Exec, Executed, UnlistenFails, ExecFails, ListenRefused, UnlistenRefused, Reply,
                Query, Replay, ReplayEnds, Purge
  <2>4. CASE ListenFails
    BY <2>4, CloseConnectionTyped DEF ListenFails, ExecFails, Handshake
  <2>5. ASSUME NEW w \in Waiters, Spawn(w) PROVE ToldAwaited'
    <3>1. waiter'[w].cancelled = FALSE /\ \A v \in Waiters \ {w} : waiter'[v] = waiter[v]
      BY <2>5 DEF Spawn, TypeOK
    <3>2. listener.pc = "spawn"
      BY <2>5 DEF Spawn
    <3> QED
      BY <3>1, <3>2 DEF Handshake
  <2>6. CASE ReplayCrashes
    BY <2>6, CrashAttends DEF ReplayCrashes
  <2> QED
    BY <1>3, <2>1, <2>2, <2>3, <2>4, <2>5, <2>6 DEF Listener
<1>4. ASSUME NEW w \in Waiters, Waiter(w) PROVE ToldAwaited'
  <2>1. ASSUME NEW pc, Goto(w, pc)
        PROVE  /\ \A v \in Waiters : waiter'[v].cancelled = waiter[v].cancelled
               /\ \A v \in Waiters \ {w} : waiter'[v].pc = waiter[v].pc
    BY <2>1 DEF Goto, TypeOK
  <2>2. CASE AssignDone(w) \/ AssignCancel(w) \/ TakeNotified(w) \/ Wait(w) \/ TakeWire(w)
             \/ Cancelled(w)
    BY <2>1, <2>2 DEF AssignDone, AssignCancel, TakeNotified, Wait, TakeWire, Cancelled
  <2>3. CASE CloseDone(w)
    BY <2>3 DEF CloseDone, TypeOK, NoWaiter
  <2>4. CASE TakeCrashes(w) \/ CloseCrashes(w)
    BY <2>4, CrashAttends DEF TakeCrashes, CloseCrashes
  <2> QED
    BY <1>4, <2>2, <2>3, <2>4 DEF Waiter
<1>5. CASE Stop
  BY <1>5, CrashAttends DEF Stop
<1>6. CASE Restart
  BY <1>6, RestartLeaves DEF Restart
<1>7. CASE ConnectionLost
  <2>1. listener' = listener /\ CloseConnection
    BY <1>7 DEF ConnectionLost
  <2> QED
    BY <2>1, CloseConnectionTyped DEF CloseConnection, TypeOK
<1> QED
  BY <1>1, <1>2, <1>3, <1>4, <1>5, <1>6, <1>7 DEF Next

\* A panic or a stop takes goroutines and notifications along.
LEMMA DownStays ==
    ASSUME ~overtaken', TypeOK, LostIsSilent, Handshake, DownIsEmpty, [Next]_vars
    PROVE  DownIsEmpty'
<1> USE DEF DownIsEmpty
<1>1. CASE Clients \/ UNCHANGED vars
  <2>1. Still
    BY <1>1, ClientsStill DEF vars, conn, shared, Still
  <2> QED
    BY <2>1 DEF Still, LostIsSilent, Running
<1>2. CASE Receives
  BY <1>2, ReceivesAttend
<1>3. CASE Listener
  <2>1. listener'.pc # "down" \/ Crash
    <3>1. CASE ClearCancel \/ AwaitDone \/ Exec \/ Executed \/ ListenRefused \/ UnlistenRefused
      BY <3>1 DEF ClearCancel, AwaitDone, Exec, Executed, ListenRefused, UnlistenRefused, TypeOK
    <3>2. CASE ListenFails \/ UnlistenFails
      BY <3>2 DEF ListenFails, UnlistenFails, TypeOK
    <3>3. ASSUME NEW w \in Waiters, Spawn(w) PROVE listener'.pc # "down"
      BY <3>3 DEF Spawn, TypeOK
    <3>4. CASE Query \/ Replay
      BY <3>4 DEF Query, Replay, TypeOK
    <3>5. CASE ReplayEnds \/ Purge
      BY <3>5 DEF ReplayEnds, Purge, Idle
    <3> QED
      BY <1>3, <3>1, <3>2, <3>3, <3>4, <3>5 DEF Listener, ReplayCrashes
  <2> QED
    BY <2>1, CrashAttends
<1>4. ASSUME NEW w \in Waiters, Waiter(w) PROVE DownIsEmpty'
  <2>1. ~Crash => listener' = listener /\ Running(w)
    BY <1>4, WaiterLeaves DEF Waiter, AssignDone, AssignCancel, TakeNotified, Wait, TakeWire,
                Cancelled, TakeCrashes, CloseDone, CloseCrashes, Running
  <2> QED
    BY <2>1, CrashAttends
<1>5. CASE Stop
  BY <1>5, CrashAttends DEF Stop
<1>6. CASE Restart
  BY <1>6, RestartLeaves DEF Restart
<1>7. CASE ConnectionLost
  BY <1>7 DEF ConnectionLost, LostIsSilent
<1> QED
  BY <1>1, <1>2, <1>3, <1>4, <1>5, <1>6, <1>7 DEF Next

\* Whoever leaves the connection leaves it to someone.
LEMMA AttendedStays ==
    ASSUME ~overtaken', TypeOK, LostIsSilent, Handshake, ToldAwaited, DownIsEmpty, Attended, [Next]_vars
    PROVE  Attended'
<1> SUFFICES ASSUME connected' PROVE Attended'
  BY DEF Attended
<1> USE DEF Attended, Running
<1>1. CASE ~connected
  <2>1. Restart
    <3>1. CASE Clients \/ UNCHANGED vars
      BY <1>1, <3>1, ClientsLeave DEF vars, conn
    <3>2. CASE Receives
      BY <1>1, <3>2, ReceivesLeave
    <3>3. CASE Listener
      BY <1>1, <3>3, CrashAttends DEF Listener, ClearCancel, AwaitDone, Exec, Executed,
         ListenRefused, UnlistenRefused, Reply, GiveBack, ListenFails, UnlistenFails, Spawn,
         Query, Replay, ReplayEnds, ReplayCrashes, Purge, CloseConnection, conn
    <3>4. ASSUME NEW w \in Waiters, Waiter(w) PROVE FALSE
      BY <1>1, <3>4, WaiterLeaves, CrashAttends
    <3>5. CASE Stop
      BY <3>5, CrashAttends DEF Stop
    <3>6. CASE ConnectionLost
      BY <1>1, <3>6 DEF ConnectionLost, CloseConnection
    <3> QED
      BY <3>1, <3>2, <3>3, <3>4, <3>5, <3>6 DEF Next
  <2> QED
    BY <1>1, <2>1, RestartLeaves DEF Restart, DownIsEmpty, LostIsSilent
<1>2. CASE connected
  <2>1. CASE Still
    BY <1>2, <2>1 DEF Still
  <2>2. CASE Receives
    BY <1>2, <2>2, ReceivesAttend DEF Between, ToldAwaited
  <2>3. CASE Listener /\ ListenerMoves
    <3>1. CASE listener.pc \in {"cancelled", "await", "exec"}
      BY <1>2, <2>3, <3>1 DEF ListenerMoves, Between
    <3>2. CASE listener.pc = "executing"
      BY <1>2, <2>3, <3>2 DEF ListenerMoves, Between, Handshake
    <3>3. CASE listener.pc = "spawn"
      <4>1. PICK w \in Waiters :
              waiter' = [waiter EXCEPT ![w] = [pc |-> "new", cancelled |-> FALSE]]
        BY <2>3, <3>3 DEF ListenerMoves
      <4>2. waiter'[w].pc = "new" /\ \A v \in Waiters \ {w} : waiter'[v] = waiter[v]
        BY <4>1 DEF TypeOK
      <4> QED
        BY <1>2, <3>3, <4>2 DEF Handshake
    <3>4. CASE listener.pc \in {"query", "replay", "purge"}
      BY <1>2, <2>3, <3>4 DEF ListenerMoves, Between
    <3> QED
      BY <2>3, <3>1, <3>2, <3>3, <3>4 DEF ListenerMoves
  <2>4. ASSUME NEW w \in Waiters, WaiterMoves(w) PROVE Attended'
    <3>1. \A v \in Waiters : waiter[v].pc # "none" => v = w
      BY <2>4 DEF WaiterMoves, Handshake
    <3>2. \A v \in Waiters : waiter'[v].pc # "none" => v = w
      BY <2>4, <3>1 DEF WaiterMoves
    <3>3. CASE waiter[w].pc = "closing"
      <4>1. waiter[w].cancelled /\ notified = <<>>
        BY <1>2, <3>1, <3>3 DEF Handshake
      <4>2. listener.pc \in {"cancelled", "await"}
        BY <3>3, <4>1 DEF ToldAwaited
      <4> QED
        BY <2>4, <3>2, <3>3, <4>1, <4>2 DEF WaiterMoves, Between
    <3>4. CASE waiter[w].pc = "waiting"
      <4>1. notified = <<>>
        BY <1>2, <3>1, <3>4 DEF Handshake
      <4> QED
        BY <2>4, <3>2, <3>4, <4>1 DEF WaiterMoves
    <3>5. CASE waiter[w].pc \in {"new", "named", "loop"}
      BY <2>4, <3>2, <3>5 DEF WaiterMoves
    <3> QED
      BY <2>4, <3>3, <3>4, <3>5 DEF WaiterMoves
  <2> QED
    BY <1>2, <2>1, <2>2, <2>3, <2>4, StepsConnected
<1> QED
  BY <1>1, <1>2

\* A step keeps the invariant unless a request overtakes a goroutine.
LEMMA LiveInvKept == LiveInv /\ [Next]_vars /\ ~overtaken' => LiveInv'
BY StepTyped, EventsKept, RowsKept, SilenceKept, HandshakeKept, FreedKept,
   RowsStay, ToldStay, DownStays, AttendedStays DEF LiveInv, DeliveryInv

\* It holds at first.
LEMMA LiveInvInit == Init => LiveInv
<1> SUFFICES ASSUME Init PROVE LiveInv
  OBVIOUS
<1>0. PICK pc \in {"select", "dead"} : listener = Idle(pc) /\ connected = (pc = "select")
  BY DEF Init
<1>1. /\ \A w \in Waiters : waiter[w].pc = "none"
      /\ done = Nil /\ cancel = Nil /\ listener.pc \in {"select", "dead"} /\ listener.rows = {}
      /\ connected => listener.pc = "select"
  BY <1>0 DEF Init, NoWaiter, Idle
<1>2. Handshake /\ Freed
  BY <1>1, NoneRunning DEF Freed
<1>3. DeliveryInv
  BY <1>1 DEF Init, DeliveryInv, RowsInReplay, LostIsSilent, NoEventLost
<1>4. RowsOfSession /\ ToldAwaited /\ DownIsEmpty /\ Attended
  BY <1>1 DEF Init, RowsOfSession, ToldAwaited, DownIsEmpty, Attended, Running
<1> QED
  BY <1>2, <1>3, <1>4, InitTyped DEF LiveInv

(* While the connection lasts and listens to a session, a goroutine        *)
(* attends to it or the listener is about to start one, in a process where *)
(* no request has overtaken a goroutine.                                   *)
THEOREM LiveInvHolds == Spec => [](overtaken \/ LiveInv)
<1>1. TypeOK /\ DeliveryInv /\ Crash /\ [Next]_vars => LiveInv'
  BY StepTyped, EventsKept, RowsKept, SilenceKept, CrashHandshake, CrashFrees, CrashAttends
  DEF LiveInv, DeliveryInv
<1>2. /\ TypeOK /\ DeliveryInv /\ (overtaken \/ LiveInv) /\ [Next]_vars
      => overtaken' \/ LiveInv'
  BY <1>1, LiveInvKept, StaysOvertaken
<1> QED
  BY <1>2, LiveInvInit, WebSocketTyping, Delivery, PTL DEF Spec

-----------------------------------------------------------------------------
(* Where the goroutine is, if one runs.                                    *)
PhaseIn(f) == IF \E w \in Waiters : f[w].pc # "none"
              THEN f[CHOOSE w \in Waiters : f[w].pc # "none"].pc ELSE "none"
Phase == PhaseIn(waiter)

\* At most one goroutine runs, so there is one place ...
LEMMA PhaseIs ==
    ASSUME NEW f, NEW w \in Waiters, \A v \in Waiters \ {w} : f[v].pc = "none"
    PROVE  PhaseIn(f) = f[w].pc
<1>1. CASE f[w].pc = "none"
  BY <1>1 DEF PhaseIn
<1>2. CASE f[w].pc # "none"
  <2>1. (CHOOSE v \in Waiters : f[v].pc # "none") = w
    BY <1>2
  <2> QED
    BY <1>2, <2>1 DEF PhaseIn
<1> QED
  BY <1>1, <1>2

\* ... and it depends on the places of the goroutines only.
LEMMA PhaseSame ==
    ASSUME NEW f, NEW g, \A v \in Waiters : f[v].pc = g[v].pc,
           \A v, w \in Waiters : f[v].pc # "none" /\ f[w].pc # "none" => v = w
    PROVE  PhaseIn(f) = PhaseIn(g)
<1>1. CASE \E w \in Waiters : f[w].pc # "none"
  <2>1. PICK w \in Waiters : f[w].pc # "none"
    BY <1>1
  <2>2. /\ \A v \in Waiters \ {w} : f[v].pc = "none"
        /\ \A v \in Waiters \ {w} : g[v].pc = "none"
    BY <2>1
  <2> QED
    BY <2>2, PhaseIs
<1>2. CASE ~ \E w \in Waiters : f[w].pc # "none"
  BY <1>2 DEF PhaseIn
<1> QED
  BY <1>1, <1>2

\* The goroutine that runs, if any, is there.
LEMMA PhaseNow ==
    ASSUME TypeOK, Handshake
    PROVE  /\ Phase \in WaiterPc
           /\ Phase = "none" => \A w \in Waiters : ~Running(w)
           /\ Phase # "none" => \E w \in Waiters : Running(w)
           /\ \A w \in Waiters : Running(w) => Phase = waiter[w].pc
<1>1. ASSUME NEW w \in Waiters, Running(w)
      PROVE  Phase = waiter[w].pc
  <2>1. \A v \in Waiters \ {w} : waiter[v].pc = "none"
    BY <1>1 DEF Handshake, Running
  <2> QED
    BY <2>1, PhaseIs DEF Phase
<1>2. CASE \E w \in Waiters : Running(w)
  <2>1. PICK w \in Waiters : Running(w)
    BY <1>2
  <2>2. Phase = waiter[w].pc /\ waiter[w].pc \in WaiterPc /\ waiter[w].pc # "none"
    BY <1>1, <2>1 DEF TypeOK, Running
  <2> QED
    BY <1>1, <2>1, <2>2
<1>3. CASE ~ \E w \in Waiters : Running(w)
  <2>1. Phase = "none"
    BY <1>3 DEF Phase, PhaseIn, Running
  <2> QED
    BY <1>3, <2>1 DEF WaiterPc
<1> QED
  BY <1>2, <1>3

\* A step of a goroutine is a step of the one that runs.
LEMMA PhaseMoves ==
    ASSUME TypeOK, Handshake, NEW w \in Waiters, WaiterMoves(w)
    PROVE  Phase = waiter[w].pc /\ Phase' = waiter'[w].pc
<1>1. waiter[w].pc # "none"
  BY DEF WaiterMoves
<1>2. \A v \in Waiters \ {w} : waiter[v].pc = "none" /\ waiter'[v].pc = "none"
  BY <1>1 DEF WaiterMoves, Handshake, Running
<1> QED
  BY <1>2, PhaseIs DEF Phase

\* A request that overtakes no goroutine moves none.
LEMMA PhaseReceives ==
    ASSUME ~overtaken', TypeOK, Handshake, Receives
    PROVE  Phase' = Phase /\ Phase \notin {"new", "named"}
<1>1. Phase' = Phase
  <2>1. \A v \in Waiters : waiter'[v].pc = waiter[v].pc
    BY ReceivesAttend
  <2>2. \A v, w \in Waiters : waiter[v].pc # "none" /\ waiter[w].pc # "none" => v = w
    BY DEF Handshake, Running
  <2> QED
    BY <2>1, <2>2, PhaseSame DEF Phase
<1> QED
  BY <1>1, PhaseNow, ReceivesAttend DEF Running

\* The listener moves the goroutine only by starting it.
LEMMA PhaseListener ==
    ASSUME TypeOK, Handshake, ListenerMoves
    PROVE  /\ listener.pc # "spawn" => Phase' = Phase
           /\ listener.pc = "spawn" => Phase = "none" /\ Phase' = "new"
           /\ listener.pc \in {"exec", "executing", "spawn"} => Phase = "none"
           /\ listener.pc \in {"cancelled", "await"} => Phase \notin {"new", "named"}
<1>1. listener.pc # "spawn" => Phase' = Phase
  BY DEF ListenerMoves, Phase, PhaseIn
<1>2. ASSUME listener.pc = "spawn" PROVE Phase' = "new"
  <2>1. PICK w \in Waiters :
          waiter' = [waiter EXCEPT ![w] = [pc |-> "new", cancelled |-> FALSE]]
    BY <1>2 DEF ListenerMoves
  <2>2. waiter'[w].pc = "new" /\ \A v \in Waiters \ {w} : waiter'[v].pc = "none"
    BY <1>2, <2>1 DEF TypeOK, Handshake, Running
  <2> QED
    BY <2>2, PhaseIs DEF Phase
<1>3. listener.pc \in {"exec", "executing", "spawn"} => Phase = "none"
  BY PhaseNow DEF Handshake
<1>4. listener.pc \in {"cancelled", "await"} => Phase \notin {"new", "named"}
  BY PhaseNow DEF Handshake, Running
<1> QED
  BY <1>1, <1>2, <1>3, <1>4

-----------------------------------------------------------------------------
\* Events of one session differ by their ids: there are at most MaxEvents.
LEMMA OfOneSession ==
    ASSUME NEW S \in SUBSET Event, \A e, f \in S : e.session = f.session
    PROVE  IsFiniteSet(S) /\ Cardinality(S) \in 0..MaxEvents
<1> DEFINE id == [e \in S |-> e.id]
<1>1. id \in Injection(S, 1..MaxEvents)
  <2>1. id \in [S -> 1..MaxEvents]
    BY DEF Event
  <2>2. ASSUME NEW e \in S, NEW f \in S, e.id = f.id PROVE e = f
    BY <2>2 DEF Event
  <2> QED
    BY <2>1, <2>2 DEF Injection, IsInjective
<1>2. IsFiniteSet(1..MaxEvents) /\ Cardinality(1..MaxEvents) = MaxEvents
  BY FS_Interval, WebSocketAssumption DEF WebSocketAssumption
<1>3. IsFiniteSet(S) /\ Cardinality(S) <= MaxEvents
  BY <1>1, <1>2, FS_Injection
<1> QED
  BY <1>3, FS_CardinalityType, WebSocketAssumption DEF WebSocketAssumption

(* How far the listener is from its next request.  Drain: the steps of a   *)
(* goroutine told to stop, which takes the notifications queued first.     *)
Drain  == CASE Phase = "waiting" -> 3
            [] Phase = "loop"    -> 2 + Len(notified)
            [] Phase = "closing" -> 1
            [] OTHER             -> 0

\* The steps of a goroutine just started, for which the next request waits.
Naming == CASE Phase = "new"   -> 2
            [] Phase = "named" -> 1
            [] OTHER           -> 0

\* The steps of the two together; 0 when the listener can receive a request.
Left   == CASE listener.pc = "cancelled" -> MaxEvents + 12 + Drain
            [] listener.pc = "await"     -> MaxEvents + 11 + Drain
            [] listener.pc = "exec"      -> MaxEvents + 10
            [] listener.pc = "executing" -> MaxEvents + 9
            [] listener.pc = "spawn"     -> MaxEvents + 8
            [] listener.pc = "query"     -> MaxEvents + 4 + Naming
            [] listener.pc = "replay"    -> 3 + Cardinality(listener.rows) + Naming
            [] listener.pc = "purge"     -> 3 + Naming
            [] OTHER                     -> Naming

\* The goroutine that the listener needs to go on.
Needed(w) == \/ listener.pc = "await" /\ listener.wait \notin closed /\ Running(w)
             \/ listener.pc = "select" /\ waiter[w].pc \in {"new", "named"}

\* These are numbers.
LeftKnown == /\ Left \in Nat /\ Drain \in Nat /\ Naming \in 0..2
             /\ IsFiniteSet(listener.rows) /\ Cardinality(listener.rows) \in 0..MaxEvents

LEMMA LeftTyped ==
    ASSUME LiveInv
    PROVE  LeftKnown
<1>1. MaxEvents \in Nat
  BY WebSocketAssumption DEF WebSocketAssumption
<1>2. Drain \in Nat
  <2>1. Len(notified) \in Nat
    BY DEF LiveInv, TypeOK
  <2> QED
    BY <2>1 DEF Drain
<1>3. Naming \in 0..2
  BY DEF Naming
<1>4. IsFiniteSet(listener.rows) /\ Cardinality(listener.rows) \in 0..MaxEvents
  <2>1. listener.rows \in SUBSET Event
    BY DEF LiveInv, TypeOK
  <2> QED
    BY <2>1, OfOneSession DEF LiveInv, RowsOfSession
<1>5. Left \in Nat
  BY <1>1, <1>2, <1>3, <1>4 DEF Left
<1> QED
  BY <1>2, <1>3, <1>4, <1>5 DEF LeftKnown

\* The same, after a step.
LEMMA LeftTypedNext == LiveInv' => LeftKnown'
<1>1. LiveInv => LeftKnown
  BY LeftTyped
<1> QED
  BY <1>1, PTL

\* Someone who can bring the listener on always can go on.
LEMMA LeftHelped ==
    ASSUME LiveInv, connected, Left # 0
    PROVE  /\ ListenerAble \/ \E w \in Waiters : Needed(w)
           /\ \A w \in Waiters : Needed(w) =>
                 \/ waiter[w].pc \in {"new", "named", "loop", "closing"}
                 \/ waiter[w].pc = "waiting" /\ waiter[w].cancelled
<1>0. listener.pc \notin {"dead", "down"} /\ listener.pc \in ListenerPc
  BY DEF LiveInv, DeliveryInv, LostIsSilent, TypeOK
<1>1. CASE listener.pc = "await" /\ listener.wait \notin closed
  <2>1. done # Nil /\ done \notin closed /\ done \in Waiters
    BY <1>1 DEF LiveInv, Handshake, TypeOK
  <2>2. Running(done)
    BY <2>1 DEF LiveInv, Freed
  <2>3. ASSUME NEW w \in Waiters, Running(w)
        PROVE  waiter[w].cancelled /\ waiter[w].pc \in {"loop", "waiting", "closing"}
    BY <1>1, <2>3 DEF LiveInv, Freed, Handshake, Running, TypeOK, WaiterPc
  <2> QED
    BY <1>1, <2>1, <2>2, <2>3 DEF Needed
<1>2. CASE listener.pc = "select"
  <2>1. Left = Naming
    BY <1>2 DEF Left
  <2>2. Phase \in {"new", "named"}
    BY <2>1 DEF Naming
  <2>3. \E w \in Waiters : waiter[w].pc \in {"new", "named"}
    BY <2>2, PhaseNow DEF LiveInv
  <2> QED
    BY <1>2, <2>3 DEF Needed
<1>3. CASE listener.pc \notin {"await", "select"} \/ (listener.pc = "await" /\ listener.wait \in closed)
  BY <1>0, <1>3 DEF Needed, ListenerAble, ListenerPc
<1> QED
  BY <1>1, <1>2, <1>3

\* Each step of the listener brings it nearer to its next request.
LEMMA LeftListener ==
    ASSUME LiveInv, LiveInv', connected, ListenerMoves
    PROVE  Left' < Left
<1>1. MaxEvents \in Nat
  BY WebSocketAssumption DEF WebSocketAssumption
<1>2. /\ Drain \in Nat /\ Naming \in 0..2 /\ Cardinality(listener.rows) \in 0..MaxEvents
      /\ Drain' \in Nat /\ Naming' \in 0..2 /\ Cardinality(listener'.rows) \in 0..MaxEvents
      /\ IsFiniteSet(listener.rows)
  BY LeftTyped, LeftTypedNext DEF LeftKnown
<1>3. /\ listener.pc # "spawn" => Phase' = Phase
      /\ listener.pc \in {"exec", "executing", "spawn"} => Phase = "none"
  BY PhaseListener DEF LiveInv
<1>4. /\ listener.pc # "spawn" => Naming' = Naming
      /\ listener.pc \notin {"spawn", "executing"} => Drain' = Drain
  BY <1>3 DEF Naming, Drain, ListenerMoves
<1>5. CASE listener.pc \in {"cancelled", "await", "exec", "executing", "spawn"}
  BY <1>1, <1>2, <1>4, <1>5 DEF Left, ListenerMoves
<1>6. CASE listener.pc = "query"
  BY <1>1, <1>2, <1>4, <1>6 DEF Left, ListenerMoves
<1>7. CASE listener.pc = "replay" /\ listener'.pc = "replay"
  <2>1. PICK e \in listener.rows : listener'.rows = listener.rows \ {e}
    BY <1>7 DEF ListenerMoves
  <2>2. Cardinality(listener'.rows) = Cardinality(listener.rows) - 1
    BY <1>2, <2>1, FS_RemoveElement
  <2>3. /\ Left = 3 + Cardinality(listener.rows) + Naming
        /\ Left' = 3 + Cardinality(listener'.rows) + Naming'
    BY <1>7 DEF Left
  <2>4. Naming' = Naming
    BY <1>4, <1>7
  <2> QED
    BY <1>2, <2>2, <2>3, <2>4
<1>8. CASE listener.pc \in {"replay", "purge"} /\ listener'.pc = "select"
  <2>1. Left' = Naming' /\ Naming' = Naming
    BY <1>4, <1>8 DEF Left
  <2>2. Left \in Nat /\ Left >= 3 + Naming
    BY <1>2, <1>8 DEF Left
  <2> QED
    BY <1>2, <2>1, <2>2
<1> QED
  BY <1>5, <1>6, <1>7, <1>8 DEF ListenerMoves

(* The goroutine does not set the listener back, and brings it on when it  *)
(* has to stop or has just been started.                                   *)
LEMMA LeftWaiter ==
    ASSUME LiveInv, LiveInv', connected, NEW w \in Waiters, WaiterMoves(w)
    PROVE  \/ Left' < Left
           \/ /\ Left' = Left /\ listener.pc \notin {"cancelled", "await"}
              /\ waiter[w].pc \notin {"new", "named"}
<1>1. MaxEvents \in Nat
  BY WebSocketAssumption DEF WebSocketAssumption
<1>2. /\ Drain \in Nat /\ Naming \in 0..2 /\ Cardinality(listener.rows) \in 0..MaxEvents
      /\ Drain' \in Nat /\ Naming' \in 0..2
  BY LeftTyped, LeftTypedNext DEF LeftKnown
<1>3. Phase = waiter[w].pc /\ Phase' = waiter'[w].pc /\ listener' = listener
  BY PhaseMoves DEF LiveInv, WaiterMoves
<1>4. listener.pc \notin {"exec", "executing", "spawn", "dead", "down"}
  <2>1. Running(w)
    BY DEF WaiterMoves, Running
  <2> QED
    BY <2>1 DEF LiveInv, Handshake, DeliveryInv, LostIsSilent
<1>5. CASE waiter[w].pc \in {"new", "named"}
  <2>1. Naming' < Naming
    BY <1>3, <1>5 DEF WaiterMoves, Naming
  <2>2. listener.pc \notin {"cancelled", "await"}
    BY <1>5 DEF LiveInv, Handshake, Running
  <2> QED
    BY <1>1, <1>2, <1>3, <1>4, <2>1, <2>2 DEF Left
<1>6. CASE waiter[w].pc \notin {"new", "named"} /\ listener.pc \in {"cancelled", "await"}
  <2>1. waiter[w].pc \in {"waiting", "closing"} => notified = <<>>
    BY DEF LiveInv, Attended, Handshake, Running
  <2>2. waiter[w].cancelled
    <3>1. Running(w)
      BY DEF WaiterMoves, Running
    <3> QED
      BY <1>6, <3>1 DEF LiveInv, Freed
  <2>3. Drain' < Drain
    <3>1. CASE waiter[w].pc \in {"waiting", "closing"}
      BY <1>3, <2>1, <3>1 DEF WaiterMoves, Drain
    <3>2. CASE waiter[w].pc = "loop" /\ notified = <<>>
      BY <1>3, <2>2, <3>2 DEF WaiterMoves, Drain
    <3>3. CASE waiter[w].pc = "loop" /\ notified # <<>>
      <4>1. notified' = Tail(notified) /\ waiter'[w].pc = "loop"
        BY <3>3 DEF WaiterMoves
      <4>2. Len(notified') < Len(notified) /\ Len(notified) \in Nat /\ Len(notified') \in Nat
        BY <3>3, <4>1 DEF LiveInv, TypeOK
      <4>3. Drain = 2 + Len(notified) /\ Drain' = 2 + Len(notified')
        BY <1>3, <3>3, <4>1 DEF Drain
      <4> QED
        BY <4>2, <4>3
    <3> QED
      BY <1>6, <3>1, <3>2, <3>3 DEF WaiterMoves
  <2> QED
    BY <1>1, <1>2, <1>3, <1>6, <2>3 DEF Left
<1>7. CASE waiter[w].pc \notin {"new", "named"} /\ listener.pc \notin {"cancelled", "await"}
  <2>1. waiter'[w].pc \notin {"new", "named"}
    BY <1>7 DEF WaiterMoves
  <2>2. Naming = 0 /\ Naming' = 0
    BY <1>3, <1>7, <2>1 DEF Naming
  <2> QED
    BY <1>3, <1>4, <1>7, <2>2 DEF Left
<1> QED
  BY <1>5, <1>6, <1>7

(* A behaviour, from any of its states on, in which no request overtakes a *)
(* goroutine any more.                                                     *)
Lively == /\ []LiveInv /\ [][Next]_vars /\ Fairness
          /\ []GoroutinesNotStuck /\ []~overtaken

\* Fairness holds of a behaviour from any of its states on.
LEMMA FairForever == Fairness => []Fairness
<1> DEFINE Waits    == \A w \in Waiters : FairWaiter(w)
           Listens  == \A a \in [socket : Sockets, session : Sessions] : FairListen(a)
           Unlistens == \A s \in Sessions : FairUnlisten(s)
<1>1. FairListener => []FairListener
  BY PTL DEF FairListener
<1>2. Waits => []Waits
  <2>1. ASSUME NEW w \in Waiters PROVE FairWaiter(w) => []FairWaiter(w)
    BY PTL DEF FairWaiter
  <2>2. Waits => \A w \in Waiters : []FairWaiter(w)
    BY <2>1
  <2>3. (\A w \in Waiters : []FairWaiter(w)) => []Waits
    OBVIOUS
  <2> QED
    BY <2>2, <2>3
<1>3. Listens => []Listens
  <2>1. ASSUME NEW a \in [socket : Sockets, session : Sessions]
        PROVE  FairListen(a) => []FairListen(a)
    BY PTL DEF FairListen
  <2>2. Listens => \A a \in [socket : Sockets, session : Sessions] : []FairListen(a)
    BY <2>1
  <2>3. (\A a \in [socket : Sockets, session : Sessions] : []FairListen(a)) => []Listens
    OBVIOUS
  <2> QED
    BY <2>2, <2>3
<1>4. Unlistens => []Unlistens
  <2>1. ASSUME NEW s \in Sessions PROVE FairUnlisten(s) => []FairUnlisten(s)
    BY PTL DEF FairUnlisten
  <2>2. Unlistens => \A s \in Sessions : []FairUnlisten(s)
    BY <2>1
  <2>3. (\A s \in Sessions : []FairUnlisten(s)) => []Unlistens
    OBVIOUS
  <2> QED
    BY <2>2, <2>3
<1>5. Fairness <=> FairListener /\ Waits /\ Listens /\ Unlistens
  BY DEF Fairness
<1> HIDE DEF Waits, Listens, Unlistens
<1> QED
  BY <1>1, <1>2, <1>3, <1>4, <1>5, PTL

\* A fair behaviour is lively once no request overtakes a goroutine any more.
LEMMA FairLively == FairSpec => [](overtaken \/ LiveInv) /\ [][Next]_vars /\ []Fairness
BY LiveInvHolds, FairForever, PTL DEF FairSpec, Spec

\* Each goroutine is scheduled fairly ...
LEMMA WaitersFair == ASSUME NEW w \in Waiters PROVE Lively => WF_vars(Waiter(w))
<1>1. Lively => Fairness
  BY PTL DEF Lively
<1>2. Fairness => FairWaiter(w)
  BY DEF Fairness
<1> QED
  BY <1>1, <1>2, PTL DEF FairWaiter

\* ... and so is the listener.
LEMMA ListenerFair == Lively => WF_vars(Listener)
BY PTL DEF Lively, Fairness, FairListener

-----------------------------------------------------------------------------
\* The listener is n steps from its next request, and who can bring it nearer.
At(n)          == connected /\ Left = n /\ n # 0
ListenerAt(n)  == At(n) /\ ListenerAble
WaiterAt(n, w) == At(n) /\ Needed(w)

\* It is nearer, or back at its select, or has lost its connection.
Nearer(n) == ~connected \/ Left < n
Back      == ~connected \/ Left = 0

\* Nobody sets the listener back, and who can bring it nearer does.
LEMMA LeftSteps ==
    ASSUME ~overtaken', NEW n \in Nat, LiveInv, [Next]_vars, At(n)
    PROVE  /\ ListenerAble => ListenerAt(n)' \/ Nearer(n)'
           /\ \A w \in Waiters : Needed(w) => WaiterAt(n, w)' \/ Nearer(n)'
           /\ Listener => Nearer(n)'
           /\ \A w \in Waiters : Needed(w) /\ Waiter(w) => Nearer(n)'
<1> SUFFICES ASSUME connected'
             PROVE  /\ ListenerAble => ListenerAt(n)' \/ Nearer(n)'
                    /\ \A w \in Waiters : Needed(w) => WaiterAt(n, w)' \/ Nearer(n)'
                    /\ Listener => Nearer(n)'
                    /\ \A w \in Waiters : Needed(w) /\ Waiter(w) => Nearer(n)'
  BY DEF Nearer
<1>1. connected /\ Left = n /\ n # 0 /\ LiveInv'
  BY LiveInvKept DEF At
<1>2. ASSUME Listener PROVE Nearer(n)'
  <2>1. ListenerMoves
    BY <1>1, <1>2, ListenerDoes DEF LiveInv
  <2> QED
    BY <1>1, <2>1, LeftListener DEF Nearer
<1>3. ASSUME NEW w \in Waiters, Waiter(w)
      PROVE  /\ Needed(w) => Nearer(n)'
             /\ ListenerAble => ListenerAt(n)' \/ Nearer(n)'
             /\ \A v \in Waiters : Needed(v) => WaiterAt(n, v)' \/ Nearer(n)'
  <2>1. WaiterMoves(w)
    BY <1>1, <1>3, WaiterDoes DEF LiveInv, DeliveryInv
  <2>2. \/ Left' < Left
        \/ /\ Left' = Left /\ listener.pc \notin {"cancelled", "await"}
           /\ waiter[w].pc \notin {"new", "named"}
    BY <1>1, <2>1, LeftWaiter
  <2>3. ASSUME NEW v \in Waiters, Needed(v), ~(Left' < Left) PROVE FALSE
    <3>1. Running(v) /\ Running(w)
      BY <2>1, <2>3 DEF Needed, WaiterMoves, Running
    <3>2. v = w
      BY <3>1 DEF LiveInv, Handshake
    <3> QED
      BY <2>2, <2>3, <3>2 DEF Needed
  <2>4. ASSUME ListenerAble, ~(Left' < Left) PROVE ListenerAt(n)'
    BY <1>1, <2>1, <2>2, <2>4 DEF ListenerAble, ListenerAt, At, WaiterMoves
  <2> QED
    BY <1>1, <2>3, <2>4 DEF Nearer
<1>4. CASE Still
  <2>1. Phase' = Phase /\ Naming' = Naming /\ Drain' = Drain
    BY <1>4 DEF Still, Phase, Naming, Drain
  <2>2. Left' = Left
    BY <1>4, <2>1 DEF Still, Left
  <2> QED
    BY <1>1, <1>2, <1>3, <1>4, <2>2
    DEF Still, ListenerAt, WaiterAt, At, ListenerAble, Needed, Running
<1>5. CASE Receives
  <2>1. listener.pc = "select" /\ Phase \notin {"new", "named"}
    BY <1>5, ReceivesAttend, PhaseReceives DEF LiveInv
  <2>2. Left = 0
    BY <2>1 DEF Left, Naming
  <2> QED
    BY <1>1, <2>2
<1> QED
  BY <1>1, <1>2, <1>3, <1>4, <1>5, StepsConnected DEF LiveInv, DeliveryInv

\* By fairness it comes nearer.
LEMMA NearerSteps ==
    ASSUME NEW n \in Nat
    PROVE  Lively => [](At(n) => <>Nearer(n))
<1>1. Lively => [](ListenerAt(n) => <>Nearer(n))
  <2>1. LiveInv /\ [Next]_vars /\ ~overtaken' => (ListenerAt(n) => ListenerAt(n)' \/ Nearer(n)')
    BY LeftSteps DEF ListenerAt
  <2>2. LiveInv /\ [Next]_vars /\ ~overtaken' => (ListenerAt(n) /\ <<Listener>>_vars => Nearer(n)')
    BY LeftSteps DEF ListenerAt
  <2>3. GoroutinesNotStuck => (ListenerAt(n) => ENABLED <<Listener>>_vars)
    BY DEF GoroutinesNotStuck, ListenerAt
  <2> QED
    BY <2>1, <2>2, <2>3, ListenerFair, PTL DEF Lively
<1>2. ASSUME NEW w \in Waiters
      PROVE  Lively => [](WaiterAt(n, w) => <>Nearer(n))
  <2>1. LiveInv /\ [Next]_vars /\ ~overtaken' => (WaiterAt(n, w) => WaiterAt(n, w)' \/ Nearer(n)')
    BY LeftSteps DEF WaiterAt
  <2>2. LiveInv /\ [Next]_vars /\ ~overtaken' => (WaiterAt(n, w) /\ <<Waiter(w)>>_vars => Nearer(n)')
    BY LeftSteps DEF WaiterAt
  <2>3. LiveInv /\ GoroutinesNotStuck => (WaiterAt(n, w) => ENABLED <<Waiter(w)>>_vars)
    BY LeftHelped DEF GoroutinesNotStuck, WaiterAble, WaiterAt, At
  <2> QED
    BY <2>1, <2>2, <2>3, WaitersFair, PTL DEF Lively
<1> DEFINE Some == \E w \in Waiters : WaiterAt(n, w)
           All  == \A w \in Waiters : [](WaiterAt(n, w) => <>Nearer(n))
<1>3. Lively => All
  BY <1>2
<1>4. All => [](\A w \in Waiters : WaiterAt(n, w) => <>Nearer(n))
  OBVIOUS
<1>5. (\A w \in Waiters : WaiterAt(n, w) => <>Nearer(n)) => (Some => <>Nearer(n))
  OBVIOUS
<1>6. LiveInv => (At(n) => ListenerAt(n) \/ Some)
  BY LeftHelped DEF ListenerAt, WaiterAt, At
<1> HIDE DEF All, Some
<1>7. [](\A w \in Waiters : WaiterAt(n, w) => <>Nearer(n)) => [](Some => <>Nearer(n))
  BY <1>5, PTL
<1> QED
  BY <1>1, <1>3, <1>4, <1>6, <1>7, PTL DEF Lively

-----------------------------------------------------------------------------
(* Induction, for a predicate given by a function.                         *)
LEMMA Descent ==
    ASSUME NEW g, \A n \in Nat : (\A k \in Nat : k < n => g[k]) => g[n]
    PROVE  \A n \in Nat : g[n]
<1> DEFINE T == {n \in Nat : g[n]}
<1> SUFFICES ASSUME Nat \ T # {}
             PROVE  FALSE
  OBVIOUS
<1>1. PICK x \in Nat \ T : \A y \in Nat \ T : <<y, x>> \notin OpToRel(<, Nat)
  <2>1. Nat \ T \subseteq Nat
    OBVIOUS
  <2>2. QED
    BY <2>1, NatLessThanWellFounded, WFMin
<1>2. \A k \in Nat : k < x => k \in T
  BY <1>1 DEF OpToRel
<1> QED
  BY <1>1, <1>2

(* A formula about a behaviour as a whole is true or false of it, so       *)
(* induction over a number in it is as good as for a predicate of states;  *)
(* but TLA+ does not allow the values of a function of such formulas to be *)
(* written down.  Named only names the function, and so offers it to the   *)
(* provers for the g of the rule.                                          *)
Named(g) == TRUE

LEMMA NamedDescent ==
    ASSUME NEW g, Named(g), \A n \in Nat : (\A k \in Nat : k < n => g[k]) => g[n]
    PROVE  \A n \in Nat : g[n]
BY Descent

\* The listener returns from n steps away.
Returns(n) == Lively => [](Left = n => <>Back)

\* It does if it returns from any place nearer.
LEMMA ReturnsStep ==
    ASSUME NEW n \in Nat
    PROVE  (\A k \in Nat : k < n => Returns(k)) => Returns(n)
<1>1. CASE n = 0
  <2>1. Left = n => Back
    BY <1>1 DEF Back
  <2> QED
    BY <2>1, PTL DEF Returns
<1>2. CASE n # 0
  <2> DEFINE Below == {k \in Nat : k < n}
             Some  == \E k \in Below : Left = k
             All   == \A k \in Below : [](Left = k => <>Back)
             Lower == \A k \in Nat : k < n => Returns(k)
  <2>1. Lower => (Lively => All)
    BY DEF Returns
  <2>2. All => [](\A k \in Below : Left = k => <>Back)
    OBVIOUS
  <2>3. (\A k \in Below : Left = k => <>Back) => (Some => <>Back)
    OBVIOUS
  <2>4. LiveInv => (Nearer(n) => Back \/ Some)
    BY LeftTyped DEF Nearer, Back, LeftKnown
  <2>5. Left = n => Back \/ At(n)
    BY <1>2 DEF At, Back
  <2> HIDE DEF All, Some, Lower
  <2>6. [](\A k \in Below : Left = k => <>Back) => [](Some => <>Back)
    BY <2>3, PTL
  <2>7. Lively => [](At(n) => <>Nearer(n))
    BY NearerSteps
  <2>8. Lower => Returns(n)
    BY <2>1, <2>2, <2>4, <2>5, <2>6, <2>7, PTL DEF Lively, Returns
  <2> QED
    BY <2>8 DEF Lower
<1> QED
  BY <1>1, <1>2

(* The listener selects again and again, or loses its connection: no order *)
(* of requests, notifications and goroutines keeps it from it for ever.    *)
LEMMA ListenerReturns == Lively => []<>Back
<1> DEFINE Some == \E n \in Nat : Left = n
           All  == \A n \in Nat : [](Left = n => <>Back)
<1>1. Named([n \in Nat |-> Returns(n)])
  BY DEF Named
<1>2. \A n \in Nat : Returns(n)
  BY <1>1, ReturnsStep, NamedDescent
<1>3. Lively => All
  BY <1>2 DEF Returns
<1>4. All => [](\A n \in Nat : Left = n => <>Back)
  OBVIOUS
<1>5. (\A n \in Nat : Left = n => <>Back) => (Some => <>Back)
  OBVIOUS
<1>6. LiveInv => Some
  BY LeftTyped DEF LeftKnown
<1> HIDE DEF All, Some
<1>7. [](\A n \in Nat : Left = n => <>Back) => [](Some => <>Back)
  BY <1>5, PTL
<1> QED
  BY <1>3, <1>4, <1>6, <1>7, PTL DEF Lively

-----------------------------------------------------------------------------
(* Requests are received, and carried out.                                 *)

\* When it has returned it can receive.
LEMMA ReceivesOften == Lively => []<>(~connected \/ MayReceive)
<1>1. LiveInv => (Back => ~connected \/ MayReceive)
  <2> SUFFICES ASSUME LiveInv, connected, Left = 0
               PROVE  MayReceive
    BY DEF Back
  <2>1. LeftKnown /\ MaxEvents \in Nat /\ listener.pc \in ListenerPc
    BY LeftTyped, WebSocketAssumption DEF LiveInv, TypeOK, WebSocketAssumption
  <2>2. listener.pc \in {"select", "dead", "down"}
    BY <2>1 DEF LeftKnown, Left, ListenerPc
  <2>3. listener.pc = "select"
    BY <2>2 DEF LiveInv, DeliveryInv, LostIsSilent
  <2>4. Phase \notin {"new", "named"}
    BY <2>3 DEF Left, Naming
  <2> QED
    BY <2>3, <2>4, PhaseNow DEF LiveInv, MayReceive, Starting, Running
<1> QED
  BY <1>1, ListenerReturns, PTL DEF Lively

\* Each attach handler is received if it can be again and again ...
LEMMA ListensFair ==
    ASSUME NEW a \in [socket : Sockets, session : Sessions]
    PROVE  Lively => SF_vars(ReceiveListen(a))
<1>1. Lively => Fairness
  BY PTL DEF Lively
<1>2. Fairness => FairListen(a)
  BY DEF Fairness
<1> QED
  BY <1>1, <1>2, PTL DEF FairListen

\* ... and so is each detach handler.
LEMMA UnlistensFair ==
    ASSUME NEW s \in Sessions
    PROVE  Lively => SF_vars(ReceiveUnlisten(s))
<1>1. Lively => Fairness
  BY PTL DEF Lively
<1>2. Fairness => FairUnlisten(s)
  BY DEF Fairness
<1> QED
  BY <1>1, <1>2, PTL DEF FairUnlisten

(* Every attach handler returns while the listener has its connection.     *)
LEMMA AttachReceived ==
    ASSUME NEW a \in [socket : Sockets, session : Sessions]
    PROVE  Lively =>
              (a \in attaching ~> (a \notin attaching \/ ~connected))
<1>1. GoroutinesNotStuck => (MayReceive /\ a \in attaching => ENABLED <<ReceiveListen(a)>>_vars)
  BY DEF GoroutinesNotStuck
<1>2. <<ReceiveListen(a)>>_vars => (a \notin attaching)'
  BY DEF ReceiveListen
<1>3. a \in attaching \/ a \notin attaching
  OBVIOUS
<1> QED
  BY <1>1, <1>2, <1>3, ListensFair, ReceivesOften, PTL DEF Lively

(* Every attach handler returns, unless the connection is lost or a        *)
(* request overtakes a goroutine: the listener never waits for ever for    *)
(* the goroutine before (websocket.go:82).                                 *)
THEOREM AttachesAnswered == FairSpec /\ []GoroutinesNotStuck => AttachAnswered
<1>1. ASSUME NEW a \in [socket : Sockets, session : Sessions]
      PROVE  FairSpec /\ []GoroutinesNotStuck =>
               (a \in attaching ~> (a \notin attaching \/ ~connected \/ overtaken))
  <2>1. Lively => (a \in attaching ~> (a \notin attaching \/ ~connected))
    BY AttachReceived
  <2> QED
    BY <2>1, FairLively, PTL DEF Lively
<1> QED
  BY <1>1 DEF AttachAnswered

\* Every detach handler returns while the listener has its connection.
LEMMA DetachReceived ==
    ASSUME NEW s \in Sessions
    PROVE  Lively =>
              [](s \in detaching => <>(s \notin detaching \/ ~connected))
<1>1. GoroutinesNotStuck => (MayReceive /\ s \in detaching => ENABLED <<ReceiveUnlisten(s)>>_vars)
  BY DEF GoroutinesNotStuck
<1>2. <<ReceiveUnlisten(s)>>_vars => (s \notin detaching)'
  BY DEF ReceiveUnlisten
<1>3. s \in detaching \/ s \notin detaching
  OBVIOUS
<1> QED
  BY <1>1, <1>2, <1>3, UnlistensFair, ReceivesOften, PTL DEF Lively

\* The request that the listener carries out.
Serves(op, s) ==
    /\ listener.op = op /\ listener.session = s
    /\ listener.pc \in Between \cup {IF op = "listen" THEN "query" ELSE "purge"}

\* A blocked request is only lost by being received.
LEMMA RequestsKept ==
    ASSUME TypeOK, [Next]_vars, connected'
    PROVE  /\ \A a \in attaching : a \in attaching' \/ Serves("listen", a.session)'
           /\ \A s \in detaching : s \in detaching' \/ Serves("unlisten", s)'
<1>1. CASE Clients
  <2>1. attaching \subseteq attaching' /\ detaching \subseteq detaching'
    BY <1>1 DEF Clients, Connect, Disconnect, Attach, Detach, Publish, Acknowledge,
                SessionDelete, requests
  <2> QED
    BY <2>1
<1>2. ASSUME NEW op \in {"listen", "unlisten"}, NEW s \in Sessions, Receive(op, s)
      PROVE  Serves(op, s)'
  BY <1>2 DEF Receive, Serves, Between, TypeOK
<1>3. ASSUME NEW a \in attaching, ReceiveListen(a)
      PROVE  /\ attaching' = attaching \ {a} /\ detaching' = detaching
             /\ Serves("listen", a.session)'
  <2>1. a.session \in Sessions
    BY DEF TypeOK
  <2> QED
    BY <1>2, <1>3, <2>1 DEF ReceiveListen
<1>4. ASSUME NEW s \in detaching, ReceiveUnlisten(s)
      PROVE  /\ detaching' = detaching \ {s} /\ attaching' = attaching
             /\ Serves("unlisten", s)'
  <2>1. s \in Sessions
    BY DEF TypeOK
  <2> QED
    BY <1>2, <1>4, <2>1 DEF ReceiveUnlisten
<1>5. CASE Listener \/ (\E w \in Waiters : Waiter(w)) \/ ConnectionLost \/ Stop \/ Restart \/ UNCHANGED vars
  <2>1. ~Crash
    BY DEF Crash
  <2>2. UNCHANGED requests
    BY <1>5, <2>1
    DEF Listener, ClearCancel, AwaitDone, Exec, Executed, ListenFails, UnlistenFails, Spawn,
        ListenRefused, UnlistenRefused, Query, Replay, ReplayEnds, ReplayCrashes, Purge,
        Waiter, AssignDone, AssignCancel,
        TakeNotified, Wait, TakeWire, Cancelled, TakeCrashes, CloseDone, CloseCrashes,
        ConnectionLost, Stop, Restart, vars
  <2> QED
    BY <2>2 DEF requests
<1> QED
  BY <1>1, <1>3, <1>4, <1>5 DEF Next, Receives

\* Steps of others leave a request served; the listener's bring it on.
LEMMA ServesOn ==
    ASSUME ~overtaken', LiveInv, [Next]_vars, connected, connected',
           NEW op \in {"listen", "unlisten"}, NEW s \in Sessions, Serves(op, s)
    PROVE  \/ Serves(op, s)'
           \/ /\ listener.pc = "query"
              /\ \A e \in EventsOf(s) : e \in listener'.rows \/ e \in skipped'
           \/ listener.pc = "purge" /\ (DeleteSession(s) \/ DeleteFailed(s)')
<1>1. CASE Still
  BY <1>1 DEF Still, Serves
<1>2. CASE Receives
  BY <1>2, ReceivesAttend DEF LiveInv, Serves, Between
<1>3. CASE Listener /\ ListenerMoves
  <2>1. CASE listener.pc \in {"cancelled", "await", "exec", "executing", "spawn"}
    BY <1>3, <2>1 DEF ListenerMoves, Serves, Between
  <2>2. CASE listener.pc = "query"
    BY <1>3, <2>2 DEF ListenerMoves, Serves
  <2>3. CASE listener.pc = "purge"
    BY <1>3, <2>3 DEF ListenerMoves, Serves, DeleteFailed
  <2> QED
    BY <1>3, <2>1, <2>2, <2>3 DEF Serves, Between
<1>4. ASSUME NEW w \in Waiters, WaiterMoves(w) PROVE Serves(op, s)'
  BY <1>4 DEF WaiterMoves, Serves
<1> QED
  BY <1>1, <1>2, <1>3, <1>4, StepsConnected DEF LiveInv, DeliveryInv

\* A listener that carries out a request is not at its select.
LEMMA ServesNotBack ==
    ASSUME LiveInv, NEW op, NEW s, Serves(op, s)
    PROVE  Left # 0
<1>1. LeftKnown /\ MaxEvents \in Nat
  BY LeftTyped, WebSocketAssumption DEF WebSocketAssumption
<1> QED
  BY <1>1 DEF LeftKnown, Left, Serves, Between

(* A detached session is deleted in the end, or its delete is tried and    *)
(* fails, unless the connection is lost or a request overtakes a           *)
(* goroutine.                                                              *)
THEOREM DetachesDelete == FairSpec /\ []GoroutinesNotStuck => DetachDeletes
<1>1. ASSUME NEW s \in Sessions
      PROVE  Lively =>
                (s \in detaching ~> (s \notin session \/ DeleteFailed(s) \/ ~connected))
  <2>1. Lively =>
           [](s \in detaching => <>(Serves("unlisten", s) \/ ~connected))
    <3>1. LiveInv /\ [Next]_vars /\ ~overtaken' =>
             (s \in detaching => \/ (s \in detaching)' \/ Serves("unlisten", s)' \/ (~connected)')
      BY RequestsKept DEF LiveInv
    <3>2. ~(s \in detaching /\ s \notin detaching)
      OBVIOUS
    <3>3. Lively =>
             [](s \in detaching => <>(s \notin detaching \/ ~connected))
      BY DetachReceived
    <3> QED
      BY <3>1, <3>2, <3>3, PTL DEF Lively
  <2>2. Lively =>
           [](Serves("unlisten", s) => <>(s \notin session \/ DeleteFailed(s) \/ ~connected))
    <3>1. LiveInv /\ [Next]_vars /\ ~overtaken' =>
             (Serves("unlisten", s) /\ connected =>
                \/ Serves("unlisten", s)' \/ (s \notin session)' \/ DeleteFailed(s)' \/ (~connected)')
      <4>1. Serves("unlisten", s) => listener.pc # "query"
        BY DEF Serves, Between
      <4>2. DeleteSession(s) => (s \notin session)'
        BY DEF DeleteSession
      <4> QED
        BY <4>1, <4>2, ServesOn
    <3>2. LiveInv => (Back /\ Serves("unlisten", s) => ~connected)
      BY ServesNotBack DEF Back
    <3> QED
      BY <3>1, <3>2, ListenerReturns, PTL DEF Lively
  <2> QED
    BY <2>1, <2>2, PTL
<1>2. ASSUME NEW s \in Sessions
      PROVE  FairSpec /\ []GoroutinesNotStuck =>
                (s \in detaching ~>
                    (s \notin session \/ DeleteFailed(s) \/ ~connected \/ overtaken))
  <2>1. Lively => (s \in detaching ~> (s \notin session \/ DeleteFailed(s) \/ ~connected))
    BY <1>1
  <2> QED
    BY <2>1, FairLively, PTL DEF Lively
<1> QED
  BY <1>2 DEF DetachDeletes

-----------------------------------------------------------------------------
(* Every event of a session attached reaches its socket.                   *)

\* The event has to reach the socket, and has not yet.
Due(e, k) == /\ e \in queue /\ sockets[e.session] = k /\ k \in open
             /\ e.session \in channels /\ connected /\ e \notin received[k]
             /\ e \notin skipped

\* An event that is sent is due no more.
LEMMA SentIsReceived ==
    ASSUME TypeOK, NEW e \in Event, NEW k \in Sockets, Send(e), Due(e, k)
    PROVE  ~Due(e, k)'
<1>1. received' = [received EXCEPT ![k] = @ \cup {e}] /\ received \in [Sockets -> SUBSET Event]
  BY DEF Send, Due, TypeOK
<1>2. e \in received'[k]
  BY <1>1
<1> QED
  BY <1>2 DEF Due

(* In the rows of a replay ...                                             *)
LEMMA RowDelivered ==
    ASSUME NEW e \in Event, NEW k \in Sockets
    PROVE  Lively =>
              [](Due(e, k) /\ e \in listener.rows => <>~Due(e, k))
<1> DEFINE Row == Due(e, k) /\ e \in listener.rows
<1>1. LiveInv /\ [Next]_vars /\ ~overtaken' => (Row => Row' \/ (~Due(e, k))')
  <2> SUFFICES ASSUME LiveInv, [Next]_vars, ~overtaken', Row, Due(e, k)'
               PROVE  e \in listener'.rows
    OBVIOUS
  <2>1. connected /\ connected' /\ listener.pc = "replay"
    BY DEF Due, LiveInv, DeliveryInv, RowsInReplay
  <2>2. CASE Still
    BY <2>2 DEF Still
  <2>3. CASE Receives
    BY <2>1, <2>3, ReceivesAttend DEF LiveInv
  <2>4. CASE ListenerMoves
    <3>1. listener.rows # {}
      OBVIOUS
    <3>2. PICK f \in listener.rows : Send(f) /\ listener'.rows = listener.rows \ {f}
      BY <2>1, <2>4, <3>1 DEF ListenerMoves
    <3>3. f # e
      BY <3>2, SentIsReceived DEF LiveInv
    <3> QED
      BY <3>2, <3>3
  <2>5. ASSUME NEW w \in Waiters, WaiterMoves(w) PROVE e \in listener'.rows
    BY <2>5 DEF WaiterMoves
  <2> QED
    BY <2>1, <2>2, <2>3, <2>4, <2>5, StepsConnected DEF LiveInv, DeliveryInv
<1>2. LiveInv => ~(Back /\ Row)
  <2> SUFFICES ASSUME LiveInv, Back, Row PROVE FALSE
    OBVIOUS
  <2>1. listener.pc = "replay" /\ Left = 0
    BY DEF Due, Back, LiveInv, DeliveryInv, RowsInReplay
  <2>2. LeftKnown
    BY LeftTyped
  <2> QED
    BY <2>1, <2>2 DEF LeftKnown, Left
<1> HIDE DEF Row
<1>3. Lively => [](Row => <>~Due(e, k))
  BY <1>1, <1>2, ListenerReturns, PTL DEF Lively
<1> QED
  BY <1>3, PTL DEF Row

(* ... in the rows of the attach request that the listener carries out ... *)
LEMMA ServedDelivered ==
    ASSUME NEW e \in Event, NEW k \in Sockets
    PROVE  Lively =>
              [](Due(e, k) /\ Serves("listen", e.session) => <>~Due(e, k))
<1> DEFINE Served == Due(e, k) /\ Serves("listen", e.session)
           Row    == Due(e, k) /\ e \in listener.rows
<1>1. LiveInv /\ [Next]_vars /\ ~overtaken' => (Served => Served' \/ Row' \/ (~Due(e, k))')
  <2> SUFFICES ASSUME LiveInv, [Next]_vars, ~overtaken', Served, Due(e, k)'
               PROVE  Serves("listen", e.session)' \/ e \in listener'.rows
    OBVIOUS
  <2>1. connected /\ connected' /\ listener.pc # "purge"
    BY DEF Due, Serves, Between
  <2>2. CASE \A f \in EventsOf(e.session) : f \in listener'.rows \/ f \in skipped'
    BY <2>2 DEF Due, EventsOf
  <2>3. CASE Serves("listen", e.session)'
    BY <2>3
  <2> QED
    BY <2>1, <2>2, <2>3, ServesOn DEF Event
<1>2. LiveInv => ~(Back /\ Served)
  BY ServesNotBack DEF Back, Due
<1> HIDE DEF Served, Row
<1>3. Lively => [](Row => <>~Due(e, k))
  BY RowDelivered DEF Row
<1>4. Lively => [](Served => <>~Due(e, k))
  BY <1>1, <1>2, <1>3, ListenerReturns, PTL DEF Lively
<1> QED
  BY <1>4, PTL DEF Served

(* ... in those of an attach request not yet received ...                  *)
LEMMA AskedDelivered ==
    ASSUME NEW e \in Event, NEW k \in Sockets,
           NEW a \in [socket : Sockets, session : Sessions], a.session = e.session
    PROVE  Lively =>
              [](Due(e, k) /\ a \in attaching => <>~Due(e, k))
<1>1. LiveInv /\ [Next]_vars /\ ~overtaken' =>
         (a \in attaching => (a \in attaching)' \/ Serves("listen", e.session)' \/ (~connected)')
  BY RequestsKept DEF LiveInv
<1>2. Lively => [](a \in attaching => <>(a \notin attaching \/ ~connected))
  BY AttachReceived, PTL
<1>3. ~(a \in attaching /\ a \notin attaching)
  OBVIOUS
<1>4. Due(e, k) => connected
  BY DEF Due
<1>5. Lively =>
         [](Due(e, k) /\ Serves("listen", e.session) => <>~Due(e, k))
  BY ServedDelivered
<1> QED
  BY <1>1, <1>2, <1>3, <1>4, <1>5, PTL DEF Lively

(* ... or in the line of notifications: each step of the goroutine, and of *)
(* the listener when none runs, brings the first of the line nearer.       *)
Line      == notified \o wire

\* The event is among the first n of the line.
Within(e, n) == \E i \in 1..n : i \in DOMAIN Line /\ Line[i] = e

(* The steps until the first of the line is sent on.  A goroutine with     *)
(* notifications queued takes one next; one with none may have to wait, be *)
(* told to stop, close its channel, and leave the line to the listener,    *)
(* which queues what is on the wire and starts the next goroutine.         *)
Late  == IF notified = <<>> THEN 10 ELSE 0
Turns == CASE Phase = "new"     -> 2 + Late
           [] Phase = "named"   -> 1 + Late
           [] Phase = "loop"    -> Late
           [] Phase = "waiting" -> 9
           [] Phase = "closing" -> 8
           [] OTHER -> (CASE listener.pc = "cancelled" -> 7
                          [] listener.pc = "await"     -> 6
                          [] listener.pc = "exec"      -> 5
                          [] listener.pc = "executing" -> 4
                          [] OTHER                     -> 3 + Late)

\* What the proofs use of concatenation.
LEMMA LineConcat ==
    ASSUME NEW p \in Seq(Event), NEW q \in Seq(Event)
    PROVE  /\ p \o q \in Seq(Event)
           /\ p = <<>> => p \o q = q
           /\ q = <<>> => p \o q = p
           /\ p \o q = <<>> <=> p = <<>> /\ q = <<>>
           /\ p # <<>> => Tail(p) \o q = Tail(p \o q) /\ Head(p \o q) = Head(p)
           /\ \A e \in Event : p \o Append(q, e) = Append(p \o q, e)
<1>1. p \o q \in Seq(Event)
  OBVIOUS
<1>2. p = <<>> => p \o q = q
  OBVIOUS
<1>3. q = <<>> => p \o q = p
  OBVIOUS
<1>4. p \o q = <<>> <=> p = <<>> /\ q = <<>>
  OBVIOUS
<1>5. p # <<>> => Tail(p) \o q = Tail(p \o q) /\ Head(p \o q) = Head(p)
  OBVIOUS
<1>6. \A e \in Event : p \o Append(q, e) = Append(p \o q, e)
  OBVIOUS
<1> QED
  BY <1>1, <1>2, <1>3, <1>4, <1>5, <1>6

\* The turns are fewer than a place in the line counts for.
LEMMA TurnsTyped ==
    ASSUME LiveInv
    PROVE  Turns \in 0..13 /\ Line \in Seq(Event)
<1>1. Turns \in 0..13
  BY DEF Turns, Late
<1>2. Line \in Seq(Event)
  BY LineConcat DEF Line, LiveInv, TypeOK
<1> QED
  BY <1>1, <1>2

\* The same, after a step.
LEMMA TurnsTypedNext == LiveInv' => Turns' \in 0..13 /\ Line' \in Seq(Event)
<1>1. LiveInv => Turns \in 0..13
  BY TurnsTyped
<1>2. LiveInv => Line \in Seq(Event)
  BY TurnsTyped
<1>3. LiveInv' => (Turns \in 0..13)'
  BY <1>1, PTL
<1>4. LiveInv' => (Line \in Seq(Event))'
  BY <1>2, PTL
<1> QED
  BY <1>3, <1>4

(* Where the line is not empty, the steps that matter are the goroutine's, *)
(* or the listener's when no goroutine runs.                               *)
LEMMA LineAttended ==
    ASSUME LiveInv, connected, Line # <<>>
    PROVE  /\ Phase = "none" => /\ listener.pc \in Between
                                /\ notified # <<>> => listener.pc = "spawn"
                                /\ ListenerAble
           /\ Phase \in {"waiting", "closing"} => notified = <<>>
           /\ \A w \in Waiters : waiter[w].pc = "waiting" => wire # <<>>
<1>1. notified # <<>> \/ wire # <<>>
  BY LineConcat DEF Line, LiveInv, TypeOK
<1>2. notified # <<>> => \/ listener.pc = "spawn"
                         \/ \E w \in Waiters : waiter[w].pc \in {"new", "named", "loop"}
  BY DEF LiveInv, Attended
<1>3. ASSUME NEW w \in Waiters, waiter[w].pc \in {"waiting", "closing"}
      PROVE  notified = <<>>
  BY <1>2, <1>3 DEF LiveInv, Handshake, Running
<1>4. ASSUME Phase = "none"
      PROVE  /\ listener.pc \in Between
             /\ notified # <<>> => listener.pc = "spawn"
             /\ ListenerAble
  <2>1. \A w \in Waiters : ~Running(w)
    BY <1>4, PhaseNow DEF LiveInv
  <2>2. notified # <<>> => listener.pc = "spawn"
    BY <1>2, <2>1 DEF Running
  <2>3. listener.pc \in Between
    BY <1>1, <2>1, <2>2 DEF LiveInv, Attended, Between
  <2>4. listener.pc = "await" => listener.wait \in closed
    BY <2>1 DEF LiveInv, Freed, Handshake, TypeOK
  <2> QED
    BY <2>2, <2>3, <2>4 DEF ListenerAble, Between
<1>5. Phase \in {"waiting", "closing"} => notified = <<>>
  BY <1>3, PhaseNow DEF LiveInv
<1> QED
  BY <1>1, <1>3, <1>4, <1>5

\* When no goroutine runs, it is the listener's turn.
LEMMA TurnsListener ==
    ASSUME LiveInv, connected, Line # <<>>, ListenerMoves
    PROVE  /\ Line' = Line
           /\ Phase = "none" => Turns' < Turns
           /\ Phase # "none" => Turns' = Turns /\ waiter' = waiter
<1>1. /\ listener.pc # "spawn" => Phase' = Phase
      /\ listener.pc = "spawn" => Phase = "none" /\ Phase' = "new"
      /\ listener.pc \in {"exec", "executing", "spawn"} => Phase = "none"
  BY PhaseListener DEF LiveInv
<1>2. Line' = Line
  <2>1. CASE listener.pc = "executing"
    <3>1. notified' = Line /\ wire' = <<>> /\ Line \in Seq(Event)
      BY <2>1, TurnsTyped DEF ListenerMoves, Line
    <3> QED
      BY <3>1, LineConcat DEF Line
  <2>2. CASE listener.pc # "executing"
    BY <2>2 DEF ListenerMoves, Line
  <2> QED
    BY <2>1, <2>2
<1>3. CASE Phase = "none"
  <2>1. listener.pc \in Between /\ (notified # <<>> => listener.pc = "spawn")
    BY <1>3, LineAttended
  <2>2. CASE listener.pc \in {"cancelled", "await", "exec"}
    <3>1. Phase' = "none" /\ notified = <<>>
      BY <1>1, <1>3, <2>1, <2>2
    <3>2. <<listener.pc, listener'.pc>> \in
             {<<"cancelled", "await">>, <<"await", "exec">>, <<"exec", "executing">>}
      BY <2>2 DEF ListenerMoves
    <3> QED
      BY <1>2, <1>3, <3>1, <3>2 DEF Turns
  <2>3. CASE listener.pc = "executing"
    <3>1. notified' # <<>> /\ listener'.pc = "spawn" /\ Phase' = "none"
      BY <1>1, <1>3, <2>3 DEF ListenerMoves, Line
    <3> QED
      BY <1>2, <1>3, <2>3, <3>1 DEF Turns, Late
  <2>4. CASE listener.pc = "spawn"
    <3>1. notified' = notified /\ Phase' = "new"
      BY <1>1, <2>4 DEF ListenerMoves
    <3> QED
      BY <1>2, <1>3, <2>4, <3>1 DEF Turns, Late
  <2> QED
    BY <1>2, <1>3, <2>1, <2>2, <2>3, <2>4 DEF Between
<1>4. CASE Phase # "none"
  <2>1. listener.pc \notin {"exec", "executing", "spawn"}
    BY <1>1, <1>4
  <2>2. Phase' = Phase /\ waiter' = waiter /\ notified' = notified
    BY <1>1, <2>1 DEF ListenerMoves
  <2>3. Phase \in {"new", "named", "loop", "waiting", "closing"}
    BY <1>4, PhaseNow DEF LiveInv, WaiterPc
  <2> QED
    BY <1>2, <1>4, <2>2, <2>3 DEF Turns, Late
<1> QED
  BY <1>3, <1>4

\* Otherwise the goroutine's: it takes the first of the line or comes nearer to it.
LEMMA TurnsWaiter ==
    ASSUME LiveInv, LiveInv', connected, Line # <<>>, NEW w \in Waiters, WaiterMoves(w)
    PROVE  \/ Line' = Line /\ Turns' < Turns
           \/ Line' = Tail(Line) /\ Send(Head(Line))
<1>1. Phase = waiter[w].pc /\ Phase' = waiter'[w].pc /\ listener' = listener
  BY PhaseMoves DEF LiveInv, WaiterMoves
<1>2. Phase \in {"waiting", "closing"} => notified = <<>>
  BY LineAttended
<1>3. notified \in Seq(Event) /\ wire \in Seq(Event)
  BY DEF LiveInv, TypeOK
<1>4. CASE UNCHANGED <<notified, wire>>
  <2>1. Line' = Line
    BY <1>4 DEF Line
  <2>2. CASE waiter[w].pc \in {"new", "named", "loop", "waiting"}
    BY <1>1, <1>2, <1>4, <2>1, <2>2 DEF WaiterMoves, Turns, Late
  <2>3. CASE waiter[w].pc = "closing"
    <3>1. listener.pc \in {"cancelled", "await"}
      BY <2>3 DEF LiveInv, Attended, ToldAwaited, Running
    <3> QED
      BY <1>1, <1>4, <2>1, <2>3, <3>1 DEF WaiterMoves, Turns
  <2> QED
    BY <2>2, <2>3 DEF WaiterMoves
<1>5. CASE waiter[w].pc = "loop" /\ notified # <<>>
  <2>1. notified' = Tail(notified) /\ wire' = wire /\ Send(Head(notified))
    BY <1>5 DEF WaiterMoves
  <2> QED
    BY <1>3, <1>5, <2>1, LineConcat DEF Line
<1>6. CASE waiter[w].pc = "waiting" /\ ~UNCHANGED <<notified, wire>>
  <2>1. wire' = Tail(wire) /\ notified' = <<>> /\ notified = <<>> /\ wire # <<>> /\ Send(Head(wire))
    BY <1>1, <1>2, <1>6 DEF WaiterMoves
  <2>2. Line = wire /\ Tail(wire) \in Seq(Event)
    BY <1>3, <2>1, LineConcat DEF Line
  <2>3. Line' = Tail(wire)
    BY <2>1, <2>2, LineConcat DEF Line
  <2> QED
    BY <2>1, <2>2, <2>3
<1> QED
  BY <1>4, <1>5, <1>6 DEF WaiterMoves

\* Clients and requests only make the line longer.
LEMMA TurnsApart ==
    ASSUME ~overtaken', LiveInv, connected, Line # <<>>, Still \/ Receives
    PROVE  /\ Turns' = Turns /\ Phase' = Phase
           /\ Line' = Line \/ \E e \in Event : Line' = Append(Line, e)
           /\ \A w \in Waiters : waiter'[w].pc = waiter[w].pc
<1>1. notified \in Seq(Event) /\ wire \in Seq(Event)
  BY DEF LiveInv, TypeOK
<1>2. CASE Still
  <2>1. Phase' = Phase /\ UNCHANGED <<listener, waiter, notified>>
    BY <1>2 DEF Still, Phase
  <2>2. Line' = Line \/ \E e \in Event : Line' = Append(Line, e)
    <3>1. CASE wire' = wire
      BY <2>1, <3>1 DEF Line
    <3>2. ASSUME NEW e \in Event, wire' = Append(wire, e)
          PROVE  Line' = Append(Line, e)
      <4>1. Line' = notified \o Append(wire, e)
        BY <2>1, <3>2 DEF Line
      <4> QED
        BY <1>1, <4>1, LineConcat DEF Line
    <3> QED
      BY <1>2, <3>1, <3>2 DEF Still
  <2> QED
    BY <2>1, <2>2 DEF Turns, Late
<1>3. CASE Receives
  <2>1. Phase' = Phase /\ UNCHANGED <<notified, wire>>
    BY <1>3, PhaseReceives, ReceivesAttend DEF LiveInv
  <2>2. Phase # "none"
    BY <1>3, LineAttended, ReceivesAttend DEF LiveInv, Between
  <2>3. Phase \in {"new", "named", "loop", "waiting", "closing"}
    BY <2>2, PhaseNow DEF LiveInv, WaiterPc
  <2> QED
    BY <1>3, <2>1, <2>3, ReceivesAttend DEF Turns, Late, Line, LiveInv
<1> QED
  BY <1>2, <1>3

-----------------------------------------------------------------------------
(* How long the event has to wait: its place in the line, then the turns   *)
(* until the first of the line is taken.                                   *)
Owing(e, k, N)  == Due(e, k) /\ \E n \in Nat : Within(e, n) /\ N = 14 * n + Turns
Sooner(e, k, N) == ~Due(e, k) \/ \E M \in Nat : M < N /\ Owing(e, k, M)

\* The event keeps its place when others are added ...
LEMMA WithinKept ==
    ASSUME NEW e, NEW n \in Nat, Within(e, n), Line \in Seq(Event),
           Line' = Line \/ \E f \in Event : Line' = Append(Line, f)
    PROVE  Within(e, n)'
<1>1. PICK i \in 1..n : i \in DOMAIN Line /\ Line[i] = e
  BY DEF Within
<1>2. i \in DOMAIN Line' /\ Line'[i] = e
  <2>1. ASSUME NEW f \in Event
        PROVE  i \in DOMAIN Append(Line, f) /\ Append(Line, f)[i] = e
    BY <1>1
  <2> QED
    BY <1>1, <2>1
<1> QED
  BY <1>2 DEF Within

\* ... and moves up when the first is taken.
LEMMA WithinTaken ==
    ASSUME NEW e, NEW n \in Nat, Within(e, n), Line \in Seq(Event),
           Line' = Tail(Line), Head(Line) # e
    PROVE  n - 1 \in Nat /\ Within(e, n - 1)'
<1>1. PICK i \in 1..n : i \in DOMAIN Line /\ Line[i] = e
  BY DEF Within
<1>2. i # 1
  BY <1>1
<1>3. /\ i - 1 \in 1..(n - 1) /\ i - 1 \in DOMAIN Tail(Line) /\ Tail(Line)[i - 1] = e
      /\ n - 1 \in Nat
  BY <1>1, <1>2
<1> QED
  BY <1>3 DEF Within

\* A place of the line outweighs the turns.
LEMMA PlacesAndTurns ==
    ASSUME NEW n \in Nat, NEW t \in 0..13, NEW u \in 0..13
    PROVE  /\ 14 * n + u \in Nat
           /\ u < t => 14 * n + u < 14 * n + t
           /\ n - 1 \in Nat => 14 * (n - 1) + u \in Nat /\ 14 * (n - 1) + u < 14 * n + t
OBVIOUS

\* No step makes the event wait longer, and a turn taken makes it wait less.
LEMMA OwingSteps ==
    ASSUME ~overtaken', LiveInv, [Next]_vars, NEW e \in Event, NEW k \in Sockets,
           NEW N \in Nat, Owing(e, k, N)
    PROVE  /\ Phase = "none" => (Owing(e, k, N)' /\ (Phase = "none")') \/ Sooner(e, k, N)'
           /\ \A w \in Waiters :
                 Running(w) => (Owing(e, k, N)' /\ Running(w)') \/ Sooner(e, k, N)'
           /\ Phase = "none" /\ Listener => Sooner(e, k, N)'
           /\ \A w \in Waiters : Waiter(w) => Sooner(e, k, N)'
<1> SUFFICES ASSUME Due(e, k)'
             PROVE  /\ Phase = "none" => (Owing(e, k, N)' /\ (Phase = "none")') \/ Sooner(e, k, N)'
                    /\ \A w \in Waiters :
                          Running(w) => (Owing(e, k, N)' /\ Running(w)') \/ Sooner(e, k, N)'
                    /\ Phase = "none" /\ Listener => Sooner(e, k, N)'
                    /\ \A w \in Waiters : Waiter(w) => Sooner(e, k, N)'
  BY DEF Sooner
<1>1. Due(e, k) /\ connected /\ connected' /\ LiveInv'
  BY LiveInvKept DEF Owing, Due
<1>2. PICK n \in Nat : Within(e, n) /\ N = 14 * n + Turns
  BY DEF Owing
<1>3. /\ Turns \in 0..13 /\ Line \in Seq(Event)
      /\ Turns' \in 0..13 /\ Line' \in Seq(Event)
  BY <1>1, TurnsTyped, TurnsTypedNext
<1>4. Line # <<>>
  BY <1>2 DEF Within
<1>5. ASSUME Within(e, n)', Turns' < Turns PROVE Sooner(e, k, N)'
  <2>1. 14 * n + Turns' \in Nat /\ 14 * n + Turns' < N
    BY <1>2, <1>3, <1>5, PlacesAndTurns
  <2>2. Owing(e, k, 14 * n + Turns)'
    BY <1>5 DEF Owing
  <2> QED
    BY <2>1, <2>2 DEF Sooner
<1>6. ASSUME Within(e, n)', Turns' = Turns PROVE Owing(e, k, N)'
  BY <1>2, <1>6 DEF Owing
<1>7. ASSUME Listener
      PROVE  /\ Phase = "none" => Sooner(e, k, N)'
             /\ Phase # "none" => Owing(e, k, N)' /\ waiter' = waiter
  <2>1. ListenerMoves
    BY <1>1, <1>7, ListenerDoes DEF LiveInv
  <2>2. /\ Line' = Line
        /\ Phase = "none" => Turns' < Turns
        /\ Phase # "none" => Turns' = Turns /\ waiter' = waiter
    BY <1>1, <1>4, <2>1, TurnsListener
  <2>3. Within(e, n)'
    BY <1>2, <1>3, <2>2, WithinKept
  <2> QED
    BY <1>5, <1>6, <2>2, <2>3
<1>8. ASSUME NEW w \in Waiters, Waiter(w)
      PROVE  Sooner(e, k, N)'
  <2>1. WaiterMoves(w)
    BY <1>1, <1>8, WaiterDoes DEF LiveInv, DeliveryInv
  <2>2. \/ Line' = Line /\ Turns' < Turns
        \/ Line' = Tail(Line) /\ Send(Head(Line))
    BY <1>1, <1>4, <2>1, TurnsWaiter
  <2>3. CASE Line' = Line /\ Turns' < Turns
    BY <1>2, <1>3, <1>5, <2>3, WithinKept
  <2>4. CASE Line' = Tail(Line) /\ Send(Head(Line))
    <3>1. Head(Line) # e
      BY <1>1, <2>4, SentIsReceived DEF LiveInv
    <3>2. n - 1 \in Nat /\ Within(e, n - 1)'
      BY <1>2, <1>3, <2>4, <3>1, WithinTaken
    <3>3. 14 * (n - 1) + Turns' \in Nat /\ 14 * (n - 1) + Turns' < N
      BY <1>2, <1>3, <3>2, PlacesAndTurns
    <3>4. Owing(e, k, 14 * (n - 1) + Turns)'
      BY <3>2 DEF Owing
    <3> QED
      BY <3>3, <3>4 DEF Sooner
  <2> QED
    BY <2>2, <2>3, <2>4
<1>9. ASSUME Still \/ Receives
      PROVE  /\ Owing(e, k, N)' /\ Phase' = Phase
             /\ \A w \in Waiters : waiter'[w].pc = waiter[w].pc
  <2>1. /\ Turns' = Turns /\ Phase' = Phase
        /\ Line' = Line \/ \E f \in Event : Line' = Append(Line, f)
        /\ \A w \in Waiters : waiter'[w].pc = waiter[w].pc
    BY <1>1, <1>4, <1>9, TurnsApart
  <2>2. Within(e, n)'
    BY <1>2, <1>3, <2>1, WithinKept
  <2> QED
    BY <1>6, <2>1, <2>2
<1>10. CASE Still \/ Receives
  BY <1>7, <1>8, <1>9, <1>10 DEF Running
<1>11. CASE Listener
  <2>1. Phase = "none" => \A w \in Waiters : ~Running(w)
    BY PhaseNow DEF LiveInv
  <2> QED
    BY <1>7, <1>8, <1>11, <2>1 DEF Running
<1>12. CASE \E w \in Waiters : Waiter(w)
  BY <1>7, <1>8, <1>12
<1> QED
  BY <1>1, <1>10, <1>11, <1>12, StepsConnected DEF LiveInv, DeliveryInv

\* The goroutine, or the listener when none runs, takes its turn.
LEMMA SoonerSteps ==
    ASSUME NEW e \in Event, NEW k \in Sockets, NEW N \in Nat
    PROVE  Lively => [](Owing(e, k, N) => <>Sooner(e, k, N))
<1> DEFINE Mine     == Owing(e, k, N) /\ Phase = "none"
           Its(w)   == Owing(e, k, N) /\ Running(w)
           Some     == \E w \in Waiters : Its(w)
           All      == \A w \in Waiters : [](Its(w) => <>Sooner(e, k, N))
<1>0. Owing(e, k, N) => connected /\ Line # <<>>
  BY DEF Owing, Due, Within
<1>1. Lively => [](Mine => <>Sooner(e, k, N))
  <2>1. LiveInv /\ [Next]_vars /\ ~overtaken' => (Mine => Mine' \/ Sooner(e, k, N)')
    BY OwingSteps
  <2>2. LiveInv /\ [Next]_vars /\ ~overtaken' => (Mine /\ <<Listener>>_vars => Sooner(e, k, N)')
    BY OwingSteps
  <2>3. LiveInv /\ GoroutinesNotStuck => (Mine => ENABLED <<Listener>>_vars)
    BY <1>0, LineAttended DEF GoroutinesNotStuck
  <2> HIDE DEF Mine
  <2> QED
    BY <2>1, <2>2, <2>3, ListenerFair, PTL DEF Lively
<1>2. ASSUME NEW w \in Waiters
      PROVE  Lively => [](Its(w) => <>Sooner(e, k, N))
  <2>1. LiveInv /\ [Next]_vars /\ ~overtaken' => (Its(w) => Its(w)' \/ Sooner(e, k, N)')
    BY OwingSteps
  <2>2. LiveInv /\ [Next]_vars /\ ~overtaken' => (Its(w) /\ <<Waiter(w)>>_vars => Sooner(e, k, N)')
    BY OwingSteps
  <2>3. LiveInv /\ GoroutinesNotStuck => (Its(w) => ENABLED <<Waiter(w)>>_vars)
    <3>1. LiveInv /\ Its(w) => \/ waiter[w].pc \in {"new", "named", "loop", "closing"}
                               \/ waiter[w].pc = "waiting" /\ wire # <<>>
      BY <1>0, LineAttended DEF LiveInv, TypeOK, WaiterPc, Running
    <3> QED
      BY <3>1 DEF GoroutinesNotStuck, WaiterAble
  <2> HIDE DEF Its
  <2> QED
    BY <2>1, <2>2, <2>3, WaitersFair, PTL DEF Lively
<1>3. Lively => All
  BY <1>2
<1>4. All => [](\A w \in Waiters : Its(w) => <>Sooner(e, k, N))
  OBVIOUS
<1>5. (\A w \in Waiters : Its(w) => <>Sooner(e, k, N)) => (Some => <>Sooner(e, k, N))
  OBVIOUS
<1>6. LiveInv => (Owing(e, k, N) => Mine \/ Some)
  BY PhaseNow DEF LiveInv
<1> HIDE DEF Mine, Its, Some, All
<1>7. [](\A w \in Waiters : Its(w) => <>Sooner(e, k, N)) => [](Some => <>Sooner(e, k, N))
  BY <1>5, PTL
<1> QED
  BY <1>1, <1>3, <1>4, <1>6, <1>7, PTL DEF Lively

\* An event that has to wait N arrives, in a behaviour as a whole.
Arrives(e, k, N) ==
    Lively => [](Owing(e, k, N) => <>~Due(e, k))

\* It does if it arrives from any shorter wait.
LEMMA ArrivesStep ==
    ASSUME NEW e \in Event, NEW k \in Sockets, NEW N \in Nat
    PROVE  (\A M \in Nat : M < N => Arrives(e, k, M)) => Arrives(e, k, N)
<1> DEFINE Below == {M \in Nat : M < N}
           Some  == \E M \in Below : Owing(e, k, M)
           All   == \A M \in Below : [](Owing(e, k, M) => <>~Due(e, k))
           Lower == \A M \in Nat : M < N => Arrives(e, k, M)
<1>1. Lower => (Lively => All)
  BY DEF Arrives
<1>2. All => [](\A M \in Below : Owing(e, k, M) => <>~Due(e, k))
  OBVIOUS
<1>3. (\A M \in Below : Owing(e, k, M) => <>~Due(e, k)) => (Some => <>~Due(e, k))
  OBVIOUS
<1>4. Sooner(e, k, N) => ~Due(e, k) \/ Some
  BY DEF Sooner
<1> HIDE DEF All, Some, Lower
<1>5. [](\A M \in Below : Owing(e, k, M) => <>~Due(e, k)) => [](Some => <>~Due(e, k))
  BY <1>3, PTL
<1>6. Lively => [](Owing(e, k, N) => <>Sooner(e, k, N))
  BY SoonerSteps
<1>7. Lower => Arrives(e, k, N)
  BY <1>1, <1>2, <1>4, <1>5, <1>6, PTL DEF Arrives
<1> QED
  BY <1>7 DEF Lower

\* Whatever is in the line arrives.
LEMMA LineDelivered ==
    ASSUME NEW e \in Event, NEW k \in Sockets
    PROVE  Lively =>
              [](Due(e, k) /\ e \in InFlight(Line) => <>~Due(e, k))
<1> DEFINE Some == \E N \in Nat : Owing(e, k, N)
           All  == \A N \in Nat : [](Owing(e, k, N) => <>~Due(e, k))
           InLine == Due(e, k) /\ e \in InFlight(Line)
<1>1. Named([N \in Nat |-> Arrives(e, k, N)])
  BY DEF Named
<1>2. \A N \in Nat : Arrives(e, k, N)
  BY <1>1, ArrivesStep, NamedDescent
<1>3. Lively => All
  BY <1>2 DEF Arrives
<1>4. All => [](\A N \in Nat : Owing(e, k, N) => <>~Due(e, k))
  OBVIOUS
<1>5. (\A N \in Nat : Owing(e, k, N) => <>~Due(e, k)) => (Some => <>~Due(e, k))
  OBVIOUS
<1>6. LiveInv => (InLine => Some)
  <2> SUFFICES ASSUME LiveInv, InLine PROVE Some
    OBVIOUS
  <2>1. Turns \in 0..13 /\ Line \in Seq(Event)
    BY TurnsTyped
  <2>2. PICK i \in DOMAIN Line : Line[i] = e
    BY DEF InFlight
  <2>3. i \in Nat /\ Within(e, i)
    BY <2>1, <2>2 DEF Within
  <2>4. 14 * i + Turns \in Nat /\ Owing(e, k, 14 * i + Turns)
    BY <2>1, <2>3, PlacesAndTurns DEF Owing
  <2> QED
    BY <2>4
<1> HIDE DEF All, Some, InLine
<1>7. [](\A N \in Nat : Owing(e, k, N) => <>~Due(e, k)) => [](Some => <>~Due(e, k))
  BY <1>5, PTL
<1>8. Lively => [](InLine => <>~Due(e, k))
  BY <1>3, <1>4, <1>6, <1>7, PTL DEF Lively
<1> QED
  BY <1>8, PTL DEF InLine

(* Every event of a session that is listened to reaches the session's      *)
(* socket, unless it is deleted, a replay whose query failed leaves it     *)
(* out, the socket goes or changes, the session is no longer listened to,  *)
(* the connection is lost, or a request overtakes a goroutine.             *)
THEOREM EventsDelivered == FairSpec /\ []GoroutinesNotStuck => EventDelivered
<1>1. ASSUME NEW e \in Event, NEW k \in Sockets
      PROVE  Lively => [](Due(e, k) => <>~Due(e, k))
  <2> DEFINE Asks == {a \in [socket : Sockets, session : Sessions] : a.session = e.session}
             Asked == \E a \in Asks : Due(e, k) /\ a \in attaching
             All   == \A a \in Asks : [](Due(e, k) /\ a \in attaching => <>~Due(e, k))
             Row    == Due(e, k) /\ e \in listener.rows
             InLine == Due(e, k) /\ e \in InFlight(Line)
             Served == Due(e, k) /\ Serves("listen", e.session)
  <2>1. Lively => All
    BY AskedDelivered
  <2>2. All => [](\A a \in Asks : Due(e, k) /\ a \in attaching => <>~Due(e, k))
    OBVIOUS
  <2>3. (\A a \in Asks : Due(e, k) /\ a \in attaching => <>~Due(e, k)) => (Asked => <>~Due(e, k))
    OBVIOUS
  <2>4. LiveInv => (Due(e, k) => Row \/ InLine \/ Served \/ Asked)
    <3> SUFFICES ASSUME LiveInv, Due(e, k)
                 PROVE  \/ e \in listener.rows \/ e \in InFlight(Line)
                        \/ Serves("listen", e.session)
                        \/ \E a \in Asks : a \in attaching
      OBVIOUS
    <3>1. Accounted(e)
      BY DEF Due, Watched, LiveInv, DeliveryInv, NoEventLost
    <3>2. InFlight(notified) \cup InFlight(wire) \subseteq InFlight(Line)
      BY InFlightConcat DEF LiveInv, TypeOK, Line
    <3>3. AttachPending(e.session) => \/ \E a \in Asks : a \in attaching
                                      \/ Serves("listen", e.session)
      BY DEF AttachPending, Serves, Between, LiveInv, TypeOK
    <3> QED
      BY <3>1, <3>2, <3>3 DEF Accounted, Due
  <2>5. Lively => [](Row => <>~Due(e, k))
    BY RowDelivered
  <2>6. Lively => [](InLine => <>~Due(e, k))
    BY LineDelivered
  <2>7. Lively => [](Served => <>~Due(e, k))
    BY ServedDelivered
  <2> HIDE DEF Asked, All, Row, InLine, Served
  <2>8. [](\A a \in Asks : Due(e, k) /\ a \in attaching => <>~Due(e, k)) => [](Asked => <>~Due(e, k))
    BY <2>3, PTL
  <2> QED
    BY <2>1, <2>2, <2>4, <2>5, <2>6, <2>7, <2>8, PTL DEF Lively
<1>2. ASSUME NEW e \in Event, NEW k \in Sockets
      PROVE  FairSpec /\ []GoroutinesNotStuck =>
               (e \in queue /\ sockets[e.session] = k /\ k \in open /\ e.session \in channels
                   ~> \/ e \in received[k] \/ e \notin queue \/ e \in skipped
                      \/ sockets[e.session] # k \/ k \notin open
                      \/ e.session \notin channels \/ ~connected \/ overtaken)
  <2> DEFINE Sent == \/ e \in received[k] \/ e \notin queue \/ e \in skipped
                     \/ sockets[e.session] # k \/ k \notin open
                     \/ e.session \notin channels \/ ~connected \/ overtaken
             Watches == e \in queue /\ sockets[e.session] = k /\ k \in open /\ e.session \in channels
  <2>1. ~Due(e, k) => Sent
    BY DEF Due
  <2>2. Due(e, k) \/ ~Due(e, k)
    OBVIOUS
  <2>3. overtaken => Sent
    OBVIOUS
  <2> HIDE DEF Sent, Watches
  <2>4. Lively => [](Due(e, k) => <>~Due(e, k))
    BY <1>1
  <2>5. FairSpec /\ []GoroutinesNotStuck => (Watches ~> Sent)
    BY <2>1, <2>2, <2>3, <2>4, FairLively, PTL DEF Lively
  <2> QED
    BY <2>5 DEF Sent, Watches
<1> QED
  BY <1>2 DEF EventDelivered
=============================================================================
