------------------------- MODULE WebSocketProperties -------------------------
(***************************************************************************)
(* What the listener of module WebSocket owes to the sessions attached.    *)
(***************************************************************************)
EXTENDS WebSocket

\* The events of a sequence of notifications.
InFlight(q) == {q[i] : i \in DOMAIN q}

\* A request to listen to s that has not queried event.event yet.
AttachPending(s) ==
    \/ \E a \in attaching : a.session = s
    \/ /\ listener.session = s /\ listener.op = "listen"
       /\ listener.pc \in {"cancelled", "await", "exec", "executing", "spawn", "query"}

(* Comment of event.event: the reattach handler "should blast out all the  *)
(* events that the client has not yet deleted".  While the listener's      *)
(* connection listens to a session whose socket is connected, every event  *)
(* in its queue has reached that socket, is on its way as a notification,  *)
(* or is in the replay of an attach at hand, except those that the last    *)
(* replay left out because its query failed, an error only printed         *)
(* (websocket.go:96-110): no reconnection, no detach and no order of       *)
(* requests loses another, and the next replay that works makes up for it. *)
Watched(e)   == e.session \in channels /\ sockets[e.session] \in open /\ connected
Accounted(e) == \/ e \in received[sockets[e.session]]
                \/ e \in InFlight(wire) \cup InFlight(notified) \cup listener.rows
                \/ AttachPending(e.session)

NoEventLost == \A e \in queue : Watched(e) /\ e \notin skipped => Accounted(e)

(* The comment "wait until done cancelling" (websocket.go:81, :117): when  *)
(* the listener comes to use the connection, no goroutine waits on it, and *)
(* never do two goroutines wait on it.                                     *)
ConnectionExclusive ==
    /\ listener.pc \in {"exec", "executing"} => ~Waiting
    /\ \A v, w \in Waiters :
          waiter[v].pc = "waiting" /\ waiter[w].pc = "waiting" => v = w

(* The one way to break it: a request was taken while a goroutine had yet  *)
(* to set done and cancel (websocket.go:56-59).  Without such a request in *)
(* the life of the process, no order of cancelling, waiting, faults and    *)
(* notifications makes two goroutines meet on the connection.              *)
ExclusiveUnlessOvertaken == overtaken \/ ConnectionExclusive

(* The protocol around done and cancel, while no goroutine was overtaken:  *)
(* at most one goroutine runs start(), none while the listener uses the    *)
(* connection; it owns the channel in done until it closes it, once;       *)
(* cancel is set when a request must stop it; and the listener waits for   *)
(* that channel.                                                           *)
Running(w) == waiter[w].pc # "none"

Handshake ==
    /\ \A v, w \in Waiters : Running(v) /\ Running(w) => v = w
    /\ \A w \in Waiters : Running(w) =>
          /\ w \notin closed
          /\ listener.pc \notin {"exec", "executing", "spawn"}
          /\ waiter[w].pc # "new" => done = w
          /\ waiter[w].pc \in {"new", "named"} => listener.pc \notin {"cancelled", "await"}
          /\ waiter[w].pc \notin {"new", "named"} /\ listener.pc # "await" => cancel = w
    /\ cancel # Nil => done # Nil
    /\ listener.pc = "cancelled" => cancel # Nil
    /\ listener.pc = "await" => listener.wait = done /\ done # Nil

(* <-done (websocket.go:82, :118) returns: the channel the listener waits  *)
(* for is closed, or its goroutine lives, has been told to stop and is     *)
(* past the statements that set done and cancel; and close(done) (:72)     *)
(* never finds it closed, which would end the process.  Only a goroutine   *)
(* overtaken in the life of the process can break it.                      *)
DoneCloses ==
    /\ listener.pc = "await" =>
          \/ listener.wait \in closed
          \/ /\ listener.wait \in Waiters /\ done = listener.wait
             /\ waiter[done].pc \in {"loop", "waiting", "closing"}
             /\ waiter[done].cancelled
    /\ \A w \in Waiters : waiter[w].pc = "closing" => done \notin closed

ListenerFreed == overtaken \/ DoneCloses

(* What makes NoEventLost inductive: rows are only held during a replay,   *)
(* a daemon without its listener has no connection of its own, one given   *)
(* back to the pool is nobody's, and a closed one listens to nothing.      *)
RowsInReplay  == listener.pc # "replay" => listener.rows = {}
LostIsSilent  == /\ listener.pc \in {"dead", "down"} => ~connected
                 /\ listener.pc = "down" => ~pooled
                 /\ ~(connected /\ pooled)
                 /\ ~connected /\ ~pooled => channels = {}
DeliveryInv   == RowsInReplay /\ LostIsSilent /\ NoEventLost

-----------------------------------------------------------------------------
(* Nobody waits for everybody: the listener can go on with its request, if *)
(* it does not wait for a channel still open (websocket.go:82, :118); a    *)
(* goroutine can, unless it waits for a notification and nothing has been  *)
(* sent and nobody has cancelled it; and whoever is blocked on an          *)
(* unbuffered channel (:36, :169) is received when the listener selects.   *)
ListenerAble == \/ listener.pc \in {"cancelled", "exec", "executing", "spawn",
                                    "query", "replay", "purge"}
                \/ listener.pc = "await" /\ listener.wait \in closed

WaiterAble(w) == \/ waiter[w].pc \in {"new", "named", "loop", "closing"}
                 \/ waiter[w].pc = "waiting" /\ (wire # <<>> \/ waiter[w].cancelled)

GoroutinesNotStuck ==
    /\ ListenerAble => ENABLED <<Listener>>_vars
    /\ \A w \in Waiters : WaiterAble(w) => ENABLED <<Waiter(w)>>_vars
    /\ MayReceive => /\ \A a \in attaching : ENABLED <<ReceiveListen(a)>>_vars
                     /\ \A s \in detaching : ENABLED <<ReceiveUnlisten(s)>>_vars

-----------------------------------------------------------------------------
(* Every attach handler returns, and every event of an attached session    *)
(* reaches its socket, while the listener has its connection and no        *)
(* request overtakes a goroutine; but for an event that a failed replay    *)
(* leaves out.                                                             *)

AttachAnswered ==
    \A a \in [socket : Sockets, session : Sessions] :
        a \in attaching ~> (a \notin attaching \/ ~connected \/ overtaken)

EventDelivered ==
    \A e \in Event, k \in Sockets :
        e \in queue /\ sockets[e.session] = k /\ k \in open /\ e.session \in channels
            ~> \/ e \in received[k] \/ e \notin queue \/ e \in skipped
               \/ sockets[e.session] # k \/ k \notin open
               \/ e.session \notin channels \/ ~connected \/ overtaken

(* A detached session is deleted in the end, its events with it, or the    *)
(* delete was tried and failed.                                            *)
DeleteFailed(s) == listener.pc = "select" /\ listener.session = s

DetachDeletes ==
    \A s \in Sessions :
        s \in detaching ~> (s \notin session \/ DeleteFailed(s) \/ ~connected \/ overtaken)

-----------------------------------------------------------------------------
(* The daemon and its clients use the event tables as module Inbox says,   *)
(* which module Event implements: no entry is changed or comes back, and   *)
(* a session's entries go with it.                                         *)
I == INSTANCE Inbox
ImplementsInbox == I!Spec
=============================================================================
