------------------------------- MODULE Inbox --------------------------------
(***************************************************************************)
(* What the event tables promise the daemon and the browsers: "a kind of   *)
(* inbox for events" (README of the event extension).  A change puts at    *)
(* most one entry into the inbox of each session that exists; an entry     *)
(* stays until its session acknowledges it or goes, and never comes back.  *)
(***************************************************************************)
EXTENDS Naturals

CONSTANT Sessions

VARIABLES
    session,     \* the sessions that exist
    published,   \* how many changes there were
    queue        \* the entries of all inboxes

vars == <<session, published, queue>>

Entries(S) == {[id |-> published + 1, session |-> s] : s \in S}

Init == session \in SUBSET Sessions /\ published = 0 /\ queue = {}

Create(s) ==
    /\ s \notin session
    /\ session' = session \cup {s}
    /\ UNCHANGED <<published, queue>>

Delete(s) ==
    /\ session' = session \ {s}
    /\ queue' = {e \in queue : e.session # s}
    /\ UNCHANGED published

Post(S) ==
    /\ S \subseteq session
    /\ published' = published + 1
    /\ queue' = queue \cup Entries(S)
    /\ UNCHANGED session

Acknowledge(e) ==
    /\ queue' = queue \ {e}
    /\ UNCHANGED <<session, published>>

Next == \/ \E s \in Sessions : Create(s) \/ Delete(s)
        \/ \E S \in SUBSET Sessions : Post(S)
        \/ \E e \in queue : Acknowledge(e)

Spec == Init /\ [][Next]_vars

-----------------------------------------------------------------------------
(* An entry of a change that has happened, once acknowledged or gone with  *)
(* its session, is never in the inbox again: no replay, no new session of  *)
(* the same name and no later change brings it back.                       *)
GoneForGood(e) == [](e.id \in 1..published /\ e \notin queue => [](e \notin queue))
=============================================================================
