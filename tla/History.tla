------------------------------ MODULE History -------------------------------
(***************************************************************************)
(* What the bundle extension promises of its commit history (README,       *)
(* COMMITS, WORKING COPY and ANCESTRY): a bundle's history is a forest of  *)
(* snapshots.  A snapshot is recorded once, as a child of its bundle's     *)
(* head, and stays exactly as it was recorded until it is forgotten; a     *)
(* snapshot is never forgotten from under a surviving child; and a head is *)
(* a snapshot of its own bundle, or none.                                  *)
(***************************************************************************)
EXTENDS Naturals

CONSTANTS Bundles, None

VARIABLES
    made,      \* number of snapshots ever recorded
    history,   \* the snapshots there are: [id, bundle, parent, snapshot]
    head       \* the id of each bundle's current snapshot, or None

hvars == <<made, history, head>>

Ids(h) == {e.id : e \in h}

Init ==
    /\ made = 0
    /\ history = {}
    /\ head = [b \in Bundles |-> None]

\* A new snapshot of bundle b, a child of the current one.
Record(b) ==
    /\ made' = made + 1
    /\ \E e \in history' :
          /\ e.id = made'
          /\ e.bundle = b
          /\ e.parent = head[b]
          /\ history' = history \cup {e}
    /\ head' = [head EXCEPT ![b] = made']

\* A snapshot that belongs to no bundle.
RecordOrphan ==
    /\ made' = made + 1
    /\ \E e \in history' :
          /\ e.id = made'
          /\ e.bundle = None
          /\ e.parent = None
          /\ history' = history \cup {e}
    /\ UNCHANGED head

\* Another snapshot of the same bundle becomes its current one.
Select(b) ==
    /\ \E e \in history : e.bundle = b /\ head' = [head EXCEPT ![b] = e.id]
    /\ UNCHANGED <<made, history>>

\* Snapshots go, never one whose child stays; a head among them is cleared.
Forget ==
    /\ history' \subseteq history
    /\ \A e \in history' : e.parent \in Ids(history) => e.parent \in Ids(history')
    /\ head' = [b \in Bundles |-> IF head[b] \in Ids(history') THEN head[b] ELSE None]
    /\ UNCHANGED made

Next == \/ \E b \in Bundles : Record(b) \/ Select(b)
        \/ RecordOrphan
        \/ Forget

Spec == Init /\ [][Next]_hvars
=============================================================================
