--------------------------- MODULE EventProperties ---------------------------
(***************************************************************************)
(* What the triggers of module Event owe to subscribers.                   *)
(***************************************************************************)
EXTENDS Event

(* Every subscription has its trigger; triggers are created when someone   *)
(* subscribes and outlive the subscriptions.                               *)
TriggersPresent ==
    /\ subscriptionTable # {} \/ subscriptionColumn # {} => tableTrigger
    /\ subscriptionRow # {} \/ subscriptionField # {} => rowTrigger

\* The events a step adds, for a session and a kind of subscription.
Fresh          == event' \ event
Told(s, types) == {e \in Fresh : e.session = s /\ e.type \in types}

\* The rows a step changes; a row that gets another key is two of them.
Touched == {r \in Rows : table'[r] # table[r]}
Rekeyed == Cardinality(Touched) = 2

(* No session is told of what it did not subscribe to: an event about a    *)
(* row needs a subscription to the row that changed or to one of its       *)
(* fields, and a column or field subscriber hears of updates of nothing    *)
(* but the column or field it named.                                       *)
Wanted(e) ==
    CASE e.type = "table"  -> e.session \in subscriptionTable
      [] e.type = "column" -> \E c \in AllColumns :
             /\ <<e.session, c>> \in subscriptionColumn
             /\ e.op = "update" => DOMAIN e.payload = {c}
      [] e.type = "row"    -> \E r \in Touched : <<e.session, r>> \in subscriptionRow
      [] e.type = "field"  -> \E r \in Touched, c \in AllColumns :
             /\ <<e.session, r, c>> \in subscriptionField
             /\ e.op = "update" => DOMAIN e.payload = {c}

OnlyWanted == [][\A e \in Fresh : Wanted(e)]_vars

(* "No duplicates" (000-event.sql:209, :360): however a session subscribes, *)
(* each trigger tells it of one change once, and of one column once.       *)
NoDuplicates ==
    [][\A d, e \in Fresh :
          /\ d.session = e.session
          /\ {d.type, e.type} \subseteq {"table", "column"} \/ {d.type, e.type} \subseteq {"row", "field"}
          /\ DOMAIN d.payload = DOMAIN e.payload
          => d = e]_vars

(* README, Relational diff: the difference between two states of a table   *)
(* is a set of these operations.  What a session is told takes the table   *)
(* (here, a row of it) as it was to the table as it is.                    *)
Applied(E, r) ==
    IF \E e \in E : e.op = "delete" THEN Absent
    ELSE IF \E e \in E : e.op = "insert" THEN (CHOOSE e \in E : e.op = "insert").payload
    ELSE [c \in Columns |-> IF \E e \in E : c \in DOMAIN e.payload
                            THEN (CHOOSE e \in E : c \in DOMAIN e.payload).payload[c]
                            ELSE table[r][c]]

Rebuilds(E, r) == LET F == {e \in E : e.row = r}
                  IN  table'[r] = IF F = {} THEN table[r] ELSE Applied(F, r)

(* A subscriber to the table can rebuild it from its events, unless the    *)
(* row got another key.                                                    *)
TableRebuilt ==
    [][~Rekeyed => \A s \in subscriptionTable, r \in Rows : Rebuilds(Told(s, {"table"}), r)]_vars

(* A subscriber to a row can rebuild it, if neither it nor a session before *)
(* it has subscribed to another row.                                       *)
FirstInLine(s, r) ==
    /\ \A x \in subscriptionRow : x[1] <= s => x[2] = r
    /\ \A x \in subscriptionField : x[1] <= s => x[2] = r

RowRebuilt ==
    [][~Rekeyed => \A s \in session, r \in Rows :
          <<s, r>> \in subscriptionRow /\ FirstInLine(s, r) /\ table[r] # Absent
          => Rebuilds(Told(s, {"row"}), r)]_vars

-----------------------------------------------------------------------------
\* The inbox of module Inbox; what one change tells a session is one entry.
I == INSTANCE Inbox WITH
        queue <- {[id |-> e.change, session |-> e.session] : e \in event}

(* Event implements Inbox, on which module WebSocket builds.               *)
ImplementsInbox == I!Spec
=============================================================================
