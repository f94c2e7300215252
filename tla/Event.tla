-------------------------------- MODULE Event --------------------------------
(***************************************************************************)
(* The event extension (event/000-event.sql): sessions, their              *)
(* subscriptions to a table, its columns, rows and fields, and the two     *)
(* trigger functions that turn each change of a row into rows of           *)
(* event.event.  One table is enough: the triggers select subscriptions by *)
(* the table they fire on.  Its key is one integer column.                 *)
(***************************************************************************)
EXTENDS Naturals, FiniteSets

CONSTANTS
    Sessions,          \* ordered as their ids are
    Rows,              \* values of the key
    Columns,           \* the table's other columns
    Key,               \* the key column
    Values, Absent,
    MaxChanges,        \* bound on the changes of rows
    MaxSubscriptions   \* bound on the subscriptions at one time

ASSUME EventAssumption ==
    /\ Sessions \subseteq Nat
    /\ Key \notin Columns
    /\ Absent \notin [Columns -> Values]
    /\ MaxChanges \in Nat /\ MaxSubscriptions \in Nat

VARIABLES
    table,               \* the rows of the table
    session,             \* table event.session
    subscriptionTable,   \* event.subscription_table and so on: sessions,
    subscriptionColumn,  \* <<session, column>>,
    subscriptionRow,     \* <<session, row>>,
    subscriptionField,   \* <<session, row, column>>
    tableTrigger,        \* whether the table has the trigger <name>_evented_table
    rowTrigger,          \* ... <name>_evented_row
    event,               \* table event.event
    published            \* number of changes so far

subscriptions == <<subscriptionTable, subscriptionColumn, subscriptionRow, subscriptionField>>
triggers      == <<tableTrigger, rowTrigger>>
vars          == <<table, session, subscriptions, triggers, event, published>>

AllColumns == Columns \cup {Key}
Payloads   == UNION {[C -> Values \cup Rows] : C \in SUBSET AllColumns}

EventRow == [change : 1..MaxChanges, session : Sessions,
             type : {"table", "column", "row", "field"},
             op : {"insert", "update", "delete"}, row : Rows, payload : Payloads]

TypeOK ==
    /\ table \in [Rows -> [Columns -> Values] \cup {Absent}]
    /\ session \subseteq Sessions
    /\ subscriptionTable \subseteq session                  \* foreign keys
    /\ subscriptionColumn \subseteq session \X AllColumns
    /\ subscriptionRow \subseteq session \X Rows
    /\ subscriptionField \subseteq session \X Rows \X AllColumns
    /\ tableTrigger \in BOOLEAN /\ rowTrigger \in BOOLEAN
    /\ event \subseteq {e \in EventRow : e.session \in session /\ e.change <= published}
    /\ published \in 0..MaxChanges

Init ==
    /\ table \in [Rows -> [Columns -> Values] \cup {Absent}]
    /\ session = {}
    /\ subscriptionTable = {} /\ subscriptionColumn = {}
    /\ subscriptionRow = {} /\ subscriptionField = {}
    /\ tableTrigger = FALSE /\ rowTrigger = FALSE
    /\ event = {} /\ published = 0

-----------------------------------------------------------------------------
(* Sessions and subscriptions.                                             *)

\* A session that is gone left nothing behind: its id stands for a new one.
SessionCreate(s) ==
    /\ s \notin session
    /\ session' = session \cup {s}
    /\ UNCHANGED <<table, subscriptions, triggers, event, published>>

\* Broken variant of SessionDelete: no cascade to event.event.
SessionDeleteKeepsEvents(s) ==
    /\ s \in session
    /\ session' = session \ {s}
    /\ subscriptionTable' = subscriptionTable \ {s}
    /\ subscriptionColumn' = {x \in subscriptionColumn : x[1] # s}
    /\ subscriptionRow' = {x \in subscriptionRow : x[1] # s}
    /\ subscriptionField' = {x \in subscriptionField : x[1] # s}
    /\ UNCHANGED <<table, triggers, event, published>>

\* Subscriptions and events go with their session, triggers stay.
SessionDelete(s) ==
    /\ s \in session
    /\ session' = session \ {s}
    /\ subscriptionTable' = subscriptionTable \ {s}
    /\ subscriptionColumn' = {x \in subscriptionColumn : x[1] # s}
    /\ subscriptionRow' = {x \in subscriptionRow : x[1] # s}
    /\ subscriptionField' = {x \in subscriptionField : x[1] # s}
    /\ event' = {e \in event : e.session # s}
    /\ UNCHANGED <<table, triggers, published>>

Room == Cardinality(subscriptionTable) + Cardinality(subscriptionColumn)
            + Cardinality(subscriptionRow) + Cardinality(subscriptionField) < MaxSubscriptions

SubscribeTable(s) ==
    /\ s \in session /\ Room
    /\ subscriptionTable' = subscriptionTable \cup {s}
    /\ tableTrigger' = TRUE
    /\ UNCHANGED <<table, session, subscriptionColumn, subscriptionRow, subscriptionField,
                   rowTrigger, event, published>>

SubscribeColumn(s, c) ==
    /\ s \in session /\ Room
    /\ subscriptionColumn' = subscriptionColumn \cup {<<s, c>>}
    /\ tableTrigger' = TRUE
    /\ UNCHANGED <<table, session, subscriptionTable, subscriptionRow, subscriptionField,
                   rowTrigger, event, published>>

SubscribeRow(s, r) ==
    /\ s \in session /\ Room
    /\ subscriptionRow' = subscriptionRow \cup {<<s, r>>}
    /\ rowTrigger' = TRUE
    /\ UNCHANGED <<table, session, subscriptionTable, subscriptionColumn, subscriptionField,
                   tableTrigger, event, published>>

SubscribeField(s, r, c) ==
    /\ s \in session /\ Room
    /\ subscriptionField' = subscriptionField \cup {<<s, r, c>>}
    /\ rowTrigger' = TRUE
    /\ UNCHANGED <<table, session, subscriptionTable, subscriptionColumn, subscriptionRow,
                   tableTrigger, event, published>>

-----------------------------------------------------------------------------
(* The trigger functions.  A change is [op, old, new, before, after]: the  *)
(* key and the contents of the row, as OLD and NEW hold them.              *)

ChangedColumns(ch) ==
    {c \in Columns : ch.before[c] # ch.after[c]} \cup (IF ch.old # ch.new THEN {Key} ELSE {})

NewValue(ch, c) == IF c = Key THEN ch.new ELSE ch.after[c]

\* Broken variants of the two below: "order by type" without desc.
TableMatchesColumnFirst(s) ==
    IF \E c \in AllColumns : <<s, c>> \in subscriptionColumn
    THEN {[type |-> "column", columns |-> {c}] : c \in {c \in AllColumns : <<s, c>> \in subscriptionColumn}}
    ELSE {[type |-> "table", columns |-> AllColumns] : t \in subscriptionTable \cap {s}}

RowMatchesFieldFirst(s) ==
    IF \E x \in subscriptionField : x[1] = s
    THEN {[type |-> "field", row |-> x[2], columns |-> {x[3]}] :
             x \in {x \in subscriptionField : x[1] = s}}
    ELSE {[type |-> "row", row |-> r, columns |-> AllColumns] :
             r \in {r \in Rows : <<s, r>> \in subscriptionRow}}

\* What the join finds for a session: the kind of subscription, the row it
\* names, and the columns whose update it reports.  "order by type desc"
\* prefers table to column and row to field.
TableMatches(s) ==
    IF s \in subscriptionTable
    THEN {[type |-> "table", columns |-> AllColumns]}
    ELSE {[type |-> "column", columns |-> {c}] : c \in {c \in AllColumns : <<s, c>> \in subscriptionColumn}}

RowMatches(s) ==
    IF \E r \in Rows : <<s, r>> \in subscriptionRow
    THEN {[type |-> "row", row |-> r, columns |-> AllColumns] :
             r \in {r \in Rows : <<s, r>> \in subscriptionRow}}
    ELSE {[type |-> "field", row |-> x[2], columns |-> {x[3]}] :
             x \in {x \in subscriptionField : x[1] = s}}

\* "distinct on (session_id)": one match of each session that has any; which
\* one of equals is up to the database.
Receivers(matches) == {s \in session : matches[s] # {}}
Picks(matches) ==
    {pick \in [Receivers(matches) -> UNION {matches[s] : s \in session}] :
        \A s \in Receivers(matches) : pick[s] \in matches[s]}
TablePicks == Picks([s \in session |-> TableMatches(s)])
RowPicks   == Picks([s \in session |-> RowMatches(s)])

\* The rows one turn of the loop inserts into event.event, and notifies.
EventsOf(s, m, ch) ==
    LET Row(payload) == [change |-> published + 1, session |-> s, type |-> m.type,
                         op |-> ch.op, row |-> ch.new, payload |-> payload]
    IN  CASE ch.op = "insert" -> {Row(ch.after)}
          [] ch.op = "delete" -> {Row([c \in {} |-> ch.new])}
          [] ch.op = "update" -> {Row([x \in {c} |-> NewValue(ch, c)]) :
                                     c \in ChangedColumns(ch) \cap m.columns}

\* Broken variant of TableListener: no "distinct on".
TableListenerAll(ch, pick) ==
    UNION {EventsOf(s, pick[s], ch) : s \in DOMAIN pick}
    \cup UNION {EventsOf(x[1], [type |-> "column", columns |-> {x[2]}], ch) : x \in subscriptionColumn}

TableListener(ch, pick) == UNION {EventsOf(s, pick[s], ch) : s \in DOMAIN pick}

\* Broken variant of RowListener: does not look at the row.
RowListenerAnyRow(ch, pick) == UNION {EventsOf(s, pick[s], ch) : s \in DOMAIN pick}

\* The loop returns at the first session whose match names another row.
RowListener(ch, pick) ==
    UNION {EventsOf(s, pick[s], ch) :
             s \in {s \in DOMAIN pick : \A t \in DOMAIN pick : t <= s => pick[t].row = ch.old}}

Change(ch) ==
    /\ published < MaxChanges
    /\ published' = published + 1
    /\ \E tp \in TablePicks, rp \in RowPicks :
          event' = event
             \cup (IF tableTrigger THEN TableListener(ch, tp) ELSE {})
             \cup (IF rowTrigger /\ ch.op # "insert" THEN RowListener(ch, rp) ELSE {})
    /\ UNCHANGED <<session, subscriptions, triggers>>

-----------------------------------------------------------------------------
(* Clients of the database.                                                *)

Insert(r, v) ==
    /\ table[r] = Absent
    /\ table' = [table EXCEPT ![r] = v]
    /\ Change([op |-> "insert", old |-> r, new |-> r, before |-> v, after |-> v])

\* The row may get another key.
Update(r, q, v) ==
    /\ table[r] # Absent
    /\ q = r \/ table[q] = Absent
    /\ table' = [table EXCEPT ![r] = Absent, ![q] = v]
    /\ Change([op |-> "update", old |-> r, new |-> q, before |-> table[r], after |-> v])

Delete(r) ==
    /\ table[r] # Absent
    /\ table' = [table EXCEPT ![r] = Absent]
    /\ Change([op |-> "delete", old |-> r, new |-> r, before |-> table[r], after |-> table[r]])

\* The client deletes events upon receipt.
Acknowledge(e) ==
    /\ event' = event \ {e}
    /\ UNCHANGED <<table, session, subscriptions, triggers, published>>

Subscribe ==
    \E s \in Sessions :
        \/ SubscribeTable(s)
        \/ \E c \in AllColumns : SubscribeColumn(s, c)
        \/ \E r \in Rows : SubscribeRow(s, r)
        \/ \E r \in Rows, c \in AllColumns : SubscribeField(s, r, c)

Write == \/ \E r \in Rows, v \in [Columns -> Values] : Insert(r, v)
         \/ \E r, q \in Rows, v \in [Columns -> Values] : Update(r, q, v)
         \/ \E r \in Rows : Delete(r)

Next == \/ \E s \in Sessions : SessionCreate(s) \/ SessionDelete(s)
        \/ Subscribe
        \/ Write
        \/ \E e \in event : Acknowledge(e)

Spec == Init /\ [][Next]_vars
=============================================================================
