----------------------------- MODULE EventProofs -----------------------------
(***************************************************************************)
(* Theorems about module Event, for any sessions, rows, columns, values    *)
(* and bounds.                                                             *)
(***************************************************************************)
EXTENDS EventProperties, FiniteSetTheorems, TLAPS

USE EventAssumption

Types == {"table", "column", "row", "field"}

\* A change of one row, as Insert, Update and Delete make it.
Changes == [op : {"insert", "update", "delete"}, old : Rows, new : Rows,
            before : [Columns -> Values], after : [Columns -> Values]]

\* What a change adds to event.event while the triggers find these matches.
New(E) == \A e \in E : e \in EventRow /\ e.session \in session /\ e.change = published + 1

LEMMA EventsOfNew ==
    ASSUME TypeOK, published < MaxChanges, NEW s \in session, NEW ch \in Changes,
           NEW m, m.type \in Types, m.columns \subseteq AllColumns
    PROVE  New(EventsOf(s, m, ch))
<1> DEFINE Row(payload) == [change |-> published + 1, session |-> s, type |-> m.type,
                            op |-> ch.op, row |-> ch.new, payload |-> payload]
<1>1. published + 1 \in 1..MaxChanges /\ s \in Sessions
  BY DEF TypeOK
<1>2. ASSUME NEW p \in Payloads PROVE New({Row(p)})
  BY <1>1, <1>2 DEF New, EventRow, Changes, Types
<1>3. ch.after \in Payloads
  <2>1. ch.after \in [Columns -> Values \cup Rows] /\ Columns \in SUBSET AllColumns
    BY DEF Changes, AllColumns
  <2> QED
    BY <2>1 DEF Payloads
<1>4. [c \in {} |-> ch.new] \in Payloads
  <2>1. [c \in {} |-> ch.new] \in [{} -> Values \cup Rows] /\ {} \in SUBSET AllColumns
    OBVIOUS
  <2> QED
    BY <2>1 DEF Payloads
<1>5. ASSUME NEW c \in AllColumns PROVE [x \in {c} |-> NewValue(ch, c)] \in Payloads
  <2>1. NewValue(ch, c) \in Values \cup Rows
    BY DEF NewValue, Changes, AllColumns
  <2>2. [x \in {c} |-> NewValue(ch, c)] \in [{c} -> Values \cup Rows] /\ {c} \in SUBSET AllColumns
    BY <2>1
  <2> QED
    BY <2>2 DEF Payloads
<1>6. CASE ch.op = "insert"
  <2>1. EventsOf(s, m, ch) = {Row(ch.after)}
    BY <1>6 DEF EventsOf
  <2> QED
    BY <1>2, <1>3, <2>1
<1>7. CASE ch.op = "delete"
  <2>1. EventsOf(s, m, ch) = {Row([c \in {} |-> ch.new])}
    BY <1>7 DEF EventsOf
  <2> QED
    BY <1>2, <1>4, <2>1
<1>8. CASE ch.op = "update"
  <2>1. EventsOf(s, m, ch) = {Row([x \in {c} |-> NewValue(ch, c)]) :
                                 c \in ChangedColumns(ch) \cap m.columns}
    BY <1>8 DEF EventsOf
  <2> SUFFICES ASSUME NEW e \in EventsOf(s, m, ch)
               PROVE  e \in EventRow /\ e.session \in session /\ e.change = published + 1
    BY DEF New
  <2>2. PICK c \in ChangedColumns(ch) \cap m.columns : e = Row([x \in {c} |-> NewValue(ch, c)])
    BY <2>1
  <2>3. New({Row([x \in {c} |-> NewValue(ch, c)])})
    BY <1>2, <1>5
  <2> QED
    BY <2>2, <2>3 DEF New
<1> QED
  BY <1>6, <1>7, <1>8 DEF Changes

LEMMA MatchesTyped ==
    ASSUME TypeOK, NEW s \in session
    PROVE  \A m \in TableMatches(s) \cup RowMatches(s) :
              m.type \in Types /\ m.columns \subseteq AllColumns
<1>1. ASSUME NEW m \in TableMatches(s) PROVE m.type \in Types /\ m.columns \subseteq AllColumns
  <2>1. CASE s \in subscriptionTable
    <3>1. m = [type |-> "table", columns |-> AllColumns]
      BY <1>1, <2>1 DEF TableMatches
    <3> QED
      BY <3>1 DEF Types
  <2>2. CASE s \notin subscriptionTable
    <3>1. PICK c \in AllColumns : m = [type |-> "column", columns |-> {c}]
      BY <1>1, <2>2 DEF TableMatches
    <3> QED
      BY <3>1 DEF Types
  <2> QED
    BY <2>1, <2>2
<1>2. ASSUME NEW m \in RowMatches(s) PROVE m.type \in Types /\ m.columns \subseteq AllColumns
  <2>1. CASE \E r \in Rows : <<s, r>> \in subscriptionRow
    <3>1. PICK r \in Rows : m = [type |-> "row", row |-> r, columns |-> AllColumns]
      BY <1>2, <2>1 DEF RowMatches
    <3> QED
      BY <3>1 DEF Types
  <2>2. CASE ~\E r \in Rows : <<s, r>> \in subscriptionRow
    <3>1. PICK x \in subscriptionField : m = [type |-> "field", row |-> x[2], columns |-> {x[3]}]
      BY <1>2, <2>2 DEF RowMatches
    <3>2. x[3] \in AllColumns
      BY <3>1 DEF TypeOK
    <3> QED
      BY <3>1, <3>2 DEF Types
  <2> QED
    BY <2>1, <2>2
<1> QED
  BY <1>1, <1>2

\* A change adds events of existing sessions, all with its own number.
LEMMA ChangeAdds ==
    ASSUME TypeOK, NEW ch \in Changes, Change(ch)
    PROVE  \E E : event' = event \cup E /\ New(E)
<1>1. PICK tp \in TablePicks, rp \in RowPicks :
         event' = event
             \cup (IF tableTrigger THEN TableListener(ch, tp) ELSE {})
             \cup (IF rowTrigger /\ ch.op # "insert" THEN RowListener(ch, rp) ELSE {})
  BY DEF Change
<1>2. published < MaxChanges
  BY DEF Change
<1>3. \A s \in DOMAIN tp : s \in session /\ tp[s] \in TableMatches(s)
  BY DEF TablePicks, Picks, Receivers
<1>4. \A s \in DOMAIN rp : s \in session /\ rp[s] \in RowMatches(s)
  BY DEF RowPicks, Picks, Receivers
<1>5. \A s \in DOMAIN tp : New(EventsOf(s, tp[s], ch))
  BY <1>2, <1>3, MatchesTyped, EventsOfNew
<1>6. \A s \in DOMAIN rp : New(EventsOf(s, rp[s], ch))
  BY <1>2, <1>4, MatchesTyped, EventsOfNew
<1>7. New(TableListener(ch, tp))
  BY <1>5 DEF TableListener, New
<1>8. New(RowListener(ch, rp))
  BY <1>6 DEF RowListener, New
<1> DEFINE E == (IF tableTrigger THEN TableListener(ch, tp) ELSE {})
                \cup (IF rowTrigger /\ ch.op # "insert" THEN RowListener(ch, rp) ELSE {})
<1>9. event' = event \cup E
  BY <1>1
<1>10. New(E)
  BY <1>7, <1>8 DEF New
<1> QED
  BY <1>9, <1>10

\* Every write is a change of one row.
LEMMA WriteChanges ==
    ASSUME TypeOK, Write
    PROVE  /\ \E ch \in Changes : Change(ch)
           /\ table' \in [Rows -> [Columns -> Values] \cup {Absent}]
<1>1. ASSUME NEW r \in Rows, NEW v \in [Columns -> Values], Insert(r, v)
      PROVE  /\ \E ch \in Changes : Change(ch)
             /\ table' \in [Rows -> [Columns -> Values] \cup {Absent}]
  <2>1. [op |-> "insert", old |-> r, new |-> r, before |-> v, after |-> v] \in Changes
    BY DEF Changes
  <2> QED
    BY <1>1, <2>1 DEF Insert, TypeOK
<1>2. ASSUME NEW r \in Rows, NEW q \in Rows, NEW v \in [Columns -> Values], Update(r, q, v)
      PROVE  /\ \E ch \in Changes : Change(ch)
             /\ table' \in [Rows -> [Columns -> Values] \cup {Absent}]
  <2>1. [op |-> "update", old |-> r, new |-> q, before |-> table[r], after |-> v] \in Changes
    BY <1>2 DEF Changes, Update, TypeOK
  <2> QED
    BY <1>2, <2>1 DEF Update, TypeOK
<1>3. ASSUME NEW r \in Rows, Delete(r)
      PROVE  /\ \E ch \in Changes : Change(ch)
             /\ table' \in [Rows -> [Columns -> Values] \cup {Absent}]
  <2>1. [op |-> "delete", old |-> r, new |-> r, before |-> table[r], after |-> table[r]] \in Changes
    BY <1>3 DEF Changes, Delete, TypeOK
  <2> QED
    BY <1>3, <2>1 DEF Delete, TypeOK
<1> QED
  BY <1>1, <1>2, <1>3 DEF Write

LEMMA WriteTyped == ASSUME TypeOK, Write PROVE TypeOK'
<1>1. PICK ch \in Changes : Change(ch)
  BY WriteChanges
<1>2. PICK E : event' = event \cup E /\ New(E)
  BY <1>1, ChangeAdds
<1>3. published' = published + 1 /\ published' \in 0..MaxChanges
  BY <1>1 DEF Change, TypeOK
<1>4. session' = session
  BY <1>1 DEF Change
<1>5. event' \subseteq {e \in EventRow : e.session \in session' /\ e.change <= published'}
  <2> SUFFICES ASSUME NEW e \in event'
               PROVE  e \in EventRow /\ e.session \in session' /\ e.change <= published'
    OBVIOUS
  <2>1. CASE e \in event
    <3>1. e \in EventRow /\ e.session \in session /\ e.change <= published
      BY <2>1 DEF TypeOK
    <3>2. e.change \in Nat /\ published \in Nat
      BY <3>1 DEF EventRow, TypeOK
    <3> QED
      BY <1>3, <1>4, <3>1, <3>2
  <2>2. CASE e \in E
    <3>1. e \in EventRow /\ e.session \in session /\ e.change = published + 1
      BY <1>2, <2>2 DEF New
    <3> QED
      BY <1>3, <1>4, <3>1 DEF TypeOK
  <2> QED
    BY <1>2, <2>1, <2>2
<1> QED
  BY <1>1, <1>3, <1>5, WriteChanges DEF Change, TypeOK, subscriptions, triggers

LEMMA SubscribeTyped == ASSUME TypeOK, NEW s \in Sessions,
    \/ SubscribeTable(s)
    \/ \E c \in AllColumns : SubscribeColumn(s, c)
    \/ \E r \in Rows : SubscribeRow(s, r)
    \/ \E r \in Rows, c \in AllColumns : SubscribeField(s, r, c)
    PROVE TypeOK'
<1>1. CASE SubscribeTable(s)
  BY <1>1 DEF TypeOK, SubscribeTable
<1>2. ASSUME NEW c \in AllColumns, SubscribeColumn(s, c) PROVE TypeOK'
  BY <1>2 DEF TypeOK, SubscribeColumn
<1>3. ASSUME NEW r \in Rows, SubscribeRow(s, r) PROVE TypeOK'
  BY <1>3 DEF TypeOK, SubscribeRow
<1>4. ASSUME NEW r \in Rows, NEW c \in AllColumns, SubscribeField(s, r, c) PROVE TypeOK'
  BY <1>4 DEF TypeOK, SubscribeField
<1> QED
  BY <1>1, <1>2, <1>3, <1>4

LEMMA SessionDeleteTyped == ASSUME TypeOK, NEW s \in session, SessionDelete(s) PROVE TypeOK'
<1>1. subscriptionTable' \subseteq session'
  BY DEF SessionDelete, TypeOK
<1>2. subscriptionColumn' \subseteq session' \X AllColumns
  BY DEF SessionDelete, TypeOK
<1>3. subscriptionRow' \subseteq session' \X Rows
  BY DEF SessionDelete, TypeOK
<1>4. subscriptionField' \subseteq session' \X Rows \X AllColumns
  BY DEF SessionDelete, TypeOK
<1>5. event' \subseteq {e \in EventRow : e.session \in session' /\ e.change <= published'}
  BY DEF SessionDelete, TypeOK
<1> QED
  BY <1>1, <1>2, <1>3, <1>4, <1>5 DEF SessionDelete, TypeOK, triggers

(* Every reachable state is well typed: subscriptions and events belong to *)
(* sessions that exist, and no event has a number yet to come.             *)
THEOREM EventTyping == Spec => []TypeOK
<1>1. Init => TypeOK
  <2> SUFFICES ASSUME Init PROVE TypeOK
    OBVIOUS
  <2>1. published \in 0..MaxChanges
    BY EventAssumption DEF Init
  <2>2. event \subseteq {e \in EventRow : e.session \in session /\ e.change <= published}
    BY DEF Init
  <2> QED
    BY <2>1, <2>2 DEF Init, TypeOK
<1>2. TypeOK /\ [Next]_vars => TypeOK'
  <2> SUFFICES ASSUME TypeOK, [Next]_vars PROVE TypeOK'
    OBVIOUS
  <2>1. ASSUME NEW s \in Sessions, SessionCreate(s) PROVE TypeOK'
    BY <2>1 DEF TypeOK, SessionCreate, subscriptions, triggers
  <2>2. ASSUME NEW s \in Sessions, SessionDelete(s) PROVE TypeOK'
    BY <2>2, SessionDeleteTyped DEF SessionDelete
  <2>3. ASSUME NEW e \in event, Acknowledge(e) PROVE TypeOK'
    BY <2>3 DEF TypeOK, Acknowledge, subscriptions, triggers
  <2>4. CASE UNCHANGED vars
    BY <2>4 DEF TypeOK, vars, subscriptions, triggers
  <2> QED
    BY <2>1, <2>2, <2>3, <2>4, WriteTyped, SubscribeTyped DEF Next, Subscribe
<1> QED
  BY <1>1, <1>2, PTL DEF Spec

-----------------------------------------------------------------------------
(* A subscription always has its trigger.                                  *)
THEOREM TriggersStay == Spec => []TriggersPresent
<1> USE DEF TriggersPresent
<1>1. Init => TriggersPresent
  BY DEF Init
<1>2. TriggersPresent /\ [Next]_vars => TriggersPresent'
  <2> SUFFICES ASSUME TriggersPresent, [Next]_vars PROVE TriggersPresent'
    OBVIOUS
  <2>1. ASSUME NEW s \in Sessions, SessionCreate(s) \/ SessionDelete(s) PROVE TriggersPresent'
    BY <2>1 DEF SessionCreate, SessionDelete, subscriptions, triggers
  <2>2. CASE Subscribe
    BY <2>2 DEF Subscribe, SubscribeTable, SubscribeColumn, SubscribeRow, SubscribeField
  <2>3. CASE Write
    <3>1. UNCHANGED <<subscriptions, triggers>>
      BY <2>3 DEF Write, Insert, Update, Delete, Change
    <3> QED
      BY <3>1 DEF subscriptions, triggers
  <2>4. ASSUME NEW e \in event, Acknowledge(e) PROVE TriggersPresent'
    BY <2>4 DEF Acknowledge, subscriptions, triggers
  <2>5. CASE UNCHANGED vars
    BY <2>5 DEF vars, subscriptions, triggers
  <2> QED
    BY <2>1, <2>2, <2>3, <2>4, <2>5 DEF Next
<1> QED
  BY <1>1, <1>2, PTL DEF Spec

-----------------------------------------------------------------------------
(* Event implements Inbox.                                                 *)

Entry(e) == [id |-> e.change, session |-> e.session]

LEMMA ChangeIsPost ==
    ASSUME TypeOK, NEW ch \in Changes, Change(ch)
    PROVE  I!Next
<1>1. PICK E : event' = event \cup E /\ New(E)
  BY ChangeAdds
<1> DEFINE S == {e.session : e \in E}
<1>2. S \subseteq session /\ S \in SUBSET Sessions
  BY <1>1 DEF New, TypeOK
<1>3. {Entry(e) : e \in E} = I!Entries(S)
  BY <1>1 DEF New, Entry, I!Entries
<1>4. {Entry(e) : e \in event'} = {Entry(e) : e \in event} \cup {Entry(e) : e \in E}
  BY <1>1
<1>5. I!Post(S)
  BY <1>2, <1>3, <1>4 DEF I!Post, Entry, Change
<1> QED
  BY <1>2, <1>5 DEF I!Next

LEMMA AcknowledgeIsInbox ==
    ASSUME NEW e \in event, Acknowledge(e) PROVE I!Next \/ UNCHANGED I!vars
<1>1. event' = event \ {e} /\ UNCHANGED <<session, published>>
  BY DEF Acknowledge
<1>2. CASE \E d \in event \ {e} : Entry(d) = Entry(e)
  <2>1. {Entry(d) : d \in event'} = {Entry(d) : d \in event}
    BY <1>1, <1>2
  <2> QED
    BY <1>1, <2>1 DEF I!vars, Entry
<1>3. CASE ~\E d \in event \ {e} : Entry(d) = Entry(e)
  <2>1. {Entry(d) : d \in event'} = {Entry(d) : d \in event} \ {Entry(e)}
    BY <1>1, <1>3
  <2>2. I!Acknowledge(Entry(e))
    BY <1>1, <2>1 DEF I!Acknowledge, Entry
  <2>3. Entry(e) \in {Entry(d) : d \in event}
    OBVIOUS
  <2> QED
    BY <2>2, <2>3 DEF I!Next, Entry
<1> QED
  BY <1>2, <1>3

LEMMA SessionDeleteIsDelete ==
    ASSUME NEW s \in Sessions, SessionDelete(s) PROVE I!Next
<1>1. /\ event' = {e \in event : e.session # s}
      /\ session' = session \ {s} /\ published' = published
  BY DEF SessionDelete
<1>2. {Entry(e) : e \in event'} = {x \in {Entry(e) : e \in event} : x.session # s}
  BY <1>1 DEF Entry
<1>3. I!Delete(s)
  BY <1>1, <1>2 DEF I!Delete, Entry
<1> QED
  BY <1>3 DEF I!Next

(* A change gives each session at most one entry of the inbox, and nothing *)
(* but the session itself removes one.                                     *)
THEOREM EventIsInbox == Spec => ImplementsInbox
<1>1. Init => I!Init
  BY DEF Init, I!Init
<1>2. TypeOK /\ [Next]_vars => [I!Next]_(I!vars)
  <2> SUFFICES ASSUME TypeOK, [Next]_vars PROVE I!Next \/ UNCHANGED I!vars
    OBVIOUS
  <2>1. ASSUME NEW s \in Sessions, SessionCreate(s) PROVE I!Next
    BY <2>1 DEF SessionCreate, I!Next, I!Create
  <2>2. CASE Write
    BY <2>2, WriteChanges, ChangeIsPost
  <2>3. CASE Subscribe
    BY <2>3 DEF Subscribe, SubscribeTable, SubscribeColumn, SubscribeRow, SubscribeField, I!vars
  <2>4. CASE UNCHANGED vars
    BY <2>4 DEF vars, I!vars
  <2> QED
    BY <2>1, <2>2, <2>3, <2>4, SessionDeleteIsDelete, AcknowledgeIsInbox DEF Next
<1> QED
  BY <1>1, <1>2, EventTyping, PTL DEF Spec, ImplementsInbox, I!Spec

\* What the inbox holds.
Entries == {[id |-> e.change, session |-> e.session] : e \in event}

\* No step of an inbox brings an entry of the past into it.
LEMMA GoneStays ==
    ASSUME published \in Nat, NEW e, e.id \in 1..published, e \notin Entries, [I!Next]_(I!vars)
    PROVE  e.id \in 1..published' /\ e \notin Entries'
<1>1. ASSUME NEW S \in SUBSET Sessions, I!Post(S) PROVE e.id \in 1..published' /\ e \notin Entries'
  <2>1. published' = published + 1 /\ Entries' = Entries \cup I!Entries(S)
    BY <1>1 DEF I!Post, Entries
  <2>2. \A d \in I!Entries(S) : d.id = published + 1
    BY DEF I!Entries
  <2> QED
    BY <2>1, <2>2
<1>2. CASE UNCHANGED I!vars
  BY <1>2 DEF I!vars, Entries
<1>3. ASSUME NEW s \in Sessions, I!Create(s) \/ I!Delete(s) PROVE e.id \in 1..published' /\ e \notin Entries'
  <2>1. Entries' \subseteq Entries /\ published' = published
    BY <1>3 DEF I!Create, I!Delete, Entries
  <2> QED
    BY <2>1
<1>4. ASSUME NEW d \in Entries, I!Acknowledge(d) PROVE e.id \in 1..published' /\ e \notin Entries'
  <2>1. Entries' \subseteq Entries /\ published' = published
    BY <1>4 DEF I!Acknowledge, Entries
  <2> QED
    BY <2>1
<1> QED
  BY <1>1, <1>2, <1>3, <1>4 DEF I!Next, Entries

(* No trigger, subscription or new session brings an event back that was   *)
(* acknowledged or went with its session.                                  *)
THEOREM EntriesGoneForGood == ASSUME NEW x PROVE Spec => I!GoneForGood(x)
<1> DEFINE Gone == x.id \in 1..published /\ x \notin Entries
<1>1. TypeOK /\ Gone /\ [I!Next]_(I!vars) => Gone'
  <2>1. TypeOK => published \in Nat
    BY DEF TypeOK
  <2> QED
    BY <2>1, GoneStays
<1>2. Gone => x \notin Entries
  OBVIOUS
<1>3. Spec => [][I!Next]_(I!vars)
  BY EventIsInbox, PTL DEF ImplementsInbox, I!Spec
<1> HIDE DEF Gone
<1>4. Spec => [](Gone => [](x \notin Entries))
  BY <1>1, <1>2, <1>3, EventTyping, PTL
<1> QED
  BY <1>4, PTL DEF I!GoneForGood, Gone, Entries

-----------------------------------------------------------------------------
(* No session is told of what it did not subscribe to.                     *)

\* What a change does to the table, where it has anything to report.
Reported(ch) == \/ ch.op = "insert"
                \/ ch.op = "delete" /\ ch.old \in Touched
                \/ ch.op = "update" /\ (ChangedColumns(ch) # {} => ch.old \in Touched)

LEMMA WriteReported == ASSUME TypeOK, Write PROVE \E ch \in Changes : Change(ch) /\ Reported(ch)
<1>1. ASSUME NEW r \in Rows, NEW v \in [Columns -> Values], Insert(r, v)
      PROVE  \E ch \in Changes : Change(ch) /\ Reported(ch)
  <2> DEFINE ch == [op |-> "insert", old |-> r, new |-> r, before |-> v, after |-> v]
  <2>1. ch \in Changes /\ Reported(ch)
    BY DEF Changes, Reported
  <2> QED
    BY <1>1, <2>1 DEF Insert
<1>2. ASSUME NEW r \in Rows, NEW q \in Rows, NEW v \in [Columns -> Values], Update(r, q, v)
      PROVE  \E ch \in Changes : Change(ch) /\ Reported(ch)
  <2> DEFINE ch == [op |-> "update", old |-> r, new |-> q, before |-> table[r], after |-> v]
  <2>1. ch \in Changes
    BY <1>2 DEF Changes, Update, TypeOK
  <2>2. ASSUME ChangedColumns(ch) # {} PROVE r \in Touched
    <3>1. CASE r # q
      <4>1. table'[r] = Absent /\ table[r] # Absent
        BY <1>2, <3>1 DEF Update, TypeOK
      <4> QED
        BY <4>1 DEF Touched
    <3>2. CASE r = q
      <4>1. PICK c \in Columns : table[r][c] # v[c]
        BY <2>2, <3>2 DEF ChangedColumns
      <4>2. table'[r] = v
        BY <1>2, <3>2 DEF Update, TypeOK
      <4> QED
        BY <4>1, <4>2 DEF Touched
    <3> QED
      BY <3>1, <3>2
  <2>3. Reported(ch)
    BY <2>2 DEF Reported
  <2> QED
    BY <1>2, <2>1, <2>3 DEF Update
<1>3. ASSUME NEW r \in Rows, Delete(r)
      PROVE  \E ch \in Changes : Change(ch) /\ Reported(ch)
  <2> DEFINE ch == [op |-> "delete", old |-> r, new |-> r, before |-> table[r], after |-> table[r]]
  <2>1. ch \in Changes
    BY <1>3 DEF Changes, Delete, TypeOK
  <2>2. r \in Touched
    BY <1>3 DEF Delete, TypeOK, Touched
  <2> QED
    BY <1>3, <2>1, <2>2 DEF Delete, Reported
<1> QED
  BY <1>1, <1>2, <1>3 DEF Write

LEMMA EventsOfShape ==
    ASSUME NEW ch \in Changes, NEW s, NEW m, NEW e \in EventsOf(s, m, ch)
    PROVE  /\ e.session = s /\ e.type = m.type /\ e.op = ch.op
           /\ e.row = ch.new /\ e.change = published + 1
           /\ ch.op = "update" => /\ ChangedColumns(ch) # {}
                                  /\ \E c \in m.columns : DOMAIN e.payload = {c}
<1>1. CASE ch.op = "insert" \/ ch.op = "delete"
  BY <1>1 DEF EventsOf
<1>2. CASE ch.op = "update"
  <2>1. PICK c \in ChangedColumns(ch) \cap m.columns :
          e = [change |-> published + 1, session |-> s, type |-> m.type, op |-> ch.op,
               row |-> ch.new, payload |-> [x \in {c} |-> NewValue(ch, c)]]
    BY <1>2 DEF EventsOf
  <2> QED
    BY <2>1
<1> QED
  BY <1>1, <1>2 DEF Changes

LEMMA TableEventsWanted ==
    ASSUME TypeOK, NEW ch \in Changes, NEW s \in session, NEW m \in TableMatches(s),
           NEW e \in EventsOf(s, m, ch)
    PROVE  Wanted(e)
<1>1. CASE s \in subscriptionTable
  <2>1. m.type = "table"
    BY <1>1 DEF TableMatches
  <2>2. e.session = s /\ e.type = "table"
    BY <2>1, EventsOfShape
  <2> QED
    BY <1>1, <2>2 DEF Wanted
<1>2. CASE s \notin subscriptionTable
  <2>1. PICK c \in AllColumns : <<s, c>> \in subscriptionColumn
                               /\ m = [type |-> "column", columns |-> {c}]
    BY <1>2 DEF TableMatches
  <2>2. e.session = s /\ e.type = "column" /\ (e.op = "update" => DOMAIN e.payload = {c})
    BY <2>1, EventsOfShape
  <2> QED
    BY <2>1, <2>2 DEF Wanted
<1> QED
  BY <1>1, <1>2

LEMMA RowEventsWanted ==
    ASSUME TypeOK, NEW ch \in Changes, Reported(ch), ch.op # "insert",
           NEW s \in session, NEW m \in RowMatches(s), m.row = ch.old,
           NEW e \in EventsOf(s, m, ch)
    PROVE  Wanted(e)
<1>1. ch.old \in Touched
  BY EventsOfShape DEF Reported, Changes
<1>2. CASE \E r \in Rows : <<s, r>> \in subscriptionRow
  <2>1. PICK r \in Rows : <<s, r>> \in subscriptionRow
                         /\ m = [type |-> "row", row |-> r, columns |-> AllColumns]
    BY <1>2 DEF RowMatches
  <2>2. e.session = s /\ e.type = "row" /\ r = ch.old
    BY <2>1, EventsOfShape
  <2> QED
    BY <1>1, <2>1, <2>2 DEF Wanted
<1>3. CASE ~\E r \in Rows : <<s, r>> \in subscriptionRow
  <2>1. PICK x \in subscriptionField :
           x[1] = s /\ m = [type |-> "field", row |-> x[2], columns |-> {x[3]}]
    BY <1>3 DEF RowMatches
  <2>2. x[3] \in AllColumns /\ x = <<s, ch.old, x[3]>>
    BY <2>1 DEF TypeOK
  <2>3. e.session = s /\ e.type = "field" /\ (e.op = "update" => DOMAIN e.payload = {x[3]})
    BY <2>1, EventsOfShape
  <2> QED
    BY <1>1, <2>2, <2>3 DEF Wanted
<1> QED
  BY <1>2, <1>3

LEMMA WriteWanted == ASSUME TypeOK, Write PROVE \A e \in Fresh : Wanted(e)
<1>1. PICK ch \in Changes : Change(ch) /\ Reported(ch)
  BY WriteReported
<1>2. PICK tp \in TablePicks, rp \in RowPicks :
         event' = event
             \cup (IF tableTrigger THEN TableListener(ch, tp) ELSE {})
             \cup (IF rowTrigger /\ ch.op # "insert" THEN RowListener(ch, rp) ELSE {})
  BY <1>1 DEF Change
<1>3. \A s \in DOMAIN tp : s \in session /\ tp[s] \in TableMatches(s)
  BY DEF TablePicks, Picks, Receivers
<1>4. \A s \in DOMAIN rp : s \in session /\ rp[s] \in RowMatches(s)
  BY DEF RowPicks, Picks, Receivers
<1> SUFFICES ASSUME NEW e \in Fresh PROVE Wanted(e)
  OBVIOUS
<1>5. CASE e \in TableListener(ch, tp)
  <2>1. PICK s \in DOMAIN tp : e \in EventsOf(s, tp[s], ch)
    BY <1>5 DEF TableListener
  <2> QED
    BY <1>3, <2>1, TableEventsWanted
<1>6. CASE ch.op # "insert" /\ e \in RowListener(ch, rp)
  <2>1. PICK s \in DOMAIN rp : /\ e \in EventsOf(s, rp[s], ch)
                               /\ \A t \in DOMAIN rp : t <= s => rp[t].row = ch.old
    BY <1>6 DEF RowListener
  <2>2. s \in Nat
    BY <1>4, EventAssumption DEF TypeOK
  <2>3. rp[s].row = ch.old
    BY <2>1, <2>2
  <2> QED
    BY <1>1, <1>4, <1>6, <2>1, <2>3, RowEventsWanted
<1> QED
  BY <1>2, <1>5, <1>6 DEF Fresh

(* No trigger tells a session of a change to something it did not          *)
(* subscribe to.                                                           *)
THEOREM ToldOnlyWanted == Spec => OnlyWanted
<1>1. TypeOK /\ [Next]_vars => [\A e \in Fresh : Wanted(e)]_vars
  <2> SUFFICES ASSUME TypeOK, Next PROVE \A e \in Fresh : Wanted(e)
    OBVIOUS
  <2>1. CASE Write
    BY <2>1, WriteWanted
  <2>2. CASE Subscribe
    <3>1. event' = event
      BY <2>2 DEF Subscribe, SubscribeTable, SubscribeColumn, SubscribeRow, SubscribeField
    <3> QED
      BY <3>1 DEF Fresh
  <2>3. ASSUME NEW s \in Sessions, SessionCreate(s) \/ SessionDelete(s)
        PROVE  \A e \in Fresh : Wanted(e)
    <3>1. event' \subseteq event
      BY <2>3 DEF SessionCreate, SessionDelete
    <3> QED
      BY <3>1 DEF Fresh
  <2>4. ASSUME NEW e \in event, Acknowledge(e) PROVE \A d \in Fresh : Wanted(d)
    BY <2>4 DEF Acknowledge, Fresh
  <2> QED
    BY <2>1, <2>2, <2>3, <2>4 DEF Next
<1> QED
  BY <1>1, EventTyping, PTL DEF Spec, OnlyWanted
-----------------------------------------------------------------------------
(* No duplicates.                                                          *)

\* The matches of the two triggers have different types.
LEMMA MatchKinds ==
    ASSUME NEW s
    PROVE  /\ \A m \in TableMatches(s) : m.type \in {"table", "column"}
           /\ \A m \in RowMatches(s) : m.type \in {"row", "field"}
<1>1. ASSUME NEW m \in TableMatches(s) PROVE m.type \in {"table", "column"}
  <2>1. CASE s \in subscriptionTable
    BY <1>1, <2>1 DEF TableMatches
  <2>2. CASE s \notin subscriptionTable
    <3>1. PICK c \in AllColumns : m = [type |-> "column", columns |-> {c}]
      BY <1>1, <2>2 DEF TableMatches
    <3> QED
      BY <3>1
  <2> QED
    BY <2>1, <2>2
<1>2. ASSUME NEW m \in RowMatches(s) PROVE m.type \in {"row", "field"}
  <2>1. CASE \E r \in Rows : <<s, r>> \in subscriptionRow
    <3>1. PICK r \in Rows : m = [type |-> "row", row |-> r, columns |-> AllColumns]
      BY <1>2, <2>1 DEF RowMatches
    <3> QED
      BY <3>1
  <2>2. CASE ~\E r \in Rows : <<s, r>> \in subscriptionRow
    <3>1. PICK x \in subscriptionField : m = [type |-> "field", row |-> x[2], columns |-> {x[3]}]
      BY <1>2, <2>2 DEF RowMatches
    <3> QED
      BY <3>1
  <2> QED
    BY <2>1, <2>2
<1> QED
  BY <1>1, <1>2

\* Events of one turn of the loop are told apart by their columns.
LEMMA TurnTellsOnce ==
    ASSUME NEW ch \in Changes, NEW s, NEW m, NEW d \in EventsOf(s, m, ch),
           NEW e \in EventsOf(s, m, ch), DOMAIN d.payload = DOMAIN e.payload
    PROVE  d = e
<1> DEFINE Row(payload) == [change |-> published + 1, session |-> s, type |-> m.type,
                            op |-> ch.op, row |-> ch.new, payload |-> payload]
<1>1. CASE ch.op = "insert" \/ ch.op = "delete"
  BY <1>1 DEF EventsOf
<1>2. CASE ch.op = "update"
  <2>1. PICK c \in AllColumns : d = Row([x \in {c} |-> NewValue(ch, c)])
    BY <1>2 DEF EventsOf, ChangedColumns, AllColumns
  <2>2. PICK k \in AllColumns : e = Row([x \in {k} |-> NewValue(ch, k)])
    BY <1>2 DEF EventsOf, ChangedColumns, AllColumns
  <2>3. c = k
    BY <2>1, <2>2
  <2> QED
    BY <2>1, <2>2, <2>3
<1> QED
  BY <1>1, <1>2 DEF Changes

\* Where the fresh events of a session come from.
LEMMA FreshSources ==
    ASSUME TypeOK, NEW ch \in Changes, NEW tp \in TablePicks, NEW rp \in RowPicks,
           event' = event
             \cup (IF tableTrigger THEN TableListener(ch, tp) ELSE {})
             \cup (IF rowTrigger /\ ch.op # "insert" THEN RowListener(ch, rp) ELSE {}),
           NEW e \in Fresh
    PROVE  \/ /\ e.type \in {"table", "column"} /\ e.session \in DOMAIN tp
              /\ e \in EventsOf(e.session, tp[e.session], ch)
           \/ /\ e.type \in {"row", "field"} /\ e.session \in DOMAIN rp
              /\ e \in EventsOf(e.session, rp[e.session], ch)
              /\ ch.op # "insert"
              /\ \A t \in DOMAIN rp : t <= e.session => rp[t].row = ch.old
<1>1. \A s \in DOMAIN tp : tp[s] \in TableMatches(s)
  BY DEF TablePicks, Picks, Receivers
<1>2. \A s \in DOMAIN rp : rp[s] \in RowMatches(s)
  BY DEF RowPicks, Picks, Receivers
<1>3. CASE e \in TableListener(ch, tp)
  <2>1. PICK s \in DOMAIN tp : e \in EventsOf(s, tp[s], ch)
    BY <1>3 DEF TableListener
  <2>2. e.session = s /\ e.type = tp[s].type
    BY <2>1, EventsOfShape
  <2> QED
    BY <1>1, <2>1, <2>2, MatchKinds
<1>4. CASE ch.op # "insert" /\ e \in RowListener(ch, rp)
  <2>1. PICK s \in DOMAIN rp : /\ e \in EventsOf(s, rp[s], ch)
                               /\ \A t \in DOMAIN rp : t <= s => rp[t].row = ch.old
    BY <1>4 DEF RowListener
  <2>2. e.session = s /\ e.type = rp[s].type
    BY <2>1, EventsOfShape
  <2> QED
    BY <1>2, <1>4, <2>1, <2>2, MatchKinds
<1> QED
  BY <1>3, <1>4 DEF Fresh

\* Only writes add events.
LEMMA OnlyWritesTell == ASSUME Next, Fresh # {} PROVE Write
<1>1. CASE Subscribe
  <2>1. event' = event
    BY <1>1 DEF Subscribe, SubscribeTable, SubscribeColumn, SubscribeRow, SubscribeField
  <2> QED
    BY <2>1 DEF Fresh
<1>2. ASSUME NEW s \in Sessions, SessionCreate(s) \/ SessionDelete(s) PROVE FALSE
  <2>1. event' \subseteq event
    BY <1>2 DEF SessionCreate, SessionDelete
  <2> QED
    BY <2>1 DEF Fresh
<1>3. ASSUME NEW e \in event, Acknowledge(e) PROVE FALSE
  BY <1>3 DEF Acknowledge, Fresh
<1> QED
  BY <1>1, <1>2, <1>3 DEF Next

(* Each trigger tells a session of a change, and of each column of it,     *)
(* once, however many subscriptions match.                                 *)
THEOREM ToldOnce == Spec => NoDuplicates
<1>1. ASSUME TypeOK, Next, NEW d \in Fresh, NEW e \in Fresh,
             d.session = e.session,
             \/ {d.type, e.type} \subseteq {"table", "column"}
             \/ {d.type, e.type} \subseteq {"row", "field"},
             DOMAIN d.payload = DOMAIN e.payload
      PROVE  d = e
  <2>1. PICK ch \in Changes : Change(ch)
    BY <1>1, OnlyWritesTell, WriteChanges
  <2>2. PICK tp \in TablePicks, rp \in RowPicks :
           event' = event
               \cup (IF tableTrigger THEN TableListener(ch, tp) ELSE {})
               \cup (IF rowTrigger /\ ch.op # "insert" THEN RowListener(ch, rp) ELSE {})
    BY <2>1 DEF Change
  <2>3. CASE {d.type, e.type} \subseteq {"table", "column"}
    <3>1. /\ d \in EventsOf(e.session, tp[e.session], ch)
          /\ e \in EventsOf(e.session, tp[e.session], ch)
      BY <1>1, <2>2, <2>3, FreshSources
    <3> QED
      BY <1>1, <3>1, TurnTellsOnce
  <2>4. CASE {d.type, e.type} \subseteq {"row", "field"}
    <3>1. /\ d \in EventsOf(e.session, rp[e.session], ch)
          /\ e \in EventsOf(e.session, rp[e.session], ch)
      BY <1>1, <2>2, <2>4, FreshSources
    <3> QED
      BY <1>1, <3>1, TurnTellsOnce
  <2> QED
    BY <1>1, <2>3, <2>4
<1>2. TypeOK /\ [Next]_vars =>
        [\A d, e \in Fresh :
          /\ d.session = e.session
          /\ {d.type, e.type} \subseteq {"table", "column"} \/ {d.type, e.type} \subseteq {"row", "field"}
          /\ DOMAIN d.payload = DOMAIN e.payload
          => d = e]_vars
  BY <1>1
<1> QED
  BY <1>2, EventTyping, PTL DEF Spec, NoDuplicates

-----------------------------------------------------------------------------
(* What a subscriber is told rebuilds the table.                           *)

\* The change of the one row that is touched, unless a row got another key.
Effect(ch) ==
    /\ ch.old = ch.new
    /\ ch.op = "insert" => table[ch.new] = Absent
    /\ ch.op = "update" => table[ch.new] = ch.before
    /\ table' = [table EXCEPT ![ch.new] = IF ch.op = "delete" THEN Absent ELSE ch.after]

LEMMA WriteEffect ==
    ASSUME TypeOK, Write, ~Rekeyed
    PROVE  \E ch \in Changes : Change(ch) /\ Effect(ch)
<1>1. ASSUME NEW r \in Rows, NEW v \in [Columns -> Values], Insert(r, v)
      PROVE  \E ch \in Changes : Change(ch) /\ Effect(ch)
  <2> DEFINE ch == [op |-> "insert", old |-> r, new |-> r, before |-> v, after |-> v]
  <2>1. ch \in Changes
    BY DEF Changes
  <2>2. Effect(ch)
    BY <1>1 DEF Effect, Insert
  <2> QED
    BY <1>1, <2>1, <2>2 DEF Insert
<1>2. ASSUME NEW r \in Rows, NEW q \in Rows, NEW v \in [Columns -> Values], Update(r, q, v)
      PROVE  \E ch \in Changes : Change(ch) /\ Effect(ch)
  <2> DEFINE ch == [op |-> "update", old |-> r, new |-> q, before |-> table[r], after |-> v]
  <2>1. ch \in Changes
    BY <1>2 DEF Changes, Update, TypeOK
  <2>2. r = q
    <3> SUFFICES ASSUME r # q PROVE FALSE
      OBVIOUS
    <3>1. v # Absent
      BY EventAssumption
    <3>2. /\ table[r] # Absent /\ table'[r] = Absent
          /\ table[q] = Absent /\ table'[q] = v
          /\ \A x \in Rows \ {r, q} : table'[x] = table[x]
      BY <1>2 DEF Update, TypeOK
    <3>3. Touched = {r, q}
      BY <3>1, <3>2 DEF Touched
    <3>4. Cardinality({r, q}) = 2
      <4>1. IsFiniteSet({r}) /\ Cardinality({r}) = 1 /\ q \notin {r}
        BY FS_Singleton
      <4>2. Cardinality({r} \cup {q}) = 1 + 1
        BY <4>1, FS_AddElement
      <4>3. {r} \cup {q} = {r, q}
        OBVIOUS
      <4> QED
        BY <4>2, <4>3
    <3> QED
      BY <3>3, <3>4 DEF Rekeyed
  <2>3. table' = [table EXCEPT ![q] = v]
    BY <1>2, <2>2 DEF Update, TypeOK
  <2>4. Effect(ch)
    BY <2>2, <2>3 DEF Effect
  <2> QED
    BY <1>2, <2>1, <2>4 DEF Update
<1>3. ASSUME NEW r \in Rows, Delete(r)
      PROVE  \E ch \in Changes : Change(ch) /\ Effect(ch)
  <2> DEFINE ch == [op |-> "delete", old |-> r, new |-> r, before |-> table[r], after |-> table[r]]
  <2>1. ch \in Changes
    BY <1>3 DEF Changes, Delete, TypeOK
  <2>2. Effect(ch)
    BY <1>3 DEF Effect, Delete
  <2> QED
    BY <1>3, <2>1, <2>2 DEF Delete
<1> QED
  BY <1>1, <1>2, <1>3 DEF Write

\* The events of a turn that reports every column rebuild the row.
LEMMA TurnRebuilds ==
    ASSUME TypeOK, NEW ch \in Changes, Effect(ch), NEW s, NEW m, m.columns = AllColumns,
           NEW r \in Rows
    PROVE  Rebuilds(EventsOf(s, m, ch), r)
<1> DEFINE Row(payload) == [change |-> published + 1, session |-> s, type |-> m.type,
                            op |-> ch.op, row |-> ch.new, payload |-> payload]
           F == {e \in EventsOf(s, m, ch) : e.row = r}
<1>1. \A e \in EventsOf(s, m, ch) : e.row = ch.new /\ e.op = ch.op
  BY EventsOfShape
<1> SUFFICES table'[r] = IF F = {} THEN table[r] ELSE Applied(F, r)
  BY DEF Rebuilds
<1>2. CASE r # ch.new
  <2>1. F = {}
    BY <1>1, <1>2
  <2>2. table'[r] = table[r]
    BY <1>2 DEF Effect, TypeOK
  <2> QED
    BY <2>1, <2>2
<1>3. CASE r = ch.new /\ ch.op = "insert"
  <2>1. F = {Row(ch.after)}
    BY <1>3 DEF EventsOf
  <2>2. (CHOOSE e \in F : e.op = "insert") = Row(ch.after)
    BY <1>3, <2>1
  <2>3. Applied(F, r) = ch.after
    BY <1>3, <2>1, <2>2 DEF Applied
  <2> QED
    BY <1>3, <2>1, <2>3 DEF Effect, TypeOK
<1>4. CASE r = ch.new /\ ch.op = "delete"
  <2>1. F = {Row([c \in {} |-> ch.new])}
    BY <1>4 DEF EventsOf
  <2>2. \E e \in F : e.op = "delete"
    <3>1. F # {}
      BY <2>1
    <3> HIDE DEF F
    <3>2. \A e \in F : e \in EventsOf(s, m, ch)
      BY DEF F
    <3> QED
      BY <1>1, <1>4, <3>1, <3>2
  <2>3. Applied(F, r) = Absent
    BY <2>2 DEF Applied
  <2> QED
    BY <1>4, <2>1, <2>3 DEF Effect, TypeOK
<1>5. CASE r = ch.new /\ ch.op = "update"
  <2> DEFINE Told1(c) == Row([x \in {c} |-> NewValue(ch, c)])
  <2>1. /\ table[r] = ch.before /\ table'[r] = ch.after /\ ch.old = ch.new
        /\ ch.before \in [Columns -> Values] /\ ch.after \in [Columns -> Values]
    BY <1>5 DEF Effect, TypeOK, Changes
  <2>2. ChangedColumns(ch) = {c \in Columns : ch.before[c] # ch.after[c]}
    BY <2>1 DEF ChangedColumns
  <2>3. F = {Told1(c) : c \in ChangedColumns(ch)}
    <3>1. EventsOf(s, m, ch) = {Told1(c) : c \in ChangedColumns(ch) \cap m.columns}
      BY <1>5 DEF EventsOf
    <3>2. ChangedColumns(ch) \cap m.columns = ChangedColumns(ch)
      BY <2>2 DEF AllColumns
    <3>3. F = EventsOf(s, m, ch)
      BY <1>1, <1>5
    <3> QED
      BY <3>1, <3>2, <3>3
  <2>4. CASE F = {}
    <3>1. \A c \in Columns : ch.before[c] = ch.after[c]
      <4>1. \A c \in ChangedColumns(ch) : Told1(c) \in F
        BY <2>3
      <4> HIDE DEF F
      <4>2. ChangedColumns(ch) = {}
        BY <2>4, <4>1
      <4> QED
        BY <2>2, <4>2
    <3>2. ch.before = ch.after
      BY <2>1, <3>1
    <3> QED
      BY <2>1, <2>4, <3>2
  <2>5. CASE F # {}
    <3>1. ASSUME NEW c \in Columns
          PROVE  ch.after[c] = IF \E e \in F : c \in DOMAIN e.payload
                               THEN (CHOOSE e \in F : c \in DOMAIN e.payload).payload[c]
                               ELSE table[r][c]
      <4>1. CASE c \in ChangedColumns(ch)
        <5> DEFINE e == CHOOSE e \in F : c \in DOMAIN e.payload
        <5>1. Told1(c) \in F /\ c \in DOMAIN Told1(c).payload
          BY <2>3, <4>1
        <5>2. e \in F /\ c \in DOMAIN e.payload
          BY <5>1
        <5> HIDE DEF e, F
        <5>3. PICK k \in ChangedColumns(ch) : e = Told1(k)
          BY <2>3, <5>2
        <5>4. k = c
          BY <5>2, <5>3
        <5>5. e.payload[c] = ch.after[c]
          BY <3>1, <5>3, <5>4, EventAssumption DEF NewValue
        <5> QED
          BY <5>1, <5>5 DEF e
      <4>2. CASE c \notin ChangedColumns(ch)
        <5>1. ASSUME NEW e \in F PROVE c \notin DOMAIN e.payload
          <6>1. PICK k \in ChangedColumns(ch) : e = Told1(k)
            BY <2>3
          <6>2. DOMAIN e.payload = {k}
            BY <6>1
          <6> QED
            BY <4>2, <6>2
        <5>2. table[r][c] = ch.after[c]
          BY <2>1, <2>2, <4>2
        <5> QED
          BY <5>1, <5>2
      <4> QED
        BY <4>1, <4>2
    <3>2. \A e \in F : e.op = "update"
      BY <1>1, <1>5
    <3>3. Applied(F, r) = [c \in Columns |-> ch.after[c]]
      <4> HIDE DEF F
      <4> QED
        BY <3>1, <3>2 DEF Applied
    <3>4. ch.after = [c \in Columns |-> ch.after[c]]
      BY <2>1
    <3> QED
      BY <2>1, <2>5, <3>3, <3>4
  <2> QED
    BY <2>4, <2>5
<1> QED
  BY <1>2, <1>3, <1>4, <1>5 DEF Changes

\* A turn's events are new: none of them was there before.
LEMMA TurnIsFresh ==
    ASSUME TypeOK, NEW ch \in Changes, NEW s, NEW m, NEW e \in EventsOf(s, m, ch)
    PROVE  e \notin event
<1>1. e.change = published + 1
  BY EventsOfShape
<1>2. \A d \in event : d.change \in Nat /\ d.change <= published
  BY DEF TypeOK, EventRow
<1>3. published \in Nat
  BY DEF TypeOK
<1> QED
  BY <1>1, <1>2, <1>3

\* Steps other than writes tell nothing and leave the table.
LEMMA NothingToRebuild ==
    ASSUME Next, ~Write, NEW s, NEW types, NEW r
    PROVE  Rebuilds(Told(s, types), r)
<1>1. table' = table
  BY DEF Next, SessionCreate, SessionDelete, Subscribe, SubscribeTable, SubscribeColumn,
         SubscribeRow, SubscribeField, Acknowledge
<1>2. Told(s, types) = {}
  BY OnlyWritesTell DEF Told
<1> QED
  BY <1>1, <1>2 DEF Rebuilds

(* A table subscriber can rebuild the table from what it is told.          *)
THEOREM TablesRebuilt == Spec => TableRebuilt
<1>1. ASSUME TypeOK, TriggersPresent, Next, ~Rekeyed, NEW s \in subscriptionTable, NEW r \in Rows
      PROVE  Rebuilds(Told(s, {"table"}), r)
  <2> DEFINE m == [type |-> "table", columns |-> AllColumns]
  <2>1. CASE Write
    <3>1. PICK ch \in Changes : Change(ch) /\ Effect(ch)
      BY <1>1, <2>1, WriteEffect
    <3>2. PICK tp \in TablePicks, rp \in RowPicks :
             event' = event
                 \cup (IF tableTrigger THEN TableListener(ch, tp) ELSE {})
                 \cup (IF rowTrigger /\ ch.op # "insert" THEN RowListener(ch, rp) ELSE {})
      BY <3>1 DEF Change
    <3>3. s \in DOMAIN tp /\ tp[s] = m
      <4>1. s \in session /\ TableMatches(s) = {m}
        BY <1>1 DEF TypeOK, TableMatches
      <4>2. [t \in session |-> TableMatches(t)][s] = {m}
        BY <4>1
      <4> QED
        BY <4>1, <4>2 DEF TablePicks, Picks, Receivers
    <3>4. tableTrigger
      BY <1>1 DEF TriggersPresent
    <3>5. ASSUME NEW e \in EventsOf(s, m, ch) PROVE e \in Told(s, {"table"})
      <4>1. e \in event'
        BY <3>2, <3>3, <3>4 DEF TableListener
      <4>2. e.session = s /\ e.type = "table"
        BY EventsOfShape
      <4> QED
        BY <1>1, <4>1, <4>2, TurnIsFresh DEF Told, Fresh
    <3>6. ASSUME NEW e \in Told(s, {"table"}) PROVE e \in EventsOf(s, m, ch)
      <4>1. e \in Fresh /\ e.session = s /\ e.type = "table"
        BY DEF Told
      <4> QED
        BY <1>1, <3>2, <3>3, <4>1, FreshSources
    <3>7. Told(s, {"table"}) = EventsOf(s, m, ch)
      BY <3>5, <3>6
    <3>8. Rebuilds(EventsOf(s, m, ch), r)
      BY <1>1, <3>1, TurnRebuilds
    <3> QED
      BY <3>7, <3>8
  <2>2. CASE ~Write
    BY <1>1, <2>2, NothingToRebuild
  <2> QED
    BY <2>1, <2>2
<1>2. TypeOK /\ TriggersPresent /\ [Next]_vars =>
        [~Rekeyed => \A s \in subscriptionTable, r \in Rows :
            Rebuilds(Told(s, {"table"}), r)]_vars
  BY <1>1
<1> QED
  BY <1>2, EventTyping, TriggersStay, PTL DEF Spec, TableRebuilt

(* A row subscriber first in line can rebuild the row.                     *)
THEOREM RowsRebuilt == Spec => RowRebuilt
<1>1. ASSUME TypeOK, TriggersPresent, Next, ~Rekeyed, NEW s \in session, NEW r \in Rows,
             <<s, r>> \in subscriptionRow, FirstInLine(s, r), table[r] # Absent
      PROVE  Rebuilds(Told(s, {"row"}), r)
  <2> DEFINE m == [type |-> "row", row |-> r, columns |-> AllColumns]
  <2>1. CASE Write
    <3>1. PICK ch \in Changes : Change(ch) /\ Effect(ch)
      BY <1>1, <2>1, WriteEffect
    <3>2. PICK tp \in TablePicks, rp \in RowPicks :
             event' = event
                 \cup (IF tableTrigger THEN TableListener(ch, tp) ELSE {})
                 \cup (IF rowTrigger /\ ch.op # "insert" THEN RowListener(ch, rp) ELSE {})
      BY <3>1 DEF Change
    <3>3. \A t \in DOMAIN rp : t \in session /\ rp[t] \in RowMatches(t)
      BY DEF RowPicks, Picks, Receivers
    <3>4. ASSUME NEW t \in session, t <= s, NEW k \in RowMatches(t)
          PROVE  k.row = r
      <4>1. CASE \E q \in Rows : <<t, q>> \in subscriptionRow
        <5>1. PICK q \in Rows : /\ <<t, q>> \in subscriptionRow
                               /\ k = [type |-> "row", row |-> q, columns |-> AllColumns]
          BY <3>4, <4>1 DEF RowMatches
        <5> QED
          BY <1>1, <3>4, <5>1 DEF FirstInLine
      <4>2. CASE ~\E q \in Rows : <<t, q>> \in subscriptionRow
        <5>1. PICK x \in subscriptionField : /\ x[1] = t
                                            /\ k = [type |-> "field", row |-> x[2], columns |-> {x[3]}]
          BY <3>4, <4>2 DEF RowMatches
        <5> QED
          BY <1>1, <3>4, <5>1 DEF FirstInLine
      <4> QED
        BY <4>1, <4>2
    <3>5. s \in Nat /\ s <= s
      BY <1>1, EventAssumption DEF TypeOK
    <3>6. s \in DOMAIN rp /\ rp[s] = m
      <4>1. m \in RowMatches(s)
        BY <1>1 DEF RowMatches
      <4>2. ASSUME NEW k \in RowMatches(s) PROVE k = m
        <5>1. PICK q \in Rows : k = [type |-> "row", row |-> q, columns |-> AllColumns]
          BY <1>1 DEF RowMatches
        <5>2. k.row = r
          BY <1>1, <3>4, <3>5
        <5> QED
          BY <5>1, <5>2
      <4>3. [t \in session |-> RowMatches(t)][s] # {}
        BY <1>1, <4>1
      <4> QED
        BY <1>1, <4>2, <4>3 DEF RowPicks, Picks, Receivers
    <3>7. rowTrigger
      BY <1>1 DEF TriggersPresent
    <3>8. ASSUME NEW e \in Told(s, {"row"})
          PROVE  e \in EventsOf(s, m, ch) /\ ch.op # "insert" /\ r = ch.old
      <4>1. e \in Fresh /\ e.session = s /\ e.type = "row"
        BY DEF Told
      <4>2. /\ e \in EventsOf(s, rp[s], ch) /\ ch.op # "insert"
            /\ \A t \in DOMAIN rp : t <= s => rp[t].row = ch.old
        BY <1>1, <3>2, <4>1, FreshSources
      <4> QED
        BY <3>5, <3>6, <4>2
    <3>9. CASE ch.op # "insert" /\ r = ch.old
      <4>1. ASSUME NEW e \in EventsOf(s, m, ch) PROVE e \in Told(s, {"row"})
        <5>1. \A t \in DOMAIN rp : t <= s => rp[t].row = ch.old
          BY <3>3, <3>4, <3>9
        <5>2. e \in RowListener(ch, rp)
          BY <3>6, <5>1 DEF RowListener
        <5>3. e \in event'
          BY <3>2, <3>7, <3>9, <5>2
        <5>4. e.session = s /\ e.type = "row"
          BY EventsOfShape
        <5> QED
          BY <1>1, <5>3, <5>4, TurnIsFresh DEF Told, Fresh
      <4>2. Told(s, {"row"}) = EventsOf(s, m, ch)
        BY <3>8, <4>1
      <4>3. Rebuilds(EventsOf(s, m, ch), r)
        BY <1>1, <3>1, TurnRebuilds
      <4> QED
        BY <4>2, <4>3
    <3>10. CASE ch.op = "insert" \/ r # ch.old
      <4>1. Told(s, {"row"}) = {}
        BY <3>8, <3>10
      <4>2. r # ch.new /\ table'[r] = table[r]
        BY <1>1, <3>1, <3>10 DEF Effect, TypeOK
      <4> QED
        BY <4>1, <4>2 DEF Rebuilds
    <3> QED
      BY <3>9, <3>10
  <2>2. CASE ~Write
    BY <1>1, <2>2, NothingToRebuild
  <2> QED
    BY <2>1, <2>2
<1>2. TypeOK /\ TriggersPresent /\ [Next]_vars =>
        [~Rekeyed => \A s \in session, r \in Rows :
            <<s, r>> \in subscriptionRow /\ FirstInLine(s, r) /\ table[r] # Absent
            => Rebuilds(Told(s, {"row"}), r)]_vars
  BY <1>1
<1> QED
  BY <1>2, EventTyping, TriggersStay, PTL DEF Spec, RowRebuilt
=============================================================================
