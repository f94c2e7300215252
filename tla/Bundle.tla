------------------------------- MODULE Bundle -------------------------------
(***************************************************************************)
(* The bundle extension (extensions/bundle/000-data_model.sql and          *)
(* 001-functions.sql): row-level version control inside one database.      *)
(*                                                                         *)
(* The variables are the extension's tables, its two materialized views,   *)
(* and the working copy: the user tables whose rows are under version      *)
(* control.  An action is one call of a function of the extension.  Every  *)
(* function runs in one transaction, so a call is atomic, and a call that  *)
(* raises (an exception of the function, a unique or a foreign key         *)
(* violation) leaves no trace: the condition under which it does not raise *)
(* is the guard of its action.                                             *)
(***************************************************************************)
EXTENDS Naturals

CONSTANTS
    Bundles,    \* bundle ids; an id is used once, its name likewise
    Rows,       \* row ids (meta.row_id) of the tables under version control
    Columns,    \* the columns of those tables, other than the primary key
    Key,        \* the primary key column
    Values,     \* what a column can hold
    Null,       \* SQL null in a field
    Absent,     \* a row that is not in its table
    None,       \* SQL null in a foreign key: no commit, no bundle
    MaxCommits  \* bound on the commits ever made

Fields   == Columns \cup {Key}
Contents == Values \cup {Null}             \* of a column
Cells    == Contents \cup Rows             \* of a field: the key of row r holds r
CommitId == 1..MaxCommits

ASSUME ConstantsAssumption ==
    /\ MaxCommits \in Nat
    /\ Key \notin Columns
    /\ Null \notin Values \cup Rows
    /\ Absent \notin [Columns -> Contents]
    /\ None \notin Bundles \cup CommitId

VARIABLES
    \* the working copy
    db,               \* what each row's table holds for it
    \* the repository
    bundles,          \* ids of the rows of table bundle
    used,             \* bundle ids handed out so far
    head,             \* bundle.head_commit_id
    checkedOut,       \* bundle.checkout_commit_id
    commit,           \* table commit; a commit and its rowset share an id
    created,          \* number of commits made so far: the id generator
    rowsetRow,        \* table rowset_row
    rowsetRowField,   \* table rowset_row_field, the value for its hash
    blob,             \* values that table blob holds
    \* the materialized views
    headCommitRow, headCommitField,
    \* the stage
    trackedRowAdded, stageRowAdded, stageRowDeleted, stageFieldChanged

repo  == <<bundles, used, head, checkedOut, commit, created, rowsetRow,
           rowsetRowField, blob>>
views == <<headCommitRow, headCommitField>>
stage == <<trackedRowAdded, stageRowAdded, stageRowDeleted, stageFieldChanged>>
vars  == <<db, repo, views, stage>>

-----------------------------------------------------------------------------
(* The records of the tables.  rowset_row has no unique constraint on its  *)
(* row: `new' tells the copy that came from stage_row_added from the one   *)
(* that came from the previous head.                                       *)

Commit       == [id : CommitId, bundle : Bundles \cup {None},
                 parent : CommitId \cup {None}]
RowsetRow    == [commit : CommitId, row : Rows, new : BOOLEAN]
RowsetField  == {x \in [rr : RowsetRow, field : Fields, value : Cells] :
                    x.field \in Columns => x.value \in Contents}
StagedRow    == [bundle : Bundles, row : Rows]
StagedDelete == [bundle : Bundles, rr : RowsetRow]
StagedChange == {c \in [bundle : Bundles, row : Rows, field : Fields, value : Cells] :
                    c.field \in Columns => c.value \in Contents}

TypeOK ==
    /\ db \in [Rows -> [Columns -> Contents] \cup {Absent}]
    /\ bundles \subseteq Bundles
    /\ used \subseteq Bundles
    /\ head \in [Bundles -> CommitId \cup {None}]
    /\ checkedOut \in [Bundles -> CommitId \cup {None}]
    /\ commit \subseteq Commit
    /\ created \in 0..MaxCommits
    /\ rowsetRow \subseteq RowsetRow
    /\ rowsetRowField \subseteq RowsetField
    /\ blob \subseteq Values \cup Rows
    /\ headCommitRow \subseteq [bundle : Bundles, rr : RowsetRow]
    /\ headCommitField \subseteq [bundle : Bundles, cell : RowsetField]
    /\ trackedRowAdded \subseteq StagedRow
    /\ stageRowAdded \subseteq StagedRow
    /\ stageRowDeleted \subseteq StagedDelete
    /\ stageFieldChanged \subseteq StagedChange

Init ==
    /\ db \in [Rows -> [Columns -> Contents] \cup {Absent}]
    /\ bundles = {} /\ used = {}
    /\ head = [b \in Bundles |-> None]
    /\ checkedOut = [b \in Bundles |-> None]
    /\ commit = {} /\ created = 0
    /\ rowsetRow = {} /\ rowsetRowField = {} /\ blob = {}
    /\ headCommitRow = {} /\ headCommitField = {}
    /\ trackedRowAdded = {} /\ stageRowAdded = {}
    /\ stageRowDeleted = {} /\ stageFieldChanged = {}

-----------------------------------------------------------------------------
(* Queries.                                                                *)

\* meta.field_id_literal_value: the live value; a missing row's fields are null.
Literal(r, f) == IF db[r] = Absent THEN Null
                 ELSE IF f = Key THEN r ELSE db[r][f]

CommitIds     == {c.id : c \in commit}
CommitsOf(b)  == {c.id : c \in {k \in commit : k.bundle = b}}
RowsetOf(id)  == {rr \in rowsetRow : rr.commit = id}

\* get_commit_rows over the head commit, also what the first branch of view stage_row selects.
HeadRows(b) == {rr.row : rr \in RowsetOf(head[b])}

\* Broken variant of StageRow: the except binds to stage_row_added only.
StageRowExceptFirst ==
    {s \in [bundle : bundles, row : Rows, new : BOOLEAN] :
        IF s.new THEN [bundle |-> s.bundle, row |-> s.row] \in stageRowAdded
                 ELSE s.row \in HeadRows(s.bundle)}

(* View stage_row: the head's rows and the added ones, except the deleted. *)
(* The except names new_row = false, so it never removes an added row.     *)
StageRow ==
    {s \in [bundle : bundles, row : Rows, new : BOOLEAN] :
        IF s.new THEN [bundle |-> s.bundle, row |-> s.row] \in stageRowAdded
                 ELSE /\ s.row \in HeadRows(s.bundle)
                      /\ \A d \in stageRowDeleted :
                            ~(d.bundle = s.bundle /\ d.rr.row = s.row)}

\* What the left joins with blob and stage_field_changed make of a head field.
Overrides(h) ==
    LET changes == {c \in stageFieldChanged : c.row = h.cell.rr.row /\ c.field = h.cell.field}
    IN  IF changes = {}
        THEN {[bundle |-> None,
               value  |-> IF h.cell.value \in blob THEN h.cell.value ELSE Null]}
        ELSE {[bundle |-> c.bundle, value |-> c.value] : c \in changes}

(* View stage_row_field, its records for field f of row r.  No join names  *)
(* the bundle, so every bundle that stages r, every head field of r and    *)
(* every staged change of the field contributes a record of its own.       *)
StageRowField(r, f) ==
    LET old == {s.bundle : s \in {t \in StageRow : t.row = r /\ ~t.new}}
        hcf == {h \in headCommitField : h.cell.rr.row = r /\ h.cell.field = f}
    IN  {[from |-> <<s.bundle>>, value |-> Literal(r, f)] :
             s \in {t \in stageRowAdded : t.row = r}}
        \cup
        UNION {UNION {{[from |-> <<b, h.bundle, h.cell.rr, o.bundle>>, value |-> o.value] :
                       o \in Overrides(h)} : h \in hcf} : b \in old}

\* Broken variant of RefreshViews: head_commit_field is refreshed first.
RefreshFieldsFirst ==
    /\ headCommitField' = {y \in [bundle : bundles', cell : rowsetRowField'] :
                            [bundle |-> y.bundle, rr |-> y.cell.rr] \in headCommitRow}
    /\ headCommitRow' = {x \in [bundle : bundles', rr : rowsetRow'] :
                            head'[x.bundle] = x.rr.commit}

\* refresh materialized view head_commit_row, then head_commit_field, which reads it.
RefreshViews ==
    /\ headCommitRow' = {x \in [bundle : bundles', rr : rowsetRow'] :
                            head'[x.bundle] = x.rr.commit}
    /\ headCommitField' = {y \in [bundle : bundles', cell : rowsetRowField'] :
                            [bundle |-> y.bundle, rr |-> y.cell.rr] \in headCommitRow'}

-----------------------------------------------------------------------------
(* The working copy: any client may write the tables under version control. *)

InsertRow(r) ==
    /\ db[r] = Absent
    /\ \E vals \in [Columns -> Contents] : db' = [db EXCEPT ![r] = vals]
    /\ UNCHANGED <<repo, views, stage>>

UpdateField(r, f) ==
    /\ db[r] # Absent
    /\ \E v \in Contents : db' = [db EXCEPT ![r][f] = v]
    /\ UNCHANGED <<repo, views, stage>>

DeleteRow(r) ==
    /\ db[r] # Absent
    /\ db' = [db EXCEPT ![r] = Absent]
    /\ UNCHANGED <<repo, views, stage>>

-----------------------------------------------------------------------------
(* Bundles and commits.                                                    *)

BundleCreate(b) ==
    /\ b \notin used
    /\ bundles' = bundles \cup {b}
    /\ used' = used \cup {b}
    /\ UNCHANGED <<db, head, checkedOut, commit, created, rowsetRow,
                   rowsetRowField, blob, views, stage>>

\* Broken variant of DropCommits: the references of table bundle keep dangling.
DropCommitsKeepHeads(ids) ==
    /\ commit' = {c \in commit : c.id \notin ids}
    /\ rowsetRow' = {rr \in rowsetRow : rr.commit \notin ids}
    /\ rowsetRowField' = {f \in rowsetRowField : f.rr.commit \notin ids}
    /\ UNCHANGED <<head, checkedOut>>

\* Broken variant of DropCommits: no cascade from rowset_row to its fields.
DropCommitsKeepFields(ids) ==
    /\ commit' = {c \in commit : c.id \notin ids}
    /\ rowsetRow' = {rr \in rowsetRow : rr.commit \notin ids}
    /\ head' = [b \in Bundles |-> IF head[b] \in ids THEN None ELSE head[b]]
    /\ checkedOut' = [b \in Bundles |-> IF checkedOut[b] \in ids THEN None ELSE checkedOut[b]]
    /\ UNCHANGED rowsetRowField

\* What deleting the rowsets of the commits in ids takes with it.
DropCommits(ids) ==
    /\ commit' = {c \in commit : c.id \notin ids}
    /\ rowsetRow' = {rr \in rowsetRow : rr.commit \notin ids}
    /\ rowsetRowField' = {f \in rowsetRowField : f.rr.commit \notin ids}
    /\ head' = [b \in Bundles |-> IF head[b] \in ids THEN None ELSE head[b]]
    /\ checkedOut' = [b \in Bundles |-> IF checkedOut[b] \in ids THEN None ELSE checkedOut[b]]

\* Broken variants of Droppable: one of the two foreign keys is missing.
DroppableAnyParent(ids) == \A d \in stageRowDeleted : d.rr.commit \notin ids
DroppableAnyStage(ids) == \A c \in commit : c.parent \in ids => c.id \in ids

\* The references to those commits that have no cascade must be gone.
Droppable(ids) ==
    /\ \A c \in commit : c.parent \in ids => c.id \in ids
    /\ \A d \in stageRowDeleted : d.rr.commit \notin ids

BundleDelete(b) ==
    /\ b \in bundles
    /\ Droppable(CommitsOf(b))
    /\ \A c \in stageFieldChanged : c.bundle # b
    /\ DropCommits(CommitsOf(b))
    /\ bundles' = bundles \ {b}
    /\ trackedRowAdded' = {t \in trackedRowAdded : t.bundle # b}
    /\ stageRowAdded' = {s \in stageRowAdded : s.bundle # b}
    /\ stageRowDeleted' = {d \in stageRowDeleted : d.bundle # b}
    /\ UNCHANGED <<db, used, created, blob, views, stageFieldChanged>>

\* An unknown id deletes nothing and still refreshes the views.
CommitDelete(id) ==
    /\ Droppable({id})
    /\ DropCommits({id})
    /\ UNCHANGED <<db, bundles, used, created, blob, stage>>
    /\ RefreshViews

\* Broken variant of FieldsUnique: rowset_row_field has no unique constraint.
FieldsUniqueOff(newRows) == TRUE

\* unique (rowset_row_id, field_id) of what the join with stage_row_field inserts.
FieldsUnique(newRows) ==
    \A rr \in newRows, f \in Fields : \A x, y \in StageRowField(rr.row, f) : x = y

(* commit(): the stage becomes a new head, unless the insert of its fields *)
(* raises.                                                                 *)
CommitBundle(b) ==
    LET id      == created + 1
        newRows == {[commit |-> id, row |-> s.row, new |-> s.new] :
                        s \in {t \in StageRow : t.bundle = b}}
        newFields == UNION {UNION {{[rr |-> rr, field |-> f, value |-> x.value] :
                        x \in StageRowField(rr.row, f)} : f \in Fields} : rr \in newRows}
    IN  /\ b \in bundles
        /\ created < MaxCommits
        /\ FieldsUnique(newRows)
        /\ rowsetRow' = rowsetRow \cup newRows
        /\ blob' = blob \cup ({f.value : f \in newFields} \ {Null})
        /\ rowsetRowField' = rowsetRowField \cup newFields
        /\ commit' = commit \cup {[id |-> id, bundle |-> b, parent |-> head[b]]}
        /\ created' = id
        /\ head' = [head EXCEPT ![b] = id]
        /\ checkedOut' = [checkedOut EXCEPT ![b] = id]
        /\ stageRowAdded' = {s \in stageRowAdded : s.bundle # b}
        /\ stageRowDeleted' = {d \in stageRowDeleted : d.bundle # b}
        /\ stageFieldChanged' = {c \in stageFieldChanged : c.bundle # b}
        /\ UNCHANGED <<db, bundles, used, trackedRowAdded>>
        /\ RefreshViews

\* commit() with a name no bundle has: _bundle_id is null, nothing raises.
CommitUnknown ==
    /\ created < MaxCommits
    /\ created' = created + 1
    /\ commit' = commit \cup {[id |-> created + 1, bundle |-> None, parent |-> None]}
    /\ UNCHANGED <<db, bundles, used, head, checkedOut, rowsetRow,
                   rowsetRowField, blob, stage>>
    /\ RefreshViews

-----------------------------------------------------------------------------
(* Tracking and staging.                                                   *)

TrackedRowAdd(b, r) ==
    /\ b \in bundles
    /\ \A t \in trackedRowAdded : t.row # r        \* unique (row_id)
    /\ trackedRowAdded' = trackedRowAdded \cup {[bundle |-> b, row |-> r]}
    /\ UNCHANGED <<db, repo, views, stageRowAdded, stageRowDeleted, stageFieldChanged>>

UntrackRow(b, r) ==
    /\ [bundle |-> b, row |-> r] \in trackedRowAdded
    /\ trackedRowAdded' = trackedRowAdded \ {[bundle |-> b, row |-> r]}
    /\ UNCHANGED <<db, repo, views, stageRowAdded, stageRowDeleted, stageFieldChanged>>

StageRowAdd(b, r) ==
    /\ [bundle |-> b, row |-> r] \in trackedRowAdded
    /\ [bundle |-> b, row |-> r] \notin stageRowAdded   \* unique (bundle_id, row_id)
    /\ stageRowAdded' = stageRowAdded \cup {[bundle |-> b, row |-> r]}
    /\ trackedRowAdded' = {t \in trackedRowAdded : t.row # r}
    /\ UNCHANGED <<db, repo, views, stageRowDeleted, stageFieldChanged>>

UnstageRowAdd(b, r) ==
    /\ [bundle |-> b, row |-> r] \in stageRowAdded
    /\ \A t \in trackedRowAdded : t.row # r        \* unique (row_id)
    /\ stageRowAdded' = stageRowAdded \ {[bundle |-> b, row |-> r]}
    /\ trackedRowAdded' = trackedRowAdded \cup {[bundle |-> b, row |-> r]}
    /\ UNCHANGED <<db, repo, views, stageRowDeleted, stageFieldChanged>>

StageRowDelete(b, r) ==
    LET staged == {[bundle |-> b, rr |-> rr] : rr \in {x \in RowsetOf(head[b]) : x.row = r}}
    IN  /\ b \in bundles
        /\ staged # {}
        /\ staged \cap stageRowDeleted = {}        \* unique (bundle_id, rowset_row_id)
        /\ stageRowDeleted' = stageRowDeleted \cup staged
        /\ UNCHANGED <<db, repo, views, trackedRowAdded, stageRowAdded, stageFieldChanged>>

UnstageRowDelete(b, r) ==
    LET kept == {d \in stageRowDeleted : ~(d.bundle = b /\ d.rr.row = r)}
    IN  /\ kept # stageRowDeleted
        /\ stageRowDeleted' = kept
        /\ UNCHANGED <<db, repo, views, trackedRowAdded, stageRowAdded, stageFieldChanged>>

StageFieldChange(b, r, f) ==
    /\ b \in bundles
    /\ \A c \in stageFieldChanged :                \* unique (bundle_id, field_id)
          ~(c.bundle = b /\ c.row = r /\ c.field = f)
    /\ stageFieldChanged' = stageFieldChanged \cup
          {[bundle |-> b, row |-> r, field |-> f, value |-> Literal(r, f)]}
    /\ UNCHANGED <<db, repo, views, trackedRowAdded, stageRowAdded, stageRowDeleted>>

\* The bundle is a parameter of the function and not of its delete.
UnstageFieldChange(r, f) ==
    LET kept == {c \in stageFieldChanged : ~(c.row = r /\ c.field = f)}
    IN  /\ kept # stageFieldChanged
        /\ stageFieldChanged' = kept
        /\ UNCHANGED <<db, repo, views, trackedRowAdded, stageRowAdded, stageRowDeleted>>

-----------------------------------------------------------------------------
(* Checkout.                                                               *)

\* The rows checkout_delete(b, id) removes: none unless id is a commit of b.
CheckoutRows(b, id) == IF id \in CommitsOf(b) THEN {rr.row : rr \in RowsetOf(id)} ELSE {}

CheckoutDelete(b, id) ==
    /\ b \in bundles
    /\ db' = [r \in Rows |-> IF r \in CheckoutRows(b, id) THEN Absent ELSE db[r]]
    /\ checkedOut' = [checkedOut EXCEPT ![b] = None]
    /\ UNCHANGED <<bundles, used, head, commit, created, rowsetRow,
                   rowsetRowField, blob, views, stage>>

\* The fields checkout() reads for row r: of all its copies that have any.
RecordedFields(id, r) == {f \in rowsetRowField : f.rr.commit = id /\ f.rr.row = r}

\* Broken variant of RestoredRow: a recorded null does not overwrite.
RestoredRowKeepsOld(id, r, present) ==
    [c \in Columns |->
        LET vals == {f.value : f \in {g \in RecordedFields(id, r) : g.field = c}} \ {Null}
        IN  IF vals # {} THEN CHOOSE v \in vals : TRUE
            ELSE IF present THEN db[r][c] ELSE Null]

(* checkout_row: inserts the row, or updates the columns that are recorded. *)
RestoredRow(id, r, present) ==
    [c \in Columns |->
        LET vals == {f.value : f \in {g \in RecordedFields(id, r) : g.field = c}}
        IN  IF vals # {} THEN CHOOSE v \in vals : TRUE
            ELSE IF present THEN db[r][c] ELSE Null]

(* checkout(): bundle_has_uncommitted_changes returns false, always.  The  *)
(* call raises when a row's key is recorded as null (not-null constraint). *)
Checkout(b, id) ==
    LET gone == CheckoutRows(b, checkedOut[b])
    IN  /\ id \in CommitsOf(b)
        /\ b \in bundles
        /\ \A f \in rowsetRowField :
              f.rr.commit = id /\ f.field = Key => f.value # Null
        /\ db' = [r \in Rows |->
                    IF RecordedFields(id, r) # {}
                    THEN RestoredRow(id, r, r \notin gone /\ db[r] # Absent)
                    ELSE IF r \in gone THEN Absent ELSE db[r]]
        /\ head' = [head EXCEPT ![b] = id]
        /\ checkedOut' = [checkedOut EXCEPT ![b] = id]
        /\ UNCHANGED <<bundles, used, commit, created, rowsetRow,
                       rowsetRowField, blob, views, stage>>

-----------------------------------------------------------------------------
(* Merge.                                                                  *)

\* commit_ancestry: a parent is older than its child, so the recursion ends.
Ancestry(id) ==
    LET parents(n) == {c.parent : c \in {d \in commit : d.id = n}} \ {None}
        anc[n \in CommitId] == parents(n) \cup UNION {anc[p] : p \in parents(n)}
    IN  IF id \in CommitId THEN anc[id] ELSE {}

(* commits_common_ancestor: none for commits on one branch, else whichever *)
(* row the join comes to first.  Both sides of the join are the ancestry   *)
(* of the second commit.                                                   *)
CommonAncestors(id1, id2) ==
    IF id1 = id2 \/ id2 \in Ancestry(id1) \/ id1 \in Ancestry(id2)
    THEN {} ELSE Ancestry(id2) \cap Ancestry(id2)

\* What commit id records for a column of a row: several values for several copies.
Recorded(id, r, f) == {g \in rowsetRowField : g.rr.commit = id /\ g.rr.row = r /\ g.field = f}

\* Broken variant of FieldsChanged: the values are not compared.
FieldsChangedAny(id1, id2) ==
    {x \in Rows \X Columns :
        Recorded(id1, x[1], x[2]) # {} /\ Recorded(id2, x[1], x[2]) # {}}

\* fields_changed_between_commits: null has no hash, and compares with nothing.
FieldsChanged(id1, id2) ==
    {x \in Rows \X Columns :
        \E g \in Recorded(id1, x[1], x[2]), h \in Recorded(id2, x[1], x[2]) :
            g.value # h.value /\ Null \notin {g.value, h.value}}

\* rows_created_between_commits.
RowsCreated(id1, id2) == {rr.row : rr \in RowsetOf(id1)} \ {rr.row : rr \in RowsetOf(id2)}

(* merge(): fields that changed on the branch of id are written to the     *)
(* working copy, and staged unless they changed on the head's too.  It     *)
(* raises for a row that exists and was recorded twice, for a field that   *)
(* is staged, and for any new row: checkout_row(text, uuid) always raises. *)
Merge(b, id) ==
    /\ id \in CommitsOf(b)
    /\ b \in bundles
    /\ None \in {head[b], checkedOut[b]} \/ head[b] = checkedOut[b]
    /\ \E base \in CommonAncestors(head[b], id) :
          LET theirs == FieldsChanged(id, base)
              safe   == theirs \ FieldsChanged(head[b], base)
              value  == [x \in theirs |-> (CHOOSE g \in Recorded(id, x[1], x[2]) : TRUE).value]
          IN  /\ \A x \in theirs : db[x[1]] # Absent
                    => \A g, h \in Recorded(id, x[1], x[2]) : g = h
              /\ \A x \in safe : \A c \in stageFieldChanged :
                    ~(c.bundle = b /\ c.row = x[1] /\ c.field = x[2])
              /\ RowsCreated(id, base) = {}
              /\ db' = [r \in Rows |->
                          IF db[r] = Absent THEN Absent
                          ELSE [c \in Columns |->
                                  IF <<r, c>> \in theirs THEN value[<<r, c>>] ELSE db[r][c]]]
              /\ stageFieldChanged' = stageFieldChanged \cup
                    {[bundle |-> b, row |-> x[1], field |-> x[2],
                      value |-> IF db[x[1]] = Absent THEN Null ELSE value[x]] : x \in safe}
    /\ UNCHANGED <<repo, views, trackedRowAdded, stageRowAdded, stageRowDeleted>>

-----------------------------------------------------------------------------
WorkingCopy == \E r \in Rows : \/ InsertRow(r)
                               \/ DeleteRow(r)
                               \/ \E f \in Columns : UpdateField(r, f)

Repository ==
    \/ \E b \in Bundles : BundleCreate(b) \/ BundleDelete(b) \/ CommitBundle(b)
    \/ CommitUnknown
    \/ \E id \in CommitId : CommitDelete(id)
    \/ \E b \in Bundles, id \in CommitId : Checkout(b, id) \/ CheckoutDelete(b, id) \/ Merge(b, id)

Staging ==
    \/ \E b \in Bundles, r \in Rows :
          \/ TrackedRowAdd(b, r)
          \/ UntrackRow(b, r)
          \/ StageRowAdd(b, r)
          \/ UnstageRowAdd(b, r)
          \/ StageRowDelete(b, r)
          \/ UnstageRowDelete(b, r)
          \/ \E f \in Fields : StageFieldChange(b, r, f)
    \/ \E r \in Rows, f \in Fields : UnstageFieldChange(r, f)

Next == WorkingCopy \/ Repository \/ Staging

Spec == Init /\ [][Next]_vars
=============================================================================
