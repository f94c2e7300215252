---------------------------- MODULE BundleProofs ----------------------------
(***************************************************************************)
(* Proofs, for every value of the constants, of what BundleProperties      *)
(* states about module Bundle.                                             *)
(***************************************************************************)
EXTENDS BundleProperties, TLAPS

-----------------------------------------------------------------------------
(* The types of the queries.                                               *)

\* The literal value of a field of an existing or missing row is a cell.
LEMMA LiteralTyped ==
    ASSUME TypeOK, NEW r \in Rows, NEW f \in Fields
    PROVE  /\ Literal(r, f) \in Cells
           /\ f \in Columns => Literal(r, f) \in Contents
  BY ConstantsAssumption DEF TypeOK, Literal, Cells, Contents, Fields

\* The rows of a head are rows.
LEMMA HeadRowsTyped ==
    ASSUME TypeOK, NEW b \in Bundles
    PROVE  HeadRows(b) \subseteq Rows
  BY DEF TypeOK, HeadRows, RowsetOf, RowsetRow

\* View stage_row holds rows of bundles.
LEMMA StageRowTyped ==
    ASSUME TypeOK, NEW s \in StageRow
    PROVE  s.bundle \in bundles /\ s.row \in Rows /\ s.new \in BOOLEAN
  BY DEF StageRow

\* What a head field contributes to the stage is a cell of the same field.
LEMMA OverridesTyped ==
    ASSUME TypeOK, NEW h \in headCommitField, NEW o \in Overrides(h)
    PROVE  /\ o.value \in Cells
           /\ h.cell.field \in Columns => o.value \in Contents
<1>1. /\ h.cell.value \in Cells
      /\ h.cell.field \in Columns => h.cell.value \in Contents
  BY DEF TypeOK, RowsetField
<1>2. \A c \in stageFieldChanged : /\ c.value \in Cells
                                   /\ c.field \in Columns => c.value \in Contents
  BY DEF TypeOK, StagedChange
<1>3. QED
  BY <1>1, <1>2 DEF Overrides, Cells, Contents

\* View stage_row_field holds cells of the field.
LEMMA StageRowFieldTyped ==
    ASSUME TypeOK, NEW r \in Rows, NEW f \in Fields, NEW x \in StageRowField(r, f)
    PROVE  /\ x.value \in Cells
           /\ f \in Columns => x.value \in Contents
<1> DEFINE hcf == {h \in headCommitField : h.cell.rr.row = r /\ h.cell.field = f}
<1>1. \/ x.value = Literal(r, f)
      \/ \E h \in hcf : \E o \in Overrides(h) : x.value = o.value
  BY DEF StageRowField
<1>2. CASE x.value = Literal(r, f)
  BY <1>2, LiteralTyped
<1>3. CASE \E h \in hcf : \E o \in Overrides(h) : x.value = o.value
  BY <1>3, OverridesTyped
<1>4. QED
  BY <1>1, <1>2, <1>3

\* Refreshing the views yields head records of the refreshed tables.
LEMMA RefreshTyped ==
    ASSUME RefreshViews, bundles' \subseteq Bundles,
           rowsetRow' \subseteq RowsetRow, rowsetRowField' \subseteq RowsetField
    PROVE  /\ headCommitRow' \subseteq [bundle : Bundles, rr : RowsetRow]
           /\ headCommitField' \subseteq [bundle : Bundles, cell : RowsetField]
  BY DEF RefreshViews

-----------------------------------------------------------------------------
(* Type correctness, one lemma per operation that is more than an insert   *)
(* or a delete.                                                            *)

\* Deleting commits keeps the types.
LEMMA DropCommitsTyped ==
    ASSUME TypeOK, NEW ids, DropCommits(ids)
    PROVE  /\ head' \in [Bundles -> CommitId \cup {None}]
           /\ checkedOut' \in [Bundles -> CommitId \cup {None}]
           /\ commit' \subseteq Commit
           /\ rowsetRow' \subseteq RowsetRow
           /\ rowsetRowField' \subseteq RowsetField
  BY DEF TypeOK, DropCommits

\* A commit keeps the types.
LEMMA CommitBundleTyped ==
    ASSUME TypeOK, NEW b \in Bundles, CommitBundle(b)
    PROVE  TypeOK'
<1> DEFINE id == created + 1
           newRows == {[commit |-> id, row |-> s.row, new |-> s.new] :
                          s \in {t \in StageRow : t.bundle = b}}
           newFields == UNION {UNION {{[rr |-> rr, field |-> f, value |-> x.value] :
                          x \in StageRowField(rr.row, f)} : f \in Fields} : rr \in newRows}
<1>1. id \in CommitId
  BY ConstantsAssumption DEF TypeOK, CommitBundle, CommitId
<1>2. newRows \subseteq RowsetRow
  <2>1. \A s \in StageRow : s.row \in Rows /\ s.new \in BOOLEAN
    BY StageRowTyped
  <2>2. QED
    BY <1>1, <2>1 DEF RowsetRow
<1>3. newFields \subseteq RowsetField
  <2>1. \A rr \in newRows, f \in Fields : \A x \in StageRowField(rr.row, f) :
            /\ x.value \in Cells
            /\ f \in Columns => x.value \in Contents
    BY <1>2, StageRowFieldTyped DEF RowsetRow
  <2> HIDE DEF newRows
  <2>2. \A rr \in newRows, f \in Fields : \A x \in StageRowField(rr.row, f) :
            [rr |-> rr, field |-> f, value |-> x.value] \in RowsetField
    BY <1>2, <2>1 DEF RowsetField
  <2>3. QED
    BY <2>2
<1>4. {f.value : f \in newFields} \ {Null} \subseteq Values \cup Rows
  BY <1>3 DEF RowsetField, Cells, Contents
<1> HIDE DEF newRows, newFields
<1>5. /\ rowsetRow' \subseteq RowsetRow
      /\ rowsetRowField' \subseteq RowsetField
      /\ blob' \subseteq Values \cup Rows
  BY <1>2, <1>3, <1>4 DEF TypeOK, CommitBundle, newRows, newFields
<1>6. commit' \subseteq Commit
  <2>1. head[b] \in CommitId \cup {None}
    BY DEF TypeOK
  <2>2. [id |-> id, bundle |-> b, parent |-> head[b]] \in Commit
    BY <1>1, <2>1 DEF Commit
  <2>3. QED
    BY <2>2 DEF TypeOK, CommitBundle
<1>7. /\ headCommitRow' \subseteq [bundle : Bundles, rr : RowsetRow]
      /\ headCommitField' \subseteq [bundle : Bundles, cell : RowsetField]
  BY <1>5, RefreshTyped DEF TypeOK, CommitBundle
<1>8. QED
  BY <1>1, <1>5, <1>6, <1>7, ConstantsAssumption DEF TypeOK, CommitBundle, CommitId

\* Restoring a row yields a row.
LEMMA RestoredRowTyped ==
    ASSUME TypeOK, NEW id, NEW r \in Rows, NEW p \in BOOLEAN, p => db[r] # Absent
    PROVE  RestoredRow(id, r, p) \in [Columns -> Contents]
<1>1. p => db[r] \in [Columns -> Contents]
  BY DEF TypeOK
<1> DEFINE vals(c) == {f.value : f \in {g \in RecordedFields(id, r) : g.field = c}}
<1>2. ASSUME NEW c \in Columns
      PROVE  (IF vals(c) # {} THEN CHOOSE v \in vals(c) : TRUE
              ELSE IF p THEN db[r][c] ELSE Null) \in Contents
  <2>1. vals(c) \subseteq Contents
    BY DEF RecordedFields, TypeOK, RowsetField
  <2>2. CASE vals(c) # {}
    <3>1. (CHOOSE v \in vals(c) : TRUE) \in vals(c)
      BY <2>2
    <3>2. QED
      BY <2>1, <2>2, <3>1
  <2>3. CASE vals(c) = {}
    BY <1>1, <2>3 DEF Contents
  <2>4. QED
    BY <2>2, <2>3
<1>3. QED
  BY <1>2 DEF RestoredRow

\* A checkout keeps the types.
LEMMA CheckoutTyped ==
    ASSUME TypeOK, NEW b \in Bundles, NEW id \in CommitId, Checkout(b, id)
    PROVE  TypeOK'
<1> DEFINE gone == CheckoutRows(b, checkedOut[b])
<1>1. \A r \in Rows : RestoredRow(id, r, r \notin gone /\ db[r] # Absent)
                          \in [Columns -> Contents]
  BY RestoredRowTyped
<1>2. db' \in [Rows -> [Columns -> Contents] \cup {Absent}]
  <2> HIDE DEF gone
  <2>1. db' = [r \in Rows |->
                    IF RecordedFields(id, r) # {}
                    THEN RestoredRow(id, r, r \notin gone /\ db[r] # Absent)
                    ELSE IF r \in gone THEN Absent ELSE db[r]]
    BY DEF Checkout, gone
  <2>2. QED
    BY <1>1, <2>1 DEF TypeOK
<1>3. QED
  BY <1>2 DEF TypeOK, Checkout, views, stage

\* A merge writes and stages recorded values.
LEMMA MergeTyped ==
    ASSUME TypeOK, NEW b \in Bundles, NEW id \in CommitId, Merge(b, id)
    PROVE  TypeOK'
<1>1. PICK base \in CommonAncestors(head[b], id) :
        LET theirs == FieldsChanged(id, base)
            safe   == theirs \ FieldsChanged(head[b], base)
            value  == [x \in theirs |-> (CHOOSE g \in Recorded(id, x[1], x[2]) : TRUE).value]
        IN  /\ db' = [r \in Rows |->
                        IF db[r] = Absent THEN Absent
                        ELSE [c \in Columns |->
                                IF <<r, c>> \in theirs THEN value[<<r, c>>] ELSE db[r][c]]]
            /\ stageFieldChanged' = stageFieldChanged \cup
                  {[bundle |-> b, row |-> x[1], field |-> x[2],
                    value |-> IF db[x[1]] = Absent THEN Null ELSE value[x]] : x \in safe}
  BY DEF Merge
<1> DEFINE theirs == FieldsChanged(id, base)
           safe   == theirs \ FieldsChanged(head[b], base)
           value  == [x \in theirs |-> (CHOOSE g \in Recorded(id, x[1], x[2]) : TRUE).value]
<1>2. theirs \subseteq Rows \X Columns
  BY DEF FieldsChanged
<1>3. ASSUME NEW x \in theirs
      PROVE  value[x] \in Contents
  <2>1. PICK g \in Recorded(id, x[1], x[2]) : TRUE
    BY <1>3 DEF FieldsChanged
  <2>2. \A h \in Recorded(id, x[1], x[2]) : h.value \in Contents
    BY <1>2, <1>3 DEF Recorded, TypeOK, RowsetField
  <2>3. QED
    BY <1>3, <2>1, <2>2
<1> HIDE DEF theirs, value
<1>4. db' \in [Rows -> [Columns -> Contents] \cup {Absent}]
  <2>1. db' = [r \in Rows |->
                 IF db[r] = Absent THEN Absent
                 ELSE [c \in Columns |->
                         IF <<r, c>> \in theirs THEN value[<<r, c>>] ELSE db[r][c]]]
    BY <1>1 DEF theirs, value
  <2>2. ASSUME NEW r \in Rows, db[r] # Absent
        PROVE  [c \in Columns |-> IF <<r, c>> \in theirs THEN value[<<r, c>>] ELSE db[r][c]]
                  \in [Columns -> Contents]
    BY <1>3, <2>2 DEF TypeOK
  <2>3. QED
    BY <2>1, <2>2
<1>5. stageFieldChanged' \subseteq StagedChange
  <2>1. stageFieldChanged' = stageFieldChanged \cup
           {[bundle |-> b, row |-> x[1], field |-> x[2],
             value |-> IF db[x[1]] = Absent THEN Null ELSE value[x]] : x \in safe}
    BY <1>1 DEF theirs, value
  <2>2. ASSUME NEW x \in safe
        PROVE  [bundle |-> b, row |-> x[1], field |-> x[2],
                value |-> IF db[x[1]] = Absent THEN Null ELSE value[x]] \in StagedChange
    BY <1>2, <1>3 DEF StagedChange, Contents, Cells, Fields
  <2>3. QED
    BY <2>1, <2>2 DEF TypeOK
<1>6. QED
  BY <1>4, <1>5 DEF Merge, TypeOK, repo, views

\* So does every write to the working copy.
LEMMA WorkingCopyTyped ==
    ASSUME TypeOK, WorkingCopy
    PROVE  TypeOK'
<1>1. ASSUME NEW r \in Rows, InsertRow(r)
      PROVE  TypeOK'
  BY <1>1 DEF TypeOK, InsertRow, repo, views, stage, Contents
<1>2. ASSUME NEW r \in Rows, DeleteRow(r)
      PROVE  TypeOK'
  BY <1>2 DEF TypeOK, DeleteRow, repo, views, stage
<1>3. ASSUME NEW r \in Rows, NEW f \in Columns, UpdateField(r, f)
      PROVE  TypeOK'
  <2>1. db[r] \in [Columns -> Contents]
    BY <1>3 DEF TypeOK, UpdateField
  <2>2. PICK v \in Contents : db' = [db EXCEPT ![r][f] = v]
    BY <1>3 DEF UpdateField
  <2>3. [db[r] EXCEPT ![f] = v] \in [Columns -> Contents]
    BY <2>1, <2>2
  <2>4. db' \in [Rows -> [Columns -> Contents] \cup {Absent}]
    BY <2>2, <2>3 DEF TypeOK
  <2>5. QED
    BY <1>3, <2>4 DEF TypeOK, UpdateField, repo, views, stage
<1>4. QED
  BY <1>1, <1>2, <1>3 DEF WorkingCopy

\* So does every operation on the stage.
LEMMA StagingTyped ==
    ASSUME TypeOK, Staging
    PROVE  TypeOK'
<1>1. ASSUME NEW b \in Bundles, NEW r \in Rows,
             \/ TrackedRowAdd(b, r) \/ UntrackRow(b, r) \/ StageRowAdd(b, r)
             \/ UnstageRowAdd(b, r) \/ UnstageRowDelete(b, r)
      PROVE  TypeOK'
  BY <1>1 DEF TypeOK, TrackedRowAdd, UntrackRow, StageRowAdd, UnstageRowAdd,
              UnstageRowDelete, StagedRow, repo, views
<1>2. ASSUME NEW b \in Bundles, NEW r \in Rows, StageRowDelete(b, r)
      PROVE  TypeOK'
  BY <1>2 DEF TypeOK, StageRowDelete, RowsetOf, StagedDelete, repo, views
<1>3. ASSUME NEW b \in Bundles, NEW r \in Rows, NEW f \in Fields, StageFieldChange(b, r, f)
      PROVE  TypeOK'
  <2>1. Literal(r, f) \in Cells /\ (f \in Columns => Literal(r, f) \in Contents)
    BY LiteralTyped
  <2>2. [bundle |-> b, row |-> r, field |-> f, value |-> Literal(r, f)] \in StagedChange
    BY <2>1 DEF StagedChange
  <2>3. QED
    BY <1>3, <2>2 DEF TypeOK, StageFieldChange, repo, views
<1>4. ASSUME NEW r \in Rows, NEW f \in Fields, UnstageFieldChange(r, f)
      PROVE  TypeOK'
  BY <1>4 DEF TypeOK, UnstageFieldChange, repo, views
<1>5. QED
  BY <1>1, <1>2, <1>3, <1>4 DEF Staging

\* So does every operation on bundles and commits.
LEMMA RepositoryTyped ==
    ASSUME TypeOK, Repository
    PROVE  TypeOK'
<1>1. ASSUME NEW b \in Bundles, BundleCreate(b)
      PROVE  TypeOK'
  BY <1>1 DEF TypeOK, BundleCreate, views, stage
<1>2. ASSUME NEW b \in Bundles, BundleDelete(b)
      PROVE  TypeOK'
  <2>1. DropCommits(CommitsOf(b))
    BY <1>2 DEF BundleDelete
  <2>2. QED
    BY <1>2, <2>1, DropCommitsTyped DEF TypeOK, BundleDelete, views
<1>3. ASSUME NEW id \in CommitId, CommitDelete(id)
      PROVE  TypeOK'
  <2>1. DropCommits({id}) /\ RefreshViews
    BY <1>3 DEF CommitDelete
  <2>2. bundles' \subseteq Bundles
    BY <1>3 DEF CommitDelete, TypeOK
  <2>3. QED
    BY <1>3, <2>1, <2>2, DropCommitsTyped, RefreshTyped DEF TypeOK, CommitDelete, stage
<1>4. ASSUME CommitUnknown
      PROVE  TypeOK'
  <2>1. created + 1 \in CommitId
    BY <1>4, ConstantsAssumption DEF CommitUnknown, TypeOK, CommitId
  <2>2. /\ bundles' \subseteq Bundles
        /\ rowsetRow' \subseteq RowsetRow
        /\ rowsetRowField' \subseteq RowsetField
    BY <1>4 DEF CommitUnknown, TypeOK
  <2>3. /\ headCommitRow' \subseteq [bundle : Bundles, rr : RowsetRow]
        /\ headCommitField' \subseteq [bundle : Bundles, cell : RowsetField]
    BY <1>4, <2>2, RefreshTyped DEF CommitUnknown
  <2>4. commit' \subseteq Commit
    BY <1>4, <2>1 DEF CommitUnknown, TypeOK, Commit
  <2>5. QED
    BY <1>4, <2>1, <2>3, <2>4, ConstantsAssumption DEF CommitUnknown, TypeOK, CommitId, stage
<1>5. ASSUME NEW b \in Bundles, NEW id \in CommitId, CheckoutDelete(b, id)
      PROVE  TypeOK'
  BY <1>5 DEF TypeOK, CheckoutDelete, views, stage
<1>6. QED
  BY <1>1, <1>2, <1>3, <1>4, <1>5, CommitBundleTyped, CheckoutTyped, MergeTyped
     DEF Repository

(* The tables and the working copy always hold values of their types:      *)
(* in particular what commit() writes into rowset_row_field and what       *)
(* checkout() writes back are values of the field, whatever the joins of   *)
(* stage_row_field pick up.                                                *)
THEOREM Typing == Spec => []TypeOK
<1>1. Init => TypeOK
  BY ConstantsAssumption DEF Init, TypeOK
<1>2. TypeOK /\ [Next]_vars => TypeOK'
  <2> SUFFICES ASSUME TypeOK, [Next]_vars
               PROVE  TypeOK'
    OBVIOUS
  <2>1. CASE UNCHANGED vars
    BY <2>1 DEF TypeOK, vars, repo, views, stage
  <2>2. CASE Next
    BY <2>2, WorkingCopyTyped, RepositoryTyped, StagingTyped DEF Next
  <2>3. QED
    BY <2>1, <2>2
<1>3. QED
  BY <1>1, <1>2, PTL DEF Spec

-----------------------------------------------------------------------------
(* The repository invariant.                                               *)

\* Steps that leave the repository and the staged deletions alone.
LEMMA QuietKeepsInv ==
    ASSUME RepositoryInv, TypeOK', UNCHANGED repo, stageRowDeleted' \subseteq stageRowDeleted
    PROVE  RepositoryInv'
  BY DEF RepositoryInv, CommitGraph, HeadsAttached, RowsetsOwned, StagedDeletesRecorded,
         CommitsOf, CommitIds, repo

\* A new, empty bundle has no head and no commits.
LEMMA BundleCreateKeepsInv ==
    ASSUME RepositoryInv, TypeOK', NEW b \in Bundles, BundleCreate(b)
    PROVE  RepositoryInv'
  BY DEF RepositoryInv, BundleCreate, stage, CommitGraph, HeadsAttached, RowsetsOwned,
         StagedDeletesRecorded, CommitsOf, CommitIds

\* Deleting commits that nothing refers to keeps the forest and its rowsets.
LEMMA DropCommitsKeepsGraph ==
    ASSUME RepositoryInv, NEW ids, Droppable(ids), DropCommits(ids),
           bundles \ bundles' \subseteq {b \in Bundles : CommitsOf(b) \subseteq ids},
           bundles' \subseteq bundles, created' = created
    PROVE  CommitGraph' /\ HeadsAttached' /\ RowsetsOwned'
<1>1. /\ commit' = {c \in commit : c.id \notin ids}
      /\ rowsetRow' = {rr \in rowsetRow : rr.commit \notin ids}
      /\ rowsetRowField' = {f \in rowsetRowField : f.rr.commit \notin ids}
  BY DEF DropCommits
<1>2. CommitGraph'
  <2>1. \A c, d \in commit' : c.id = d.id => c = d
    BY <1>1 DEF RepositoryInv, CommitGraph
  <2>2. ASSUME NEW c \in commit'
        PROVE  c.id <= created' /\ c.bundle \in bundles' \cup {None}
    <3>1. c \in commit /\ c.id \notin ids
      BY <1>1
    <3>2. c.id <= created /\ c.bundle \in bundles \cup {None}
      BY <3>1 DEF RepositoryInv, CommitGraph
    <3>3. c.bundle \in bundles => c.bundle \in bundles'
      BY <3>1 DEF CommitsOf
    <3>4. QED
      BY <3>2, <3>3
  <2>3. ASSUME NEW c \in commit', c.parent # None
        PROVE  \E p \in commit' : p.id = c.parent /\ p.bundle = c.bundle /\ p.id < c.id
    <3>1. c \in commit /\ c.id \notin ids
      BY <1>1
    <3>2. PICK p \in commit : p.id = c.parent /\ p.bundle = c.bundle /\ p.id < c.id
      BY <2>3, <3>1 DEF RepositoryInv, CommitGraph
    <3>3. p.id \notin ids
      BY <3>1, <3>2 DEF Droppable
    <3>4. QED
      BY <1>1, <3>2, <3>3
  <2>4. QED
    BY <2>1, <2>2, <2>3 DEF CommitGraph
<1>3. HeadsAttached'
  <2> SUFFICES ASSUME NEW b \in Bundles
               PROVE  /\ head'[b] # None => b \in bundles' /\ head'[b] \in CommitsOf(b)'
                      /\ checkedOut'[b] \in {None, head'[b]}
    BY DEF HeadsAttached
  <2>1. /\ head[b] # None => b \in bundles /\ head[b] \in CommitsOf(b)
        /\ checkedOut[b] \in {None, head[b]}
    BY DEF RepositoryInv, HeadsAttached
  <2>2. /\ head'[b] = IF head[b] \in ids THEN None ELSE head[b]
        /\ checkedOut'[b] = IF checkedOut[b] \in ids THEN None ELSE checkedOut[b]
    BY DEF DropCommits
  <2>3. ASSUME head'[b] # None
        PROVE  b \in bundles' /\ head'[b] \in CommitsOf(b)'
    <3>1. head'[b] = head[b] /\ head[b] \notin ids /\ head[b] \in CommitsOf(b) /\ b \in bundles
      BY <2>1, <2>2, <2>3
    <3>2. b \in bundles'
      BY <3>1
    <3>3. head[b] \in CommitsOf(b)'
      BY <1>1, <3>1 DEF CommitsOf
    <3>4. QED
      BY <3>1, <3>2, <3>3
  <2>4. QED
    BY <2>1, <2>2, <2>3
<1>4. RowsetsOwned'
  BY <1>1 DEF RepositoryInv, RowsetsOwned, CommitIds
<1>5. QED
  BY <1>2, <1>3, <1>4

\* A bundle takes its commits, rowsets and staged deletions with it.
LEMMA BundleDeleteKeepsInv ==
    ASSUME RepositoryInv, TypeOK', NEW b \in Bundles, BundleDelete(b)
    PROVE  RepositoryInv'
<1>1. CommitGraph' /\ HeadsAttached' /\ RowsetsOwned'
  BY DropCommitsKeepsGraph DEF BundleDelete
<1>2. StagedDeletesRecorded'
  <2> SUFFICES ASSUME NEW d \in stageRowDeleted'
               PROVE  /\ d.bundle \in bundles' /\ d.rr \in rowsetRow'
                      /\ d.rr.commit \in CommitsOf(d.bundle)'
    BY DEF StagedDeletesRecorded
  <2>1. d \in stageRowDeleted /\ d.bundle # b
    BY DEF BundleDelete
  <2>2. d.bundle \in bundles /\ d.rr \in rowsetRow /\ d.rr.commit \in CommitsOf(d.bundle)
    BY <2>1 DEF RepositoryInv, StagedDeletesRecorded
  <2>3. d.rr.commit \notin CommitsOf(b)
    BY <2>1 DEF BundleDelete, Droppable
  <2>4. QED
    BY <2>1, <2>2, <2>3 DEF BundleDelete, DropCommits, CommitsOf
<1>3. QED
  BY <1>1, <1>2 DEF RepositoryInv

\* A commit nothing refers to can go.
LEMMA CommitDeleteKeepsInv ==
    ASSUME RepositoryInv, TypeOK', NEW id \in CommitId, CommitDelete(id)
    PROVE  RepositoryInv'
<1>1. CommitGraph' /\ HeadsAttached' /\ RowsetsOwned'
  BY DropCommitsKeepsGraph DEF CommitDelete
<1>2. StagedDeletesRecorded'
  <2> SUFFICES ASSUME NEW d \in stageRowDeleted'
               PROVE  /\ d.bundle \in bundles' /\ d.rr \in rowsetRow'
                      /\ d.rr.commit \in CommitsOf(d.bundle)'
    BY DEF StagedDeletesRecorded
  <2>1. d \in stageRowDeleted
    BY DEF CommitDelete, stage
  <2>2. d.bundle \in bundles /\ d.rr \in rowsetRow /\ d.rr.commit \in CommitsOf(d.bundle)
    BY <2>1 DEF RepositoryInv, StagedDeletesRecorded
  <2>3. d.rr.commit \notin {id}
    BY <2>1 DEF CommitDelete, Droppable
  <2>4. QED
    BY <2>1, <2>2, <2>3 DEF CommitDelete, DropCommits, CommitsOf
<1>3. QED
  BY <1>1, <1>2 DEF RepositoryInv

\* A recorded id is never handed out again.
LEMMA FreshId ==
    ASSUME RepositoryInv
    PROVE  /\ \A c \in commit : c.id # created + 1
           /\ \A rr \in rowsetRow : rr.commit # created + 1
           /\ \A f \in rowsetRowField : f.rr.commit # created + 1
<1>1. \A c \in commit : c.id \in Nat /\ c.id <= created
  BY ConstantsAssumption DEF RepositoryInv, TypeOK, CommitGraph, Commit, CommitId
<1>2. created \in Nat
  BY ConstantsAssumption DEF RepositoryInv, TypeOK
<1>3. \A c \in commit : c.id # created + 1
  BY <1>1, <1>2
<1>4. QED
  BY <1>3 DEF RepositoryInv, RowsetsOwned, CommitIds

\* A new commit is a child of the head it replaces.
LEMMA CommitBundleKeepsInv ==
    ASSUME RepositoryInv, TypeOK', NEW b \in Bundles, CommitBundle(b)
    PROVE  RepositoryInv'
<1> DEFINE id == created + 1
           new == [id |-> id, bundle |-> b, parent |-> head[b]]
<1>1. /\ commit' = commit \cup {new}
      /\ created' = id /\ b \in bundles /\ bundles' = bundles
      /\ head' = [head EXCEPT ![b] = id]
      /\ checkedOut' = [checkedOut EXCEPT ![b] = id]
  BY DEF CommitBundle
<1>2. /\ \A rr \in rowsetRow' : rr \in rowsetRow \/ rr.commit = id
      /\ rowsetRow \subseteq rowsetRow'
      /\ \A f \in rowsetRowField' : f \in rowsetRowField \/ f.rr \in rowsetRow'
  BY DEF CommitBundle
<1>3. id \in CommitId /\ created \in Nat
  BY ConstantsAssumption DEF CommitBundle, RepositoryInv, TypeOK, CommitId
<1>4. CommitGraph'
  <2>1. \A c, d \in commit' : c.id = d.id => c = d
    BY <1>1, FreshId DEF RepositoryInv, CommitGraph
  <2>2. \A c \in commit : c.id \in Nat /\ c.id <= created
    BY ConstantsAssumption DEF RepositoryInv, TypeOK, CommitGraph, Commit, CommitId
  <2>3. \A c \in commit' : c.id <= created' /\ c.bundle \in bundles' \cup {None}
    BY <1>1, <1>3, <2>2 DEF RepositoryInv, CommitGraph
  <2>4. ASSUME NEW c \in commit', c.parent # None
        PROVE  \E p \in commit' : p.id = c.parent /\ p.bundle = c.bundle /\ p.id < c.id
    <3>1. CASE c \in commit
      BY <1>1, <2>4, <3>1 DEF RepositoryInv, CommitGraph
    <3>2. CASE c = new
      <4>1. head[b] \in CommitsOf(b)
        BY <2>4, <3>2 DEF RepositoryInv, HeadsAttached
      <4>2. PICK p \in commit : p.id = head[b] /\ p.bundle = b
        BY <4>1 DEF CommitsOf
      <4>3. p.id < id
        BY <1>3, <2>2
      <4>4. QED
        BY <1>1, <3>2, <4>2, <4>3
    <3>3. QED
      BY <1>1, <3>1, <3>2
  <2>5. QED
    BY <2>1, <2>3, <2>4 DEF CommitGraph
<1>5. HeadsAttached'
  <2> SUFFICES ASSUME NEW x \in Bundles
               PROVE  /\ head'[x] # None => x \in bundles' /\ head'[x] \in CommitsOf(x)'
                      /\ checkedOut'[x] \in {None, head'[x]}
    BY DEF HeadsAttached
  <2>1. CASE x = b
    <3>1. head'[b] = id /\ checkedOut'[b] = id
      BY <1>1 DEF RepositoryInv, TypeOK
    <3>2. new \in commit' /\ new.id = id /\ new.bundle = b
      BY <1>1
    <3>3. id \in CommitsOf(b)'
      BY <3>2 DEF CommitsOf
    <3>4. QED
      BY <1>1, <2>1, <3>1, <3>3
  <2>2. CASE x # b
    <3>1. head'[x] = head[x] /\ checkedOut'[x] = checkedOut[x]
      BY <1>1, <2>2 DEF RepositoryInv, TypeOK
    <3>2. CommitsOf(x) \subseteq CommitsOf(x)'
      BY <1>1 DEF CommitsOf
    <3>3. QED
      BY <1>1, <3>1, <3>2 DEF RepositoryInv, HeadsAttached
  <2>3. QED
    BY <2>1, <2>2
<1>6. RowsetsOwned'
  BY <1>1, <1>2 DEF RepositoryInv, RowsetsOwned, CommitIds
<1>7. StagedDeletesRecorded'
  BY <1>1, <1>2 DEF RepositoryInv, StagedDeletesRecorded, CommitsOf, CommitBundle
<1>8. QED
  BY <1>4, <1>5, <1>6, <1>7 DEF RepositoryInv

\* A commit without a bundle is a root that nothing points at.
LEMMA CommitUnknownKeepsInv ==
    ASSUME RepositoryInv, TypeOK', CommitUnknown
    PROVE  RepositoryInv'
<1> DEFINE new == [id |-> created + 1, bundle |-> None, parent |-> None]
<1>1. /\ commit' = commit \cup {new}
      /\ created' = created + 1 /\ bundles' = bundles
      /\ head' = head /\ checkedOut' = checkedOut
      /\ rowsetRow' = rowsetRow /\ rowsetRowField' = rowsetRowField
      /\ stageRowDeleted' = stageRowDeleted
  BY DEF CommitUnknown, stage
<1>2. created \in Nat
  BY ConstantsAssumption DEF RepositoryInv, TypeOK
<1>3. \A c \in commit : c.id \in Nat /\ c.id <= created
  BY ConstantsAssumption DEF RepositoryInv, TypeOK, CommitGraph, Commit, CommitId
<1>4. CommitGraph'
  <2>1. \A c, d \in commit' : c.id = d.id => c = d
    BY <1>1, FreshId DEF RepositoryInv, CommitGraph
  <2>2. \A c \in commit' : c.id <= created' /\ c.bundle \in bundles' \cup {None}
    BY <1>1, <1>2, <1>3 DEF RepositoryInv, CommitGraph
  <2>3. \A c \in commit' : c.parent # None =>
            \E p \in commit' : p.id = c.parent /\ p.bundle = c.bundle /\ p.id < c.id
    BY <1>1 DEF RepositoryInv, CommitGraph
  <2>4. QED
    BY <2>1, <2>2, <2>3 DEF CommitGraph
<1>5. HeadsAttached' /\ RowsetsOwned' /\ StagedDeletesRecorded'
  BY <1>1 DEF RepositoryInv, HeadsAttached, RowsetsOwned, StagedDeletesRecorded,
              CommitsOf, CommitIds
<1>6. QED
  BY <1>4, <1>5 DEF RepositoryInv

\* A deletion is staged for a row of the head, which is recorded.
LEMMA StageRowDeleteKeepsInv ==
    ASSUME RepositoryInv, TypeOK', NEW b \in Bundles, NEW r \in Rows, StageRowDelete(b, r)
    PROVE  RepositoryInv'
<1>1. UNCHANGED repo /\ b \in bundles
  BY DEF StageRowDelete
<1>2. ASSUME NEW d \in stageRowDeleted', d \notin stageRowDeleted
      PROVE  d.bundle = b /\ d.rr \in rowsetRow /\ d.rr.commit = head[b]
  BY <1>2 DEF StageRowDelete, RowsetOf
<1>3. ASSUME NEW rr \in rowsetRow, rr.commit = head[b]
      PROVE  head[b] \in CommitsOf(b)
  <2>1. head[b] # None
    BY <1>3, ConstantsAssumption DEF RepositoryInv, TypeOK, RowsetRow
  <2>2. QED
    BY <2>1 DEF RepositoryInv, HeadsAttached
<1>4. StagedDeletesRecorded'
  BY <1>1, <1>2, <1>3 DEF RepositoryInv, StagedDeletesRecorded, CommitsOf, repo
<1>5. CommitGraph' /\ HeadsAttached' /\ RowsetsOwned'
  BY <1>1 DEF RepositoryInv, CommitGraph, HeadsAttached, RowsetsOwned,
              CommitsOf, CommitIds, repo
<1>6. QED
  BY <1>4, <1>5 DEF RepositoryInv

\* Checkout moves the head to a commit of its own bundle.
LEMMA CheckoutKeepsInv ==
    ASSUME RepositoryInv, TypeOK', NEW b \in Bundles, NEW id \in CommitId,
           Checkout(b, id) \/ CheckoutDelete(b, id)
    PROVE  RepositoryInv'
<1>1. CASE Checkout(b, id)
  BY <1>1 DEF Checkout, stage, RepositoryInv, TypeOK, CommitGraph, HeadsAttached,
              RowsetsOwned, StagedDeletesRecorded, CommitsOf, CommitIds
<1>2. CASE CheckoutDelete(b, id)
  BY <1>2 DEF CheckoutDelete, stage, RepositoryInv, TypeOK, CommitGraph, HeadsAttached,
              RowsetsOwned, StagedDeletesRecorded, CommitsOf, CommitIds
<1>3. QED
  BY <1>1, <1>2

\* A merge touches nothing that is recorded.
LEMMA MergeIsQuiet ==
    ASSUME NEW b, NEW id, Merge(b, id)
    PROVE  UNCHANGED repo /\ UNCHANGED views /\ stageRowDeleted' = stageRowDeleted
  BY DEF Merge

\* Every step keeps the invariant.
LEMMA NextKeepsInv ==
    ASSUME RepositoryInv, [Next]_vars
    PROVE  RepositoryInv'
<1>1. TypeOK'
  <2>1. CASE UNCHANGED vars
    BY <2>1 DEF RepositoryInv, TypeOK, vars, repo, views, stage
  <2>2. CASE Next
    BY <2>2, WorkingCopyTyped, RepositoryTyped, StagingTyped DEF Next, RepositoryInv
  <2>3. QED
    BY <2>1, <2>2
<1>2. CASE UNCHANGED vars
  BY <1>1, <1>2, QuietKeepsInv DEF vars, stage
<1>3. CASE WorkingCopy
  BY <1>1, <1>3, QuietKeepsInv DEF WorkingCopy, InsertRow, DeleteRow, UpdateField, stage
<1>4. CASE Repository
  BY <1>1, <1>4, BundleCreateKeepsInv, BundleDeleteKeepsInv, CommitBundleKeepsInv,
     CommitUnknownKeepsInv, CommitDeleteKeepsInv, CheckoutKeepsInv, MergeIsQuiet,
     QuietKeepsInv DEF Repository
<1>5. CASE Staging
  <2>1. CASE \E b \in Bundles, r \in Rows : StageRowDelete(b, r)
    BY <1>1, <2>1, StageRowDeleteKeepsInv
  <2>2. CASE ~\E b \in Bundles, r \in Rows : StageRowDelete(b, r)
    <3>1. UNCHANGED repo /\ stageRowDeleted' \subseteq stageRowDeleted
      BY <1>5, <2>2 DEF Staging, TrackedRowAdd, UntrackRow, StageRowAdd, UnstageRowAdd,
                        UnstageRowDelete, StageFieldChange, UnstageFieldChange
    <3>2. QED
      BY <1>1, <3>1, QuietKeepsInv
  <2>3. QED
    BY <2>1, <2>2
<1>6. QED
  BY <1>2, <1>3, <1>4, <1>5 DEF Next

(* The commits form a forest inside each bundle, heads and checkouts point *)
(* into their own bundle's part of it, and rowsets, fields and staged      *)
(* deletions never dangle: for every interleaving of the extension's calls.*)
THEOREM RepositorySafe == Spec => []RepositoryInv
<1>1. Init => RepositoryInv
  BY ConstantsAssumption DEF Init, RepositoryInv, TypeOK, CommitGraph, HeadsAttached,
                             RowsetsOwned, StagedDeletesRecorded, CommitsOf, CommitIds
<1>2. RepositoryInv /\ [Next]_vars => RepositoryInv'
  BY NextKeepsInv
<1>3. QED
  BY <1>1, <1>2, PTL DEF Spec

(* The forest of commits, on its own.                                      *)
THEOREM CommitGraphSafe == Spec => []CommitGraph
<1>1. RepositoryInv => CommitGraph
  BY DEF RepositoryInv
<1>2. QED
  BY <1>1, RepositorySafe, PTL

(* No bundle is ever left in detached head state.                          *)
THEOREM HeadsAttachedSafe == Spec => []HeadsAttached
<1>1. RepositoryInv => HeadsAttached
  BY DEF RepositoryInv
<1>2. QED
  BY <1>1, RepositorySafe, PTL

(* A staged deletion always names a recorded row of its bundle.            *)
THEOREM StagedDeletesSafe == Spec => []StagedDeletesRecorded
<1>1. RepositoryInv => StagedDeletesRecorded
  BY DEF RepositoryInv
<1>2. QED
  BY <1>1, RepositorySafe, PTL

-----------------------------------------------------------------------------
(* The snapshots.                                                          *)

\* Refreshing the views from keyed tables leaves a keyed view.
LEMMA RefreshKeepsKeys ==
    ASSUME RefreshViews,
           \A f \in rowsetRowField' : \E k \in rowsetRowField' : k.rr = f.rr /\ k.field = Key
    PROVE  HeadFieldsKeyed'
<1> SUFFICES ASSUME NEW h \in headCommitField'
             PROVE  \E k \in headCommitField' : k.cell.rr = h.cell.rr /\ k.cell.field = Key
  BY DEF HeadFieldsKeyed
<1>1. /\ h.bundle \in bundles' /\ h.cell \in rowsetRowField'
      /\ [bundle |-> h.bundle, rr |-> h.cell.rr] \in headCommitRow'
  BY DEF RefreshViews
<1>2. PICK k \in rowsetRowField' : k.rr = h.cell.rr /\ k.field = Key
  BY <1>1
<1>3. [bundle |-> h.bundle, cell |-> k] \in headCommitField'
  BY <1>1, <1>2 DEF RefreshViews
<1>4. QED
  BY <1>2, <1>3

\* Steps that leave recorded rows and fields alone, and the view or its tables.
LEMMA QuietKeepsSnapshots ==
    ASSUME SnapshotsWellFormed, HeadFieldsKeyed, RowsetsOwned',
           UNCHANGED rowsetRowField, UNCHANGED headCommitField \/ RefreshViews
    PROVE  SnapshotsWellFormed' /\ HeadFieldsKeyed'
<1>1. SnapshotsWellFormed'
  BY DEF SnapshotsWellFormed
<1>2. CASE UNCHANGED headCommitField
  BY <1>1, <1>2 DEF HeadFieldsKeyed
<1>3. CASE RefreshViews
  BY <1>1, <1>3, RefreshKeepsKeys DEF SnapshotsWellFormed
<1>4. QED
  BY <1>1, <1>2, <1>3

\* Deleting commits takes whole snapshots.
LEMMA DropCommitsKeepsSnapshots ==
    ASSUME SnapshotsWellFormed, HeadFieldsKeyed, RowsetsOwned', NEW ids, DropCommits(ids),
           UNCHANGED headCommitField \/ RefreshViews
    PROVE  SnapshotsWellFormed' /\ HeadFieldsKeyed'
<1>1. rowsetRowField' = {f \in rowsetRowField : f.rr.commit \notin ids}
  BY DEF DropCommits
<1>2. SnapshotsWellFormed'
  <2>1. ASSUME NEW f \in rowsetRowField'
        PROVE  \E k \in rowsetRowField' : k.rr = f.rr /\ k.field = Key
    <3>1. PICK k \in rowsetRowField : k.rr = f.rr /\ k.field = Key
      BY <1>1 DEF SnapshotsWellFormed
    <3>2. k \in rowsetRowField'
      BY <1>1, <3>1
    <3>3. QED
      BY <3>1, <3>2
  <2>2. \A f, g \in rowsetRowField' :
            f.rr.commit = g.rr.commit /\ f.rr.row = g.rr.row /\ f.field = g.field
                => f.value = g.value
    BY <1>1 DEF SnapshotsWellFormed
  <2>3. QED
    BY <2>1, <2>2 DEF SnapshotsWellFormed
<1>3. CASE UNCHANGED headCommitField
  BY <1>2, <1>3 DEF HeadFieldsKeyed
<1>4. CASE RefreshViews
  BY <1>2, <1>4, RefreshKeepsKeys DEF SnapshotsWellFormed
<1>5. QED
  BY <1>2, <1>3, <1>4

\* A head field contributes to view stage_row_field, changed or not.
LEMMA OverridesAny ==
    ASSUME NEW h
    PROVE  Overrides(h) # {}
<1> DEFINE changes == {c \in stageFieldChanged :
                          c.row = h.cell.rr.row /\ c.field = h.cell.field}
<1>1. CASE changes = {}
  BY <1>1 DEF Overrides
<1>2. CASE changes # {}
  <2>1. PICK c \in changes : TRUE
    BY <1>2
  <2>2. [bundle |-> c.bundle, value |-> c.value] \in Overrides(h)
    BY <1>2, <2>1 DEF Overrides
  <2>3. QED
    BY <2>2
<1>3. QED
  BY <1>1, <1>2

\* A row that the view gives any field gets its key from it.
LEMMA StagedFieldsKeyed ==
    ASSUME HeadFieldsKeyed, NEW r \in Rows, NEW f \in Fields, StageRowField(r, f) # {}
    PROVE  StageRowField(r, Key) # {}
<1> DEFINE old == {s.bundle : s \in {t \in StageRow : t.row = r /\ ~t.new}}
           hcf(g) == {h \in headCommitField : h.cell.rr.row = r /\ h.cell.field = g}
           added(g) == {[from |-> <<s.bundle>>, value |-> Literal(r, g)] :
                           s \in {t \in stageRowAdded : t.row = r}}
           one(b, h) == {[from |-> <<b, h.bundle, h.cell.rr, o.bundle>>, value |-> o.value] :
                           o \in Overrides(h)}
           kept(g) == UNION {UNION {one(b, h) : h \in hcf(g)} : b \in old}
<1>a. \A g : StageRowField(r, g) = added(g) \cup kept(g)
  BY DEF StageRowField
<1> HIDE DEF old
<1>1. CASE \E s \in stageRowAdded : s.row = r
  <2>1. PICK s \in stageRowAdded : s.row = r
    BY <1>1
  <2>2. [from |-> <<s.bundle>>, value |-> Literal(r, Key)] \in added(Key)
    BY <2>1
  <2>3. QED
    BY <1>a, <2>2
<1>2. CASE \E b \in old : \E h \in hcf(f) : TRUE
  <2>1. PICK b \in old, h \in hcf(f) : TRUE
    BY <1>2
  <2>2. PICK k \in headCommitField : k.cell.rr = h.cell.rr /\ k.cell.field = Key
    BY <2>1 DEF HeadFieldsKeyed
  <2>3. k \in hcf(Key)
    BY <2>1, <2>2
  <2>4. PICK o \in Overrides(k) : TRUE
    BY OverridesAny
  <2>5. one(b, k) # {}
    BY <2>4
  <2>6. one(b, k) \subseteq kept(Key)
    <3> HIDE DEF one, hcf
    <3>1. QED
      BY <2>1, <2>3
  <2>7. QED
    BY <1>a, <2>5, <2>6
<1>3. added(f) # {} => \E s \in stageRowAdded : s.row = r
  OBVIOUS
<1>4. kept(f) # {} => \E b \in old : \E h \in hcf(f) : TRUE
  <2> HIDE DEF one, hcf
  <2>1. QED
    OBVIOUS
<1>5. QED
  BY <1>a, <1>1, <1>2, <1>3, <1>4

\* A commit records its rows with their keys, and each field once.
LEMMA CommitBundleKeepsSnapshots ==
    ASSUME RepositoryInv, SnapshotsWellFormed, HeadFieldsKeyed, RowsetsOwned',
           NEW b \in Bundles, CommitBundle(b)
    PROVE  SnapshotsWellFormed' /\ HeadFieldsKeyed'
<1> DEFINE id == created + 1
           newRows == {[commit |-> id, row |-> s.row, new |-> s.new] :
                          s \in {t \in StageRow : t.bundle = b}}
           newFields == UNION {UNION {{[rr |-> rr, field |-> f, value |-> x.value] :
                          x \in StageRowField(rr.row, f)} : f \in Fields} : rr \in newRows}
<1>1. rowsetRowField' = rowsetRowField \cup newFields /\ FieldsUnique(newRows) /\ RefreshViews
  BY DEF CommitBundle
<1>2. \A rr \in newRows : rr.commit = id /\ rr.row \in Rows
  BY StageRowTyped DEF RepositoryInv
<1> HIDE DEF newRows
<1>3. ASSUME NEW g \in newFields
      PROVE  /\ g.rr \in newRows /\ g.field \in Fields
             /\ \E x \in StageRowField(g.rr.row, g.field) : x.value = g.value
  BY <1>3
<1>4. ASSUME NEW rr \in newRows, NEW f \in Fields, NEW x \in StageRowField(rr.row, f)
      PROVE  [rr |-> rr, field |-> f, value |-> x.value] \in newFields
  BY <1>4
<1> HIDE DEF newFields
<1>5. ASSUME NEW g \in newFields
      PROVE  \E k \in newFields : k.rr = g.rr /\ k.field = Key
  <2>1. g.rr.row \in Rows /\ StageRowField(g.rr.row, Key) # {}
    BY <1>2, <1>3, StagedFieldsKeyed
  <2>2. PICK x \in StageRowField(g.rr.row, Key) : TRUE
    BY <2>1
  <2>3. [rr |-> g.rr, field |-> Key, value |-> x.value] \in newFields
    BY <1>3, <1>4, <2>2 DEF Fields
  <2>4. QED
    BY <2>3
<1>6. \A f \in rowsetRowField' : \E k \in rowsetRowField' : k.rr = f.rr /\ k.field = Key
  BY <1>1, <1>5 DEF SnapshotsWellFormed
<1>7. ASSUME NEW f \in rowsetRowField', NEW g \in rowsetRowField',
             f.rr.commit = g.rr.commit, f.rr.row = g.rr.row, f.field = g.field
      PROVE  f.value = g.value
  <2>1. \A x \in rowsetRowField : x.rr.commit # id
    BY FreshId
  <2>2. \A x \in newFields : x.rr.commit = id
    BY <1>2, <1>3
  <2>3. CASE f \in newFields /\ g \in newFields
    <3>1. PICK x \in StageRowField(f.rr.row, f.field) : x.value = f.value
      BY <1>3, <2>3
    <3>2. PICK y \in StageRowField(g.rr.row, g.field) : y.value = g.value
      BY <1>3, <2>3
    <3>3. f.rr \in newRows /\ f.field \in Fields
      BY <1>3, <2>3
    <3>4. x = y
      BY <1>1, <1>7, <3>1, <3>2, <3>3 DEF FieldsUnique
    <3>5. QED
      BY <3>1, <3>2, <3>4
  <2>4. CASE f \in rowsetRowField /\ g \in rowsetRowField
    BY <1>7, <2>4 DEF SnapshotsWellFormed
  <2>5. QED
    BY <1>1, <1>7, <2>1, <2>2, <2>3, <2>4
<1>8. QED
  BY <1>1, <1>6, <1>7, RefreshKeepsKeys DEF SnapshotsWellFormed

\* Blobs are never deleted, and a commit stores those of its fields.
LEMMA NextKeepsValues ==
    ASSUME ValuesStored, [Next]_vars
    PROVE  ValuesStored'
<1>1. CASE \E b \in Bundles : CommitBundle(b)
  BY <1>1 DEF CommitBundle, ValuesStored
<1>2. ASSUME rowsetRowField' \subseteq rowsetRowField, blob' = blob
      PROVE  ValuesStored'
  BY <1>2 DEF ValuesStored
<1>3. CASE WorkingCopy \/ Staging \/ UNCHANGED vars
  <2>1. UNCHANGED repo
    <3>1. CASE WorkingCopy
      BY <3>1 DEF WorkingCopy, InsertRow, DeleteRow, UpdateField
    <3>2. CASE Staging
      BY <3>2 DEF Staging, TrackedRowAdd, UntrackRow, StageRowAdd, UnstageRowAdd,
         StageRowDelete, UnstageRowDelete, StageFieldChange, UnstageFieldChange
    <3>3. CASE UNCHANGED vars
      BY <3>3 DEF vars
    <3>4. QED
      BY <1>3, <3>1, <3>2, <3>3
  <2>2. QED
    BY <1>2, <2>1 DEF repo
<1>m. CASE \E b \in Bundles, id \in CommitId : Merge(b, id)
  BY <1>2, <1>m, MergeIsQuiet DEF repo
<1>4. CASE Repository
  BY <1>1, <1>2, <1>m, <1>4 DEF Repository, BundleCreate, BundleDelete, CommitUnknown,
     CommitDelete, Checkout, CheckoutDelete, DropCommits
<1>5. QED
  BY <1>3, <1>4 DEF Next

\* Every step keeps the snapshots well formed.
LEMMA NextKeepsSnapshots ==
    ASSUME SnapshotInv, [Next]_vars
    PROVE  SnapshotInv'
<1>1. /\ RepositoryInv /\ RepositoryInv' /\ ValuesStored'
      /\ SnapshotsWellFormed /\ HeadFieldsKeyed
  BY NextKeepsInv, NextKeepsValues DEF SnapshotInv
<1>2. RowsetsOwned'
  BY <1>1 DEF RepositoryInv
<1>3. CASE \E b \in Bundles : CommitBundle(b)
  BY <1>1, <1>2, <1>3, CommitBundleKeepsSnapshots DEF SnapshotInv
<1>4. CASE \E b \in Bundles : BundleDelete(b)
  BY <1>1, <1>2, <1>4, DropCommitsKeepsSnapshots DEF SnapshotInv, BundleDelete, views
<1>5. CASE \E id \in CommitId : CommitDelete(id)
  BY <1>1, <1>2, <1>5, DropCommitsKeepsSnapshots DEF SnapshotInv, CommitDelete
<1>6. CASE CommitUnknown
  BY <1>1, <1>2, <1>6, QuietKeepsSnapshots DEF SnapshotInv, CommitUnknown
<1>7. CASE UNCHANGED <<rowsetRowField, headCommitField>>
  BY <1>1, <1>2, <1>7, QuietKeepsSnapshots DEF SnapshotInv
<1>8. CASE WorkingCopy \/ Staging \/ UNCHANGED vars
  <2>1. UNCHANGED <<rowsetRowField, headCommitField>>
    <3>1. UNCHANGED repo /\ UNCHANGED views
      <4>1. CASE WorkingCopy
        BY <4>1 DEF WorkingCopy, InsertRow, DeleteRow, UpdateField
      <4>2. CASE Staging
        BY <4>2 DEF Staging, TrackedRowAdd, UntrackRow, StageRowAdd, UnstageRowAdd,
           StageRowDelete, UnstageRowDelete, StageFieldChange, UnstageFieldChange
      <4>3. CASE UNCHANGED vars
        BY <4>3 DEF vars
      <4>4. QED
        BY <1>8, <4>1, <4>2, <4>3
    <3>2. QED
      BY <3>1 DEF repo, views
  <2>2. QED
    BY <1>7, <2>1
<1>9. CASE \/ \E b \in Bundles : BundleCreate(b)
           \/ \E b \in Bundles, id \in CommitId : Checkout(b, id) \/ CheckoutDelete(b, id)
  BY <1>7, <1>9 DEF BundleCreate, Checkout, CheckoutDelete, views
<1>10. CASE \E b \in Bundles, id \in CommitId : Merge(b, id)
  BY <1>7, <1>10, MergeIsQuiet DEF repo, views
<1>11. QED
  BY <1>3, <1>4, <1>5, <1>6, <1>8, <1>9, <1>10 DEF Next, Repository

\* The inductive invariant of the snapshots holds throughout.
THEOREM SnapshotsInvariant == Spec => []SnapshotInv
<1>1. Init => SnapshotInv
  BY ConstantsAssumption DEF Init, SnapshotInv, RepositoryInv, TypeOK, CommitGraph,
     HeadsAttached, RowsetsOwned, StagedDeletesRecorded, CommitsOf, CommitIds,
     SnapshotsWellFormed, HeadFieldsKeyed, ValuesStored
<1>2. SnapshotInv /\ [Next]_vars => SnapshotInv'
  BY NextKeepsSnapshots
<1>3. QED
  BY <1>1, <1>2, PTL DEF Spec

(* Every commit stays usable as a snapshot: its fields belong to its rows, *)
(* agree between the copies of a row, and include the row's key, also when *)
(* the commit was made from a view of some earlier head.                   *)
THEOREM SnapshotsSafe == Spec => []SnapshotsWellFormed
<1>1. SnapshotInv => SnapshotsWellFormed
  BY DEF SnapshotInv
<1>2. QED
  BY <1>1, SnapshotsInvariant, PTL

-----------------------------------------------------------------------------
(* What a commit and a checkout do.                                        *)

\* The number of commits made grows in commit() only.
LEMMA OnlyCommitsCount ==
    ASSUME [Next]_vars, created' # created
    PROVE  CommitUnknown \/ \E b \in Bundles : CommitBundle(b)
<1>1. CASE UNCHANGED repo
  BY <1>1 DEF repo
<1>2. CASE WorkingCopy
  BY <1>1, <1>2 DEF WorkingCopy, InsertRow, DeleteRow, UpdateField
<1>3. CASE Staging
  <2>1. UNCHANGED repo
    BY <1>3 DEF Staging, TrackedRowAdd, UntrackRow, StageRowAdd, UnstageRowAdd, StageRowDelete,
                UnstageRowDelete, StageFieldChange, UnstageFieldChange
  <2>2. QED
    BY <1>1, <2>1
<1>4. CASE \E b \in Bundles, id \in CommitId : Merge(b, id)
  BY <1>1, <1>4, MergeIsQuiet
<1>5. CASE Repository
  BY <1>4, <1>5 DEF Repository, BundleCreate, BundleDelete, CommitDelete, Checkout,
                    CheckoutDelete
<1>6. CASE UNCHANGED vars
  BY <1>1, <1>6 DEF vars
<1>7. QED
  BY <1>2, <1>3, <1>5, <1>6 DEF Next

\* Only a commit to b gives b the newest commit as its head.
LEMMA CommittedIsCommit ==
    ASSUME RepositoryInv, [Next]_vars, NEW b \in Bundles, Committed(b)
    PROVE  CommitBundle(b)
<1>1. CommitUnknown \/ \E x \in Bundles : CommitBundle(x)
  BY OnlyCommitsCount DEF Committed
<1>2. created' = created + 1 /\ created + 1 \in CommitId /\ head'[b] = created + 1
  <2>1. created' = created + 1 /\ created < MaxCommits
    BY <1>1 DEF CommitBundle, CommitUnknown
  <2>2. created + 1 \in CommitId
    BY <2>1, ConstantsAssumption DEF RepositoryInv, TypeOK, CommitId
  <2>3. QED
    BY <2>1, <2>2 DEF Committed
<1>3. head[b] # created + 1
  <2>1. CASE head[b] = None
    BY <1>2, <2>1, ConstantsAssumption
  <2>2. CASE head[b] # None
    <3>1. PICK c \in commit : c.id = head[b]
      BY <2>2 DEF RepositoryInv, HeadsAttached, CommitsOf
    <3>2. QED
      BY <3>1, FreshId
  <2>3. QED
    BY <2>1, <2>2
<1>4. CASE CommitUnknown
  BY <1>2, <1>3, <1>4 DEF CommitUnknown
<1>5. CASE \E x \in Bundles : CommitBundle(x)
  <2>1. PICK x \in Bundles : CommitBundle(x)
    BY <1>5
  <2>2. head' = [head EXCEPT ![x] = created + 1]
    BY <2>1 DEF CommitBundle
  <2>3. x = b
    BY <1>2, <1>3, <2>2 DEF RepositoryInv, TypeOK
  <2>4. QED
    BY <2>1, <2>3
<1>6. QED
  BY <1>1, <1>4, <1>5

(* Whatever was stale before, after a commit both views show the heads and *)
(* the committer's stage is its head.                                      *)
THEOREM CommitsSettle == Spec => CommitSettles
<1>1. ASSUME RepositoryInv, [Next]_vars, NEW b \in Bundles, Committed(b)
      PROVE  /\ ViewsCurrent'
             /\ {s.row : s \in {t \in StageRow : t.bundle = b}}' = HeadRows(b)'
             /\ \A c \in stageFieldChanged' : c.bundle # b
  <2>1. CommitBundle(b)
    BY <1>1, CommittedIsCommit
  <2>2. RepositoryInv'
    BY <1>1, NextKeepsInv
  <2>3. /\ RefreshViews /\ b \in bundles'
        /\ \A s \in stageRowAdded' : s.bundle # b
        /\ \A d \in stageRowDeleted' : d.bundle # b
        /\ \A c \in stageFieldChanged' : c.bundle # b
    BY <2>1 DEF CommitBundle
  <2>4. ViewsCurrent'
    <3>1. \A f \in rowsetRowField' : f.rr \in rowsetRow'
      BY <2>2 DEF RepositoryInv, RowsetsOwned
    <3>2. headCommitRow' = {x \in [bundle : bundles', rr : rowsetRow'] :
                               head'[x.bundle] = x.rr.commit}
      BY <2>3 DEF RefreshViews
    <3>3. ASSUME NEW y \in [bundle : bundles', cell : rowsetRowField']
          PROVE  [bundle |-> y.bundle, rr |-> y.cell.rr] \in headCommitRow'
                    <=> head'[y.bundle] = y.cell.rr.commit
      BY <3>1, <3>2
    <3>4. headCommitField' = {y \in [bundle : bundles', cell : rowsetRowField'] :
                                 head'[y.bundle] = y.cell.rr.commit}
      BY <2>3, <3>3 DEF RefreshViews
    <3>5. QED
      BY <3>2, <3>4 DEF ViewsCurrent
  <2>5. {s.row : s \in {t \in StageRow : t.bundle = b}}' = HeadRows(b)'
    <3>1. ASSUME NEW s \in StageRow', s.bundle = b
          PROVE  s.row \in HeadRows(b)'
      BY <2>3, <3>1 DEF StageRow
    <3>2. ASSUME NEW r \in HeadRows(b)'
          PROVE  \E s \in StageRow' : s.bundle = b /\ s.row = r
      <4>1. r \in Rows
        BY <2>2 DEF RepositoryInv, TypeOK, HeadRows, RowsetOf, RowsetRow
      <4>2. [bundle |-> b, row |-> r, new |-> FALSE] \in StageRow'
        BY <2>3, <4>1 DEF StageRow
      <4>3. QED
        BY <4>2
    <3>3. QED
      BY <3>1, <3>2
  <2>6. QED
    BY <2>3, <2>4, <2>5
<1>2. RepositoryInv /\ [Next]_vars =>
        [\A b \in Bundles : Committed(b) =>
          /\ ViewsCurrent'
          /\ {s.row : s \in {t \in StageRow : t.bundle = b}}' = HeadRows(b)'
          /\ \A c \in stageFieldChanged' : c.bundle # b]_vars
  BY <1>1
<1>3. QED
  BY <1>2, RepositorySafe, PTL DEF Spec, CommitSettles

\* A checkout of a complete commit restores it, and touches only what it must.
LEMMA CheckoutIsRestore ==
    ASSUME RepositoryInv, NEW b \in Bundles, NEW id \in CommitId, Checkout(b, id)
    PROVE  /\ Complete(id) => WorkingCopyIs(id)'
           /\ \A r \in Rows :
                LET before == {rr.row : rr \in RowsetOf(checkedOut[b])}
                    now    == {rr.row : rr \in RowsetOf(id)}
                IN  /\ r \in before \ now => db'[r] = Absent
                    /\ r \notin before \cup now => db'[r] = db[r]
<1> DEFINE before == {rr.row : rr \in RowsetOf(checkedOut[b])}
           now    == {rr.row : rr \in RowsetOf(id)}
           gone   == CheckoutRows(b, checkedOut[b])
           present(r) == r \notin gone /\ db[r] # Absent
<1>1. /\ rowsetRow' = rowsetRow /\ rowsetRowField' = rowsetRowField
      /\ db' = [r \in Rows |-> IF RecordedFields(id, r) # {}
                               THEN RestoredRow(id, r, present(r))
                               ELSE IF r \in gone THEN Absent ELSE db[r]]
  BY DEF Checkout
<1>2. gone = before
  <2>1. CASE checkedOut[b] = None
    <3>1. RowsetOf(checkedOut[b]) = {}
      BY <2>1, ConstantsAssumption DEF RepositoryInv, TypeOK, RowsetOf, RowsetRow
    <3>2. QED
      BY <3>1 DEF CheckoutRows
  <2>2. CASE checkedOut[b] # None
    <3>1. checkedOut[b] \in CommitsOf(b)
      BY <2>2 DEF RepositoryInv, HeadsAttached
    <3>2. QED
      BY <3>1 DEF CheckoutRows
  <2>3. QED
    BY <2>1, <2>2
<1>3. ASSUME NEW r \in Rows, r \notin now
      PROVE  RecordedFields(id, r) = {}
  BY <1>3 DEF RepositoryInv, RowsetsOwned, RecordedFields, RowsetOf
<1>4. ASSUME NEW r \in Rows
      PROVE  /\ r \in before \ now => db'[r] = Absent
             /\ r \notin before \cup now => db'[r] = db[r]
  BY <1>1, <1>2, <1>3
<1>5. ASSUME Complete(id), NEW rr \in RowsetOf(id)
      PROVE  /\ db'[rr.row] # Absent
             /\ \A c \in Columns :
                   \E f \in RecordedFields(id, rr.row) : f.field = c /\ f.value = db'[rr.row][c]
  <2> DEFINE r == rr.row
             vals(c) == {f.value : f \in {g \in RecordedFields(id, r) : g.field = c}}
  <2>1. r \in Rows /\ RecordedFields(id, r) # {}
    BY <1>5 DEF RepositoryInv, TypeOK, RowsetOf, RowsetRow, Complete, Fields
  <2>2. db'[r] = RestoredRow(id, r, present(r))
    BY <1>1, <2>1
  <2>3. RestoredRow(id, r, present(r)) \in [Columns -> Contents]
    BY <2>1, RestoredRowTyped DEF RepositoryInv
  <2>4. db'[r] # Absent
    BY <2>2, <2>3, ConstantsAssumption
  <2>5. ASSUME NEW c \in Columns
        PROVE  \E f \in RecordedFields(id, r) : f.field = c /\ f.value = db'[r][c]
    <3>1. PICK g \in RecordedFields(id, r) : g.field = c
      BY <1>5 DEF Complete, Fields
    <3>2. g.value \in vals(c)
      BY <3>1
    <3>3. db'[r][c] = CHOOSE v \in vals(c) : TRUE
      BY <2>2, <3>2 DEF RestoredRow
    <3>4. db'[r][c] \in vals(c)
      BY <3>2, <3>3
    <3>5. QED
      BY <3>4
  <2>6. QED
    BY <2>4, <2>5
<1>6. RowsetOf(id)' = RowsetOf(id) /\ \A r : RecordedFields(id, r)' = RecordedFields(id, r)
  BY <1>1 DEF RowsetOf, RecordedFields
<1>7. Complete(id) => WorkingCopyIs(id)'
  BY <1>5, <1>6 DEF WorkingCopyIs
<1>8. QED
  BY <1>4, <1>7

(* Checking out a completely recorded commit restores it for any tables    *)
(* and any history, and leaves every row of no concern alone.              *)
THEOREM CheckoutsRestore == Spec => CheckoutRestores
<1>1. RepositoryInv /\ [Next]_vars =>
        [\A b \in Bundles, id \in CommitId : Checkout(b, id) =>
          /\ Complete(id) => WorkingCopyIs(id)'
          /\ \A r \in Rows :
                LET before == {rr.row : rr \in RowsetOf(checkedOut[b])}
                    now    == {rr.row : rr \in RowsetOf(id)}
                IN  /\ r \in before \ now => db'[r] = Absent
                    /\ r \notin before \cup now => db'[r] = db[r]]_vars
  BY CheckoutIsRestore
<1>2. QED
  BY <1>1, RepositorySafe, PTL DEF Spec, CheckoutRestores

-----------------------------------------------------------------------------
(* What a commit holds.                                                    *)

\* The rows and fields that a commit to b adds.
NewRows(b) == {[commit |-> created + 1, row |-> s.row, new |-> s.new] :
                  s \in {t \in StageRow : t.bundle = b}}
NewFields(b) == UNION {UNION {{[rr |-> rr, field |-> f, value |-> x.value] :
                  x \in StageRowField(rr.row, f)} : f \in Fields} : rr \in NewRows(b)}

\* The newest commit has fields for row r iff its bundle's stage has the row,
\* and then all that the view has.
LEMMA RecordedByCommit ==
    ASSUME RepositoryInv, NEW b \in Bundles, CommitBundle(b), NEW r \in Rows
    PROVE  /\ (\A s \in StageRow : s.bundle = b => s.row # r)
                  => RecordedFields(created, r)' = {}
           /\ \A g \in RecordedFields(created, r)' :
                 /\ g.field \in Fields
                 /\ \E x \in StageRowField(r, g.field) : x.value = g.value
           /\ (\E s \in StageRow : s.bundle = b /\ s.row = r)
                  => \A f \in Fields : \A x \in StageRowField(r, f) :
                        \E g \in RecordedFields(created, r)' : g.field = f /\ g.value = x.value
<1>1. rowsetRowField' = rowsetRowField \cup NewFields(b) /\ created' = created + 1
  BY DEF CommitBundle, NewRows, NewFields
<1>2. \A rr \in NewRows(b) : rr.commit = created + 1
  BY DEF NewRows
<1>3. \A g \in NewFields(b) : /\ g.rr \in NewRows(b) /\ g.field \in Fields
                              /\ \E x \in StageRowField(g.rr.row, g.field) : x.value = g.value
  BY DEF NewFields
<1>4. ASSUME NEW rr \in NewRows(b), NEW f \in Fields, NEW x \in StageRowField(rr.row, f)
      PROVE  [rr |-> rr, field |-> f, value |-> x.value] \in NewFields(b)
  BY <1>4 DEF NewFields
<1>5. RecordedFields(created, r)' = {g \in NewFields(b) : g.rr.row = r}
  BY <1>1, <1>2, <1>3, FreshId DEF RecordedFields
<1>6. ASSUME \A s \in StageRow : s.bundle = b => s.row # r
      PROVE  RecordedFields(created, r)' = {}
  <2>1. \A rr \in NewRows(b) : rr.row # r
    BY <1>6 DEF NewRows
  <2>2. QED
    BY <1>3, <1>5, <2>1
<1>7. ASSUME NEW s \in StageRow, s.bundle = b, s.row = r,
             NEW f \in Fields, NEW x \in StageRowField(r, f)
      PROVE  \E g \in RecordedFields(created, r)' : g.field = f /\ g.value = x.value
  <2> DEFINE rr == [commit |-> created + 1, row |-> s.row, new |-> s.new]
             g  == [rr |-> rr, field |-> f, value |-> x.value]
  <2>1. rr \in NewRows(b) /\ rr.row = r
    BY <1>7 DEF NewRows
  <2>2. g \in NewFields(b)
    BY <1>4, <1>7, <2>1
  <2>3. g \in RecordedFields(created, r)'
    BY <1>5, <2>1, <2>2
  <2>4. QED
    BY <2>3
<1>8. ASSUME NEW g \in RecordedFields(created, r)'
      PROVE  /\ g.field \in Fields
             /\ \E x \in StageRowField(r, g.field) : x.value = g.value
  BY <1>3, <1>5, <1>8
<1>9. QED
  BY <1>6, <1>7, <1>8

\* Rows of b that are staged as added, staged as deleted, or neither.
LEMMA StagedRows ==
    ASSUME RepositoryInv, NEW b \in bundles, NEW r \in Rows
    PROVE  (\E s \in StageRow : s.bundle = b /\ s.row = r) <=>
               \/ [bundle |-> b, row |-> r] \in stageRowAdded
               \/ /\ r \in HeadRows(b)
                  /\ \A d \in stageRowDeleted : ~(d.bundle = b /\ d.rr.row = r)
<1>1. ASSUME [bundle |-> b, row |-> r] \in stageRowAdded
      PROVE  [bundle |-> b, row |-> r, new |-> TRUE] \in StageRow
  BY <1>1 DEF StageRow
<1>2. ASSUME r \in HeadRows(b), \A d \in stageRowDeleted : ~(d.bundle = b /\ d.rr.row = r)
      PROVE  [bundle |-> b, row |-> r, new |-> FALSE] \in StageRow
  BY <1>2 DEF StageRow
<1>3. ASSUME NEW s \in StageRow, s.bundle = b, s.row = r
      PROVE  \/ [bundle |-> b, row |-> r] \in stageRowAdded
             \/ /\ r \in HeadRows(b)
                /\ \A d \in stageRowDeleted : ~(d.bundle = b /\ d.rr.row = r)
  BY <1>3 DEF StageRow
<1>4. QED
  BY <1>1, <1>2, <1>3

\* What the view has for a row that b stages as added: the live value.
LEMMA AddedFields ==
    ASSUME NEW b, NEW r, NEW f, [bundle |-> b, row |-> r] \in stageRowAdded
    PROVE  \E x \in StageRowField(r, f) : x.value = Literal(r, f)
<1> DEFINE s == [bundle |-> b, row |-> r]
           x == [from |-> <<s.bundle>>, value |-> Literal(r, f)]
<1>1. s \in {t \in stageRowAdded : t.row = r}
  OBVIOUS
<1>2. x \in {[from |-> <<t.bundle>>, value |-> Literal(r, f)] :
                t \in {u \in stageRowAdded : u.row = r}}
  BY <1>1
<1>3. x \in StageRowField(r, f)
  BY <1>2 DEF StageRowField
<1>4. QED
  BY <1>3

\* What it has for a field of b's head: each override of the recorded value.
LEMMA KeptFields ==
    ASSUME ViewsCurrent, RepositoryInv, NEW b \in bundles, NEW r \in Rows,
           NEW s \in StageRow, s.bundle = b, s.row = r, ~s.new,
           NEW g \in RecordedFields(head[b], r)
    PROVE  /\ [bundle |-> b, cell |-> g] \in headCommitField
           /\ \A o \in Overrides([bundle |-> b, cell |-> g]) :
                 \E x \in StageRowField(r, g.field) : x.value = o.value
<1> DEFINE h == [bundle |-> b, cell |-> g]
           old == {t.bundle : t \in {u \in StageRow : u.row = r /\ ~u.new}}
           hcf == {k \in headCommitField : k.cell.rr.row = r /\ k.cell.field = g.field}
           one(c, k) == {[from |-> <<c, k.bundle, k.cell.rr, o.bundle>>, value |-> o.value] :
                            o \in Overrides(k)}
           kept == UNION {UNION {one(c, k) : k \in hcf} : c \in old}
<1>1. h \in headCommitField /\ h \in hcf /\ b \in old
  BY DEF ViewsCurrent, RecordedFields
<1>2. kept \subseteq StageRowField(r, g.field)
  BY DEF StageRowField
<1>3. one(b, h) \subseteq kept
  <2> HIDE DEF one, hcf, old
  <2>1. QED
    BY <1>1
<1>4. ASSUME NEW o \in Overrides(h)
      PROVE  \E x \in one(b, h) : x.value = o.value
  <2>1. [from |-> <<b, h.bundle, h.cell.rr, o.bundle>>, value |-> o.value] \in one(b, h)
    BY <1>4
  <2>2. QED
    BY <2>1
<1>5. QED
  BY <1>1, <1>2, <1>3, <1>4

\* All it has: additions and head fields, of any bundle.
LEMMA FieldSources ==
    ASSUME NEW r, NEW f, NEW x \in StageRowField(r, f)
    PROVE  \/ \E s \in stageRowAdded : s.row = r
           \/ \E h \in headCommitField : h.cell.rr.row = r /\ h.cell.field = f
  BY DEF StageRowField

\* What is promised for field g of row r of b's head.
PromiseFor(b, r, g) ==
    LET mine == {c \in stageFieldChanged : c.bundle = b /\ c.row = r /\ c.field = g.field}
    IN  IF mine = {} THEN {<<g.field, g.value>>} ELSE {<<g.field, c.value>> : c \in mine}

\* If all staged changes are b's, the overrides of a head field are what is promised.
LEMMA OverridesPromised ==
    ASSUME ValuesStored, NEW b, NEW r \in HeadRows(b), NoForeignChange(b),
           NEW g \in RecordedFields(head[b], r)
    PROVE  PromiseFor(b, r, g) =
               {<<g.field, o.value>> : o \in Overrides([bundle |-> b, cell |-> g])}
<1> DEFINE h == [bundle |-> b, cell |-> g]
           mine == {c \in stageFieldChanged : c.bundle = b /\ c.row = r /\ c.field = g.field}
           changes == {c \in stageFieldChanged :
                          c.row = h.cell.rr.row /\ c.field = h.cell.field}
<1>1. g \in rowsetRowField /\ g.rr.row = r
  BY DEF RecordedFields
<1>2. changes = mine
  BY <1>1 DEF NoForeignChange
<1>3. CASE mine = {}
  <2>1. (IF h.cell.value \in blob THEN h.cell.value ELSE Null) = g.value
    BY <1>1 DEF ValuesStored
  <2>2. Overrides(h) = {[bundle |-> None, value |-> g.value]}
    BY <1>2, <1>3, <2>1 DEF Overrides
  <2>3. PromiseFor(b, r, g) = {<<g.field, g.value>>}
    BY <1>3 DEF PromiseFor
  <2> HIDE DEF h
  <2>4. {<<g.field, o.value>> : o \in Overrides(h)} = {<<g.field, g.value>>}
    BY <2>2
  <2>5. QED
    BY <2>3, <2>4 DEF h
<1>4. CASE mine # {}
  <2>1. Overrides(h) = {[bundle |-> c.bundle, value |-> c.value] : c \in mine}
    BY <1>2, <1>4 DEF Overrides
  <2>2. PromiseFor(b, r, g) = {<<g.field, c.value>> : c \in mine}
    BY <1>4 DEF PromiseFor
  <2> HIDE DEF h, mine
  <2>3. {<<g.field, o.value>> : o \in Overrides(h)} = {<<g.field, c.value>> : c \in mine}
    <3>1. \A o \in Overrides(h) : \E c \in mine : c.value = o.value
      BY <2>1
    <3>2. ASSUME NEW c \in mine
          PROVE  \E o \in Overrides(h) : o.value = c.value
      <4>1. [bundle |-> c.bundle, value |-> c.value] \in Overrides(h)
        BY <2>1
      <4>2. QED
        BY <4>1
    <3>3. QED
      BY <3>1, <3>2
  <2>4. QED
    BY <2>2, <2>3 DEF h
<1>5. QED
  BY <1>3, <1>4

\* A commit records for row r what head and stage promise.
LEMMA CommitIsPromise ==
    ASSUME SnapshotInv, NEW b \in Bundles, CommitBundle(b), NEW r \in Rows,
           ViewsCurrent, NoForeignChange(b), NoForeignRow(b)
    PROVE  {<<f.field, f.value>> : f \in RecordedFields(created, r)}' = PromisedFields(b, r)
<1> DEFINE rec == RecordedFields(created, r)'
           added == [bundle |-> b, row |-> r] \in stageRowAdded
           deleted == \E d \in stageRowDeleted : d.bundle = b /\ d.rr.row = r
           staged == \E s \in StageRow : s.bundle = b /\ s.row = r
           before == RecordedFields(head[b], r)
<1>1. RepositoryInv /\ ValuesStored /\ b \in bundles /\ FieldsUnique(NewRows(b))
  BY DEF SnapshotInv, CommitBundle, NewRows
<1>2. staged <=> added \/ (r \in HeadRows(b) /\ ~deleted)
  BY <1>1, StagedRows
<1>3. /\ ~staged => rec = {}
      /\ \A g \in rec : g.field \in Fields
                           /\ \E x \in StageRowField(r, g.field) : x.value = g.value
      /\ staged => \A f \in Fields : \A x \in StageRowField(r, f) :
                      \E g \in rec : g.field = f /\ g.value = x.value
  BY <1>1, RecordedByCommit
<1>4. ASSUME staged, NEW f \in Fields, NEW x \in StageRowField(r, f),
             NEW y \in StageRowField(r, f)
      PROVE  x = y
  <2>1. PICK rr \in NewRows(b) : rr.row = r
    <3>1. PICK s \in StageRow : s.bundle = b /\ s.row = r
      BY <1>4
    <3>2. [commit |-> created + 1, row |-> s.row, new |-> s.new] \in NewRows(b)
      BY <3>1 DEF NewRows
    <3>3. QED
      BY <3>1, <3>2
  <2>2. QED
    BY <1>1, <1>4, <2>1 DEF FieldsUnique
<1> HIDE DEF rec, staged
<1>5. {<<f.field, f.value>> : f \in RecordedFields(created, r)}' = {<<g.field, g.value>> : g \in rec}
  BY DEF rec
<1>6. CASE added
  <2>1. PromisedFields(b, r) = {<<f, Literal(r, f)>> : f \in Fields}
    BY <1>6 DEF PromisedFields
  <2>2. ASSUME NEW f \in Fields
        PROVE  \E x \in StageRowField(r, f) : x.value = Literal(r, f)
    BY <1>6, AddedFields
  <2>3. \A g \in rec : g.field \in Fields /\ g.value = Literal(r, g.field)
    BY <1>2, <1>3, <1>4, <1>6, <2>2
  <2>4. \A f \in Fields : \E g \in rec : g.field = f /\ g.value = Literal(r, f)
    BY <1>2, <1>3, <1>6, <2>2
  <2>5. {<<g.field, g.value>> : g \in rec} = {<<f, Literal(r, f)>> : f \in Fields}
    BY <2>3, <2>4
  <2>6. QED
    BY <1>5, <2>1, <2>5
<1>7. CASE ~added /\ deleted
  BY <1>2, <1>3, <1>5, <1>7 DEF PromisedFields
<1>8. CASE ~added /\ ~deleted
  <2>1. PromisedFields(b, r) = UNION {PromiseFor(b, r, g) : g \in before}
    BY <1>8 DEF PromisedFields, PromiseFor
  <2>2. CASE r \notin HeadRows(b)
    <3>1. before = {}
      BY <1>1, <2>2 DEF RepositoryInv, RowsetsOwned, RecordedFields, HeadRows, RowsetOf
    <3>2. rec = {}
      BY <1>2, <1>3, <1>8, <2>2
    <3>3. QED
      BY <1>5, <2>1, <3>1, <3>2
  <2>3. CASE r \in HeadRows(b)
    <3>1. staged
      BY <1>2, <1>8, <2>3
    <3>2. [bundle |-> b, row |-> r, new |-> FALSE] \in StageRow
      BY <1>1, <1>8, <2>3 DEF StageRow
    <3>3. ASSUME NEW g \in before, NEW o \in Overrides([bundle |-> b, cell |-> g])
          PROVE  \E x \in StageRowField(r, g.field) : x.value = o.value
      BY <1>1, <3>2, KeptFields
    <3>4. ASSUME NEW g \in before
          PROVE  /\ g.field \in Fields
                 /\ PromiseFor(b, r, g) =
                       {<<g.field, o.value>> : o \in Overrides([bundle |-> b, cell |-> g])}
      <4>1. g.field \in Fields
        BY <1>1 DEF RepositoryInv, TypeOK, RowsetField, RecordedFields
      <4>2. QED
        BY <1>1, <2>3, <4>1, OverridesPromised
    <3>5. ASSUME NEW g \in before, NEW p \in PromiseFor(b, r, g)
          PROVE  \E k \in rec : <<k.field, k.value>> = p
      <4>1. PICK o \in Overrides([bundle |-> b, cell |-> g]) : p = <<g.field, o.value>>
        BY <3>4, <3>5
      <4>2. PICK x \in StageRowField(r, g.field) : x.value = o.value
        BY <3>3
      <4>3. PICK k \in rec : k.field = g.field /\ k.value = x.value
        BY <1>3, <3>1, <3>4
      <4>4. QED
        BY <4>1, <4>2, <4>3
    <3>6. ASSUME NEW k \in rec
          PROVE  \E g \in before : <<k.field, k.value>> \in PromiseFor(b, r, g)
      <4>1. PICK x \in StageRowField(r, k.field) : x.value = k.value
        BY <1>3
      <4>2. \E g \in before : g.field = k.field
        <5> SUFFICES ASSUME \A g \in before : g.field # k.field
                     PROVE  FALSE
          OBVIOUS
        <5>1. Bare(b, r)
          BY <1>3 DEF Bare
        <5>2. CASE \E s \in stageRowAdded : s.row = r
          <6>1. PICK s \in stageRowAdded : s.row = r
            BY <5>2
          <6>2. s = [bundle |-> b, row |-> r]
            BY <1>1, <2>3, <5>1, <6>1 DEF NoForeignRow, RepositoryInv, TypeOK, StagedRow
          <6>3. QED
            BY <1>8, <6>1, <6>2
        <5>3. CASE \E h \in headCommitField : h.cell.rr.row = r /\ h.cell.field = k.field
          <6>1. PICK h \in headCommitField : h.cell.rr.row = r /\ h.cell.field = k.field
            BY <5>3
          <6>2. h.bundle = b
            BY <2>3, <5>1, <6>1 DEF NoForeignRow
          <6>3. h.cell \in before
            BY <6>1, <6>2 DEF ViewsCurrent, RecordedFields
          <6>4. QED
            BY <6>1, <6>3
        <5>4. QED
          BY <4>1, <5>2, <5>3, FieldSources
      <4>3. PICK g \in before : g.field = k.field
        BY <4>2
      <4>4. PICK o \in Overrides([bundle |-> b, cell |-> g]) : TRUE
        BY OverridesAny
      <4>5. PICK y \in StageRowField(r, g.field) : y.value = o.value
        BY <3>3
      <4>6. x = y
        BY <1>3, <1>4, <3>1, <4>1, <4>3, <4>5
      <4>7. <<k.field, k.value>> = <<g.field, o.value>>
        BY <4>1, <4>3, <4>5, <4>6
      <4>8. QED
        BY <3>4, <4>4, <4>7
    <3> HIDE DEF before
    <3>7. {<<g.field, g.value>> : g \in rec} = UNION {PromiseFor(b, r, g) : g \in before}
      BY <3>5, <3>6
    <3>8. QED
      BY <1>5, <2>1, <3>7
  <2>4. QED
    BY <2>2, <2>3
<1>9. QED
  BY <1>6, <1>7, <1>8

(* A commit holds the head with the bundle's own stage applied and nothing *)
(* of another bundle, under the conditions the property states.            *)
THEOREM CommitsAreStages == Spec => CommitIsStage
<1>1. ASSUME SnapshotInv, [Next]_vars, NEW b \in Bundles,
             Committed(b), ViewsCurrent, NoForeignChange(b), NoForeignRow(b)
      PROVE  RecordsPromise(b)
  <2>1. CommitBundle(b)
    BY <1>1, CommittedIsCommit DEF SnapshotInv
  <2>2. QED
    BY <1>1, <2>1, CommitIsPromise DEF RecordsPromise
<1>2. SnapshotInv /\ [Next]_vars =>
        [\A b \in Bundles :
          Committed(b) /\ ViewsCurrent /\ NoForeignChange(b) /\ NoForeignRow(b)
              => RecordsPromise(b)]_vars
  BY <1>1
<1>3. QED
  BY <1>2, SnapshotsInvariant, PTL DEF Spec, CommitIsStage

-----------------------------------------------------------------------------
(* What a merge does.                                                      *)

\* Two fields that differ between two commits of one value each.
LEMMA ChangedIffDiffer ==
    ASSUME SnapshotsWellFormed, NEW id1, NEW id2, NEW r \in Rows, NEW f \in Columns,
           NEW x \in Known(id1, r, f), NEW y \in Known(id2, r, f)
    PROVE  /\ <<r, f>> \in FieldsChanged(id1, id2) <=> x # y
           /\ \A g \in Recorded(id1, r, f) : g.value = x
<1>1. PICK g \in Recorded(id1, r, f) : g.value = x /\ x # Null
  BY DEF Known
<1>2. PICK h \in Recorded(id2, r, f) : h.value = y /\ y # Null
  BY DEF Known
<1>3. /\ \A k \in Recorded(id1, r, f) : k.value = x
      /\ \A k \in Recorded(id2, r, f) : k.value = y
  BY <1>1, <1>2 DEF SnapshotsWellFormed, Recorded
<1>4. <<r, f>> \in FieldsChanged(id1, id2) <=> x # y
  BY <1>1, <1>2, <1>3 DEF FieldsChanged
<1>5. QED
  BY <1>3, <1>4

\* A merge from base into a clean bundle is the three-way merge of the fields.
LEMMA MergeMerges ==
    ASSUME SnapshotInv, NEW b \in Bundles, NEW id \in CommitId, Merge(b, id), Clean(b)
    PROVE  \E base \in Ancestry(id) : MergedFrom(b, id, base)
<1>1. PICK base \in CommonAncestors(head[b], id) :
        LET theirs == FieldsChanged(id, base)
            safe   == theirs \ FieldsChanged(head[b], base)
            value  == [x \in theirs |-> (CHOOSE g \in Recorded(id, x[1], x[2]) : TRUE).value]
        IN  /\ db' = [r \in Rows |->
                        IF db[r] = Absent THEN Absent
                        ELSE [c \in Columns |->
                                IF <<r, c>> \in theirs THEN value[<<r, c>>] ELSE db[r][c]]]
            /\ stageFieldChanged' = stageFieldChanged \cup
                  {[bundle |-> b, row |-> x[1], field |-> x[2],
                    value |-> IF db[x[1]] = Absent THEN Null ELSE value[x]] : x \in safe}
  BY DEF Merge
<1> DEFINE theirs == FieldsChanged(id, base)
           safe   == theirs \ FieldsChanged(head[b], base)
           value  == [x \in theirs |-> (CHOOSE g \in Recorded(id, x[1], x[2]) : TRUE).value]
<1>2. base \in Ancestry(id)
  BY DEF CommonAncestors
<1>3. /\ rowsetRow' = rowsetRow /\ rowsetRowField' = rowsetRowField /\ head' = head
      /\ stageRowAdded' = stageRowAdded /\ stageRowDeleted' = stageRowDeleted
  BY DEF Merge, repo
<1>4. SnapshotsWellFormed /\ TypeOK /\ RowsetsOwned
  BY DEF SnapshotInv, RepositoryInv
<1>5. ASSUME NEW r \in Rows, NEW f \in Columns, NEW x \in Known(base, r, f),
             NEW y \in Known(head[b], r, f), NEW z \in Known(id, r, f)
      PROVE  /\ <<f, Merged(x, y, z)>> \in PromisedFields(b, r)'
             /\ db'[r][f] = IF z = x THEN y ELSE z
  <2>1. <<r, f>> \in theirs <=> z # x
    BY <1>4, <1>5, ChangedIffDiffer
  <2>2. <<r, f>> \in safe <=> z # x /\ y = x
    BY <1>4, <1>5, <2>1, ChangedIffDiffer
  <2>3. z # x => value[<<r, f>>] = z
    <3>1. \A g \in Recorded(id, r, f) : g.value = z
      BY <1>4, <1>5, ChangedIffDiffer
    <3>2. (CHOOSE g \in Recorded(id, r, f) : TRUE) \in Recorded(id, r, f)
      BY <1>5 DEF Known
    <3>3. QED
      BY <2>1, <3>1, <3>2
  <2>4. PICK g \in Recorded(head[b], r, f) : g.value = y
    BY <1>5 DEF Known
  <2>5. g \in RecordedFields(head[b], r) /\ g.field = f /\ g.rr \in RowsetOf(head[b])
                /\ g.rr.row = r
    BY <1>4, <2>4 DEF Recorded, RecordedFields, RowsetsOwned, RowsetOf
  <2>6. db[r] # Absent /\ db[r][f] = y
    <3>1. db[r] # Absent /\ \E k \in RecordedFields(head[b], r) : k.field = f /\ k.value = db[r][f]
      BY <2>5 DEF Clean, WorkingCopyIs
    <3>2. \A k \in RecordedFields(head[b], r) : k.field = f => k.value = y
      BY <1>4, <2>4, <2>5 DEF SnapshotsWellFormed, RecordedFields
    <3>3. QED
      BY <3>1, <3>2
  <2> HIDE DEF theirs, value
  <2>7. db'[r] = [c \in Columns |-> IF <<r, c>> \in theirs THEN value[<<r, c>>] ELSE db[r][c]]
    BY <1>1, <2>6 DEF theirs, value
  <2>8. db'[r][f] = IF z = x THEN y ELSE z
    BY <2>1, <2>3, <2>6, <2>7
  <2>9. stageFieldChanged' = stageFieldChanged \cup
           {[bundle |-> b, row |-> p[1], field |-> p[2],
             value |-> IF db[p[1]] = Absent THEN Null ELSE value[p]] : p \in safe}
    BY <1>1 DEF theirs, value
  <2> DEFINE mine == {c \in stageFieldChanged' : c.bundle = b /\ c.row = r /\ c.field = f}
  <2>10. /\ \A s \in stageRowAdded' : s.bundle # b
         /\ \A d \in stageRowDeleted' : d.bundle # b
         /\ \A c \in stageFieldChanged : c.bundle # b
    BY <1>3 DEF Clean
  <2>11. PromiseFor(b, r, g)' \subseteq PromisedFields(b, r)'
    <3>1. PromisedFields(b, r)' = UNION {PromiseFor(b, r, k)' : k \in RecordedFields(head[b], r)'}
      BY <2>10 DEF PromisedFields, PromiseFor
    <3>2. g \in RecordedFields(head[b], r)'
      BY <1>3, <2>5 DEF RecordedFields
    <3>3. QED
      BY <3>1, <3>2
  <2>12. PromiseFor(b, r, g)' = IF mine = {} THEN {<<f, y>>} ELSE {<<f, c.value>> : c \in mine}
    BY <2>4, <2>5 DEF PromiseFor
  <2>13. CASE z # x /\ y = x
    <3> DEFINE change == [bundle |-> b, row |-> r, field |-> f, value |-> z]
    <3>1. change \in {[bundle |-> b, row |-> p[1], field |-> p[2],
                       value |-> IF db[p[1]] = Absent THEN Null ELSE value[p]] : p \in safe}
      BY <2>2, <2>3, <2>6, <2>13
    <3>2. change \in mine
      BY <2>9, <3>1
    <3>3. <<f, z>> \in PromiseFor(b, r, g)'
      BY <2>12, <3>2
    <3>4. Merged(x, y, z) = z
      BY <2>13 DEF Merged
    <3>5. QED
      BY <2>8, <2>11, <3>3, <3>4
  <2>14. CASE ~(z # x /\ y = x)
    <3>1. ASSUME NEW c \in mine
          PROVE  FALSE
      <4>1. c \notin stageFieldChanged
        BY <2>10
      <4>2. PICK p \in safe : c.row = p[1] /\ c.field = p[2]
        BY <2>9, <4>1
      <4>3. p = <<r, f>>
        <5>1. p \in Rows \X Columns
          BY DEF theirs, FieldsChanged
        <5>2. QED
          BY <4>2, <5>1
      <4>4. QED
        BY <2>2, <2>14, <4>3
    <3>2. <<f, y>> \in PromiseFor(b, r, g)'
      BY <2>12, <3>1
    <3>3. Merged(x, y, z) = y
      BY <2>14 DEF Merged
    <3>4. QED
      BY <2>8, <2>11, <3>2, <3>3
  <2>15. QED
    BY <2>13, <2>14
<1>6. MergedFrom(b, id, base)
  BY <1>5 DEF MergedFrom
<1>7. QED
  BY <1>2, <1>6

(* A merge into a clean bundle is a three-way merge from an ancestor of    *)
(* the merged commit, for any rows, columns and values.                    *)
THEOREM MergesThreeWay == Spec => MergeIsThreeWay
<1>1. SnapshotInv /\ [Next]_vars =>
        [\A b \in Bundles, id \in CommitId :
          Clean(b) /\ Merge(b, id)
              => \E base \in Ancestry(id) : MergedFrom(b, id, base)]_vars
  BY MergeMerges
<1>2. QED
  BY <1>1, SnapshotsInvariant, PTL DEF Spec, MergeIsThreeWay

-----------------------------------------------------------------------------
(* The repository implements History.                                      *)

\* The ids of the entries are the ids of the commits.
LEMMA EntryIds == H!Ids(Entries) = CommitIds
<1>1. \A c \in commit : Entry(c) \in Entries /\ Entry(c).id = c.id
  BY DEF Entries, Entry
<1>2. \A e \in Entries : \E c \in commit : e = Entry(c)
  BY DEF Entries
<1>3. QED
  BY <1>1, <1>2 DEF H!Ids, CommitIds

\* A step that adds rows and fields of a fresh id only adds an entry.
LEMMA EntryAdded ==
    ASSUME RepositoryInv, NEW c, c.id = created + 1,
           commit' = commit \cup {c},
           rowsetRow \subseteq rowsetRow', rowsetRowField \subseteq rowsetRowField',
           \A rr \in rowsetRow' \ rowsetRow : rr.commit = created + 1,
           \A f \in rowsetRowField' \ rowsetRowField : f.rr.commit = created + 1
    PROVE  Entries' = Entries \cup {Entry(c)'}
<1>1. ASSUME NEW k \in commit
      PROVE  Entry(k)' = Entry(k)
  <2>1. k.id # created + 1
    BY FreshId
  <2>2. RowsetOf(k.id)' = RowsetOf(k.id)
    BY <2>1 DEF RowsetOf
  <2>3. {f \in rowsetRowField' : f.rr.commit = k.id} = {f \in rowsetRowField : f.rr.commit = k.id}
    BY <2>1
  <2>4. QED
    BY <2>2, <2>3 DEF Entry, Snapshot
<1>2. QED
  BY <1>1 DEF Entries

\* commit() records a snapshot.
LEMMA CommitBundleRecords ==
    ASSUME RepositoryInv, NEW b \in Bundles, CommitBundle(b)
    PROVE  H!Record(b)
<1>0. PICK c : c = [id |-> created + 1, bundle |-> b, parent |-> head[b]]
  OBVIOUS
<1>1. /\ commit' = commit \cup {c} /\ created' = created + 1
      /\ head' = [head EXCEPT ![b] = created + 1]
      /\ c.id = created + 1 /\ c.bundle = b /\ c.parent = head[b]
  BY <1>0 DEF CommitBundle
<1>2. /\ rowsetRow \subseteq rowsetRow' /\ rowsetRowField \subseteq rowsetRowField'
      /\ \A rr \in rowsetRow' \ rowsetRow : rr.commit = created + 1
  BY DEF CommitBundle
<1>3. \A f \in rowsetRowField' \ rowsetRowField : f.rr.commit = created + 1
  BY DEF CommitBundle
<1>4. Entries' = Entries \cup {Entry(c)'}
  BY <1>1, <1>2, <1>3, EntryAdded
<1>5. Entry(c)'.id = created' /\ Entry(c)'.bundle = b /\ Entry(c)'.parent = head[b]
  BY <1>1 DEF Entry
<1>6. QED
  BY <1>1, <1>4, <1>5 DEF H!Record

\* commit() of an unknown name records an orphan.
LEMMA CommitUnknownRecords ==
    ASSUME RepositoryInv, CommitUnknown
    PROVE  H!RecordOrphan
<1>0. PICK c : c = [id |-> created + 1, bundle |-> None, parent |-> None]
  OBVIOUS
<1>1. /\ commit' = commit \cup {c} /\ created' = created + 1 /\ head' = head
      /\ rowsetRow' = rowsetRow /\ rowsetRowField' = rowsetRowField
      /\ c.id = created + 1 /\ c.bundle = None /\ c.parent = None
  BY <1>0 DEF CommitUnknown
<1>2. Entries' = Entries \cup {Entry(c)'}
  BY <1>1, EntryAdded
<1>3. Entry(c)'.id = created' /\ Entry(c)'.bundle = None /\ Entry(c)'.parent = None
  BY <1>1 DEF Entry
<1>4. QED
  BY <1>1, <1>2, <1>3 DEF H!RecordOrphan

\* Deleting commits forgets their snapshots.
LEMMA DropCommitsForgets ==
    ASSUME RepositoryInv, NEW ids, Droppable(ids), DropCommits(ids), created' = created
    PROVE  H!Forget
<1>1. \A c \in commit' : c \in commit /\ c.id \notin ids
  BY DEF DropCommits
<1>2. ASSUME NEW c \in commit'
      PROVE  Entry(c)' = Entry(c)
  <2>1. RowsetOf(c.id)' = RowsetOf(c.id)
    BY <1>1 DEF RowsetOf, DropCommits
  <2>2. {f \in rowsetRowField' : f.rr.commit = c.id} = {f \in rowsetRowField : f.rr.commit = c.id}
    BY <1>1 DEF DropCommits
  <2>3. QED
    BY <2>1, <2>2 DEF Entry, Snapshot
<1>3. Entries' \subseteq Entries
  BY <1>1, <1>2 DEF Entries
<1>4. H!Ids(Entries') = CommitIds \ ids
  <2>1. H!Ids(Entries') = CommitIds'
    <3>1. \A c \in commit' : Entry(c)' \in Entries' /\ Entry(c)'.id = c.id
      BY DEF Entries, Entry
    <3>2. \A e \in Entries' : \E c \in commit' : e = Entry(c)'
      BY DEF Entries
    <3>3. QED
      BY <3>1, <3>2 DEF H!Ids, CommitIds
  <2>2. QED
    BY <2>1 DEF CommitIds, DropCommits
<1>5. ASSUME NEW e \in Entries', e.parent \in H!Ids(Entries)
      PROVE  e.parent \in H!Ids(Entries')
  <2>1. PICK c \in commit' : e = Entry(c)
    BY <1>2 DEF Entries
  <2>2. c.parent \in CommitIds /\ e.parent = c.parent
    BY <1>5, <2>1, EntryIds DEF Entry
  <2>3. c.parent \notin ids
    BY <1>1 DEF Droppable
  <2>4. QED
    BY <1>4, <2>2, <2>3
<1>6. head' = [b \in Bundles |-> IF head[b] \in H!Ids(Entries') THEN head[b] ELSE None]
  <2>1. ASSUME NEW b \in Bundles
        PROVE  (IF head[b] \in ids THEN None ELSE head[b])
                 = IF head[b] \in CommitIds \ ids THEN head[b] ELSE None
    <3>1. head[b] # None => head[b] \in CommitIds
      BY DEF RepositoryInv, HeadsAttached, CommitsOf, CommitIds
    <3>2. QED
      BY <3>1
  <2>2. QED
    BY <1>4, <2>1 DEF DropCommits
<1>7. QED
  BY <1>3, <1>5, <1>6 DEF H!Forget

\* Every other step leaves the history alone.
LEMMA QuietKeepsHistory ==
    ASSUME UNCHANGED <<commit, created, rowsetRow, rowsetRowField, head>>
    PROVE  UNCHANGED H!hvars
  BY DEF H!hvars, Entries, Entry, Snapshot, RowsetOf

\* Every step of the extension is a step of History, or none.
LEMMA StepIsHistory ==
    ASSUME RepositoryInv, [Next]_vars
    PROVE  [H!Next]_H!hvars
<1>1. CASE UNCHANGED vars
  BY <1>1, QuietKeepsHistory DEF vars, repo
<1>2. CASE WorkingCopy
  BY <1>2, QuietKeepsHistory DEF WorkingCopy, InsertRow, DeleteRow, UpdateField, repo
<1>3. CASE Staging
  <2>1. UNCHANGED repo
    BY <1>3 DEF Staging, TrackedRowAdd, UntrackRow, StageRowAdd, UnstageRowAdd, StageRowDelete,
                UnstageRowDelete, StageFieldChange, UnstageFieldChange
  <2>2. QED
    BY <2>1, QuietKeepsHistory DEF repo
<1>4. ASSUME NEW b \in Bundles, BundleCreate(b)
      PROVE  UNCHANGED H!hvars
  BY <1>4, QuietKeepsHistory DEF BundleCreate
<1>5. ASSUME NEW b \in Bundles, BundleDelete(b)
      PROVE  H!Forget
  BY <1>5, DropCommitsForgets DEF BundleDelete
<1>6. ASSUME NEW id \in CommitId, CommitDelete(id)
      PROVE  H!Forget
  BY <1>6, DropCommitsForgets DEF CommitDelete
<1>7. ASSUME NEW b \in Bundles, NEW id \in CommitId, CheckoutDelete(b, id)
      PROVE  UNCHANGED H!hvars
  BY <1>7, QuietKeepsHistory DEF CheckoutDelete
<1>8. ASSUME NEW b \in Bundles, NEW id \in CommitId, Checkout(b, id)
      PROVE  H!Select(b)
  <2>1. PICK c \in commit : c.bundle = b /\ c.id = id
    BY <1>8 DEF Checkout, CommitsOf
  <2>2. Entry(c) \in Entries /\ Entry(c).bundle = b /\ Entry(c).id = id
    BY <2>1 DEF Entries, Entry
  <2>3. head' = [head EXCEPT ![b] = id]
    BY <1>8 DEF Checkout
  <2>4. UNCHANGED <<created, Entries>>
    BY <1>8 DEF Checkout, Entries, Entry, Snapshot, RowsetOf
  <2>5. QED
    BY <2>2, <2>3, <2>4 DEF H!Select
<1>9. ASSUME NEW b \in Bundles, NEW id \in CommitId, Merge(b, id)
      PROVE  UNCHANGED H!hvars
  BY <1>9, MergeIsQuiet, QuietKeepsHistory DEF repo
<1>10. CASE Repository
  BY <1>4, <1>5, <1>6, <1>7, <1>8, <1>9, <1>10, CommitBundleRecords, CommitUnknownRecords
     DEF Repository, H!Next
<1>11. QED
  BY <1>1, <1>2, <1>3, <1>10 DEF Next

(* The bundle extension implements History: no sequence of its calls       *)
(* changes a commit once it is made, records one under anything but its    *)
(* bundle's head, or deletes one that has a child.                         *)
THEOREM Refinement == Spec => ImplementsHistory
<1>1. Init => H!Init
  BY DEF Init, H!Init, Entries
<1>2. RepositoryInv /\ [Next]_vars => [H!Next]_H!hvars
  BY StepIsHistory
<1>3. QED
  BY <1>1, <1>2, RepositorySafe, PTL DEF Spec, H!Spec, ImplementsHistory
=============================================================================
