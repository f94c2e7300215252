---------------------------- MODULE BundleStatus ----------------------------
(***************************************************************************)
(* The views of extensions/bundle/000-data_model.sql that compare the      *)
(* working copy, the stage and the head: what a user is shown as changed.  *)
(* They hold no state; a row of a view is a record of what is told apart.  *)
(***************************************************************************)
EXTENDS BundleProperties

\* offstage_field_changed: `!=' shows no change from or to null, and a change
\* that any bundle has staged is skipped.
OffstageFieldChanged ==
    {h \in headCommitField :
        /\ h.cell.value \in blob
        /\ Literal(h.cell.rr.row, h.cell.field) \notin {h.cell.value, Null}
        /\ \A c \in stageFieldChanged : ~(c.row = h.cell.rr.row /\ c.field = h.cell.field)}

\* Broken variant of Modified: staged changes are forgotten.
ModifiedOffstage(x) ==
    \E h \in OffstageFieldChanged : h.bundle = x.bundle /\ h.cell.rr.row = x.rr.row

\* A row of the head is modified if a field is, or any bundle has staged one.
Modified(x) ==
    \/ \E h \in OffstageFieldChanged : h.bundle = x.bundle /\ h.cell.rr.row = x.rr.row
    \/ \E c \in stageFieldChanged : c.row = x.rr.row

\* The change_type of a row of head_commit_row; the join with stage_row is by row only.
ChangeType(x) ==
    IF \A s \in StageRow : s.row # x.rr.row THEN "deleted"
    ELSE IF Modified(x) THEN "modified"
    ELSE IF db[x.rr.row] = Absent THEN "deleted" ELSE "same"

\* head_db_stage: the head's rows, the stage's that are in no head, the tracked ones.
HeadDbStage ==
    LET inHead == {x \in headCommitRow : x.bundle \in bundles}
        added  == {s \in StageRow : \A x \in inHead : x.rr.row # s.row}
    IN  {[bundle |-> x.bundle, row |-> x.rr.row, type |-> ChangeType(x)] : x \in inHead}
        \cup {[bundle |-> s.bundle, row |-> s.row, type |-> "added"] : s \in added}
        \cup {[bundle |-> t.bundle, row |-> t.row, type |-> "tracked"] : t \in trackedRowAdded}

\* head_db_stage_changed; its conditions on fields are those of "modified".
HeadDbStageChanged ==
    {e \in HeadDbStage : e.bundle \in bundles /\ (e.type # "same" \/ db[e.row] = Absent)}

-----------------------------------------------------------------------------
\* The rows of b's head, and those it adds; bundle b shares none of them.
Held(b)  == HeadRows(b) \cup {s.row : s \in {t \in stageRowAdded : t.bundle = b}}
Alone(b) == \A c \in Bundles \ {b} : Held(b) \cap Held(c) = {}

HeadFields(b, r) == RecordedFields(head[b], r)

\* No comparison of the views tells the values apart.
Alike(v, w) == v = w \/ Null \in {v, w}

(* Comment on bundle_has_uncommitted_changes (001-functions.sql:330):      *)
(* head_db_stage_changed "will catch added rows, deleted rows, changed     *)
(* rows, and staged rows".  If it shows nothing of a bundle that shares no *)
(* row with another, and the views are current, then the working copy and  *)
(* what a commit records are the head, but for changes from or to null.    *)
CleanCommitsNothing ==
    [][\A b \in Bundles :
          /\ Committed(b) /\ ViewsCurrent /\ Alone(b)
          /\ \A e \in HeadDbStageChanged : e.bundle # b
          => /\ HeadRows(b)' = HeadRows(b)
             /\ \A r \in HeadRows(b) : db[r] # Absent
             /\ \A r \in Rows : \A f \in HeadFields(b, r) :
                   /\ Alike(f.value, Literal(r, f.field))
                   /\ \E g \in HeadFields(b, r)' : g.field = f.field
                   /\ \A g \in HeadFields(b, r)' :
                         g.field = f.field => Alike(f.value, g.value)]_vars
=============================================================================
