-------------------------- MODULE BundleProperties --------------------------
(***************************************************************************)
(* What the bundle extension's repository must satisfy, over the behaviour *)
(* of module Bundle.                                                       *)
(***************************************************************************)
EXTENDS Bundle

(* The forest of commits.  Each commit id names one commit; a commit's     *)
(* bundle exists (or is null: commit() of an unknown name); its parent, if *)
(* any, is an earlier commit of the same bundle that still exists, however *)
(* commits, deletions and checkouts have interleaved.                      *)
CommitGraph ==
    /\ \A c, d \in commit : c.id = d.id => c = d
    /\ \A c \in commit :
          /\ c.id <= created
          /\ c.bundle \in bundles \cup {None}
          /\ c.parent # None => \E p \in commit : /\ p.id = c.parent
                                                  /\ p.bundle = c.bundle
                                                  /\ p.id < c.id

(* README, ANCESTRY: a commit but for the very first one "has a parent".   *)
(* However deletions, checkouts and merges have interleaved, what          *)
(* commit_ancestry walks is a whole line of earlier commits of the same    *)
(* bundle, each with all of its own ancestry, back to a first one.         *)
AncestryIsHistory ==
    \A c \in commit :
        /\ \A a \in Ancestry(c.id) :
              /\ \E p \in commit : p.id = a /\ p.bundle = c.bundle /\ a < c.id
              /\ Ancestry(a) \subseteq Ancestry(c.id)
        /\ \A a, d \in Ancestry(c.id) : a = d \/ a \in Ancestry(d) \/ d \in Ancestry(a)
        /\ \E root \in commit : root.parent = None /\ root.id \in Ancestry(c.id) \cup {c.id}

(* What is deleted or checked out never changes where a commit comes from. *)
AncestryKept ==
    [][\A c \in commit \cap commit' : Ancestry(c.id)' = Ancestry(c.id)]_vars

(* head_commit_id and checkout_commit_id.  A bundle's head is one of its   *)
(* own commits, or null, and the checked out commit is the head or null:   *)
(* the "detached head" merge() tests for is not reachable.                 *)
HeadsAttached ==
    \A b \in Bundles :
        /\ head[b] # None => b \in bundles /\ head[b] \in CommitsOf(b)
        /\ checkedOut[b] \in {None, head[b]}

(* stage_row_deleted outlives commit(), checkout() and commit_delete() of  *)
(* other commits: each staged deletion always names a recorded row of a    *)
(* commit of the bundle that staged it.                                    *)
StagedDeletesRecorded ==
    \A d \in stageRowDeleted :
        /\ d.bundle \in bundles
        /\ d.rr \in rowsetRow
        /\ d.rr.commit \in CommitsOf(d.bundle)

\* Each recorded row belongs to an existing commit, each field to a recorded row.
RowsetsOwned ==
    /\ \A rr \in rowsetRow : rr.commit \in CommitIds
    /\ \A f \in rowsetRowField : f.rr \in rowsetRow

(* A commit is usable as a snapshot: its rows belong to an existing commit *)
(* and its fields to its rows, a field of a row has one value, the copies  *)
(* of a row that was recorded twice agree, and a row that has any field    *)
(* has its primary key, without which checkout() could not restore it.     *)
SnapshotsWellFormed ==
    /\ RowsetsOwned
    /\ \A f \in rowsetRowField :
          /\ \E k \in rowsetRowField : k.rr = f.rr /\ k.field = Key
          /\ \A g \in rowsetRowField :
                f.rr.commit = g.rr.commit /\ f.rr.row = g.rr.row /\ f.field = g.field
                    => f.value = g.value

\* The inductive invariant of the repository; HeadsAttached needs CommitGraph
\* (ids are unique), and both need RowsetsOwned when a deletion is staged.
RepositoryInv ==
    TypeOK /\ CommitGraph /\ HeadsAttached /\ RowsetsOwned /\ StagedDeletesRecorded

\* However stale, the view of the head's fields has the key of each row it shows.
HeadFieldsKeyed ==
    \A h \in headCommitField : \E k \in headCommitField :
        k.cell.rr = h.cell.rr /\ k.cell.field = Key

\* No recorded value has lost its blob.
ValuesStored == \A f \in rowsetRowField : f.value \in blob \cup {Null}

\* A commit takes its fields from that view, so both are inductive together only.
SnapshotInv == RepositoryInv /\ SnapshotsWellFormed /\ HeadFieldsKeyed /\ ValuesStored

-----------------------------------------------------------------------------
(* The views and the stage.                                                *)

(* Section comment "2. HEAD" of 000-data_model.sql: the two materialized   *)
(* views show the commit referenced by bundle.head_commit_id.              *)
ViewsCurrent ==
    /\ headCommitRow = {x \in [bundle : bundles, rr : rowsetRow] :
                            head[x.bundle] = x.rr.commit}
    /\ headCommitField = {y \in [bundle : bundles, cell : rowsetRowField] :
                            head[y.bundle] = y.cell.rr.commit}

\* The step is a commit to bundle b.
Committed(b) == created' # created /\ head'[b] = created'

(* README, Commit: "After a commit, the stage will be identical to the     *)
(* bundle's head, contained in bundle.head_commit_row".  Whatever was      *)
(* stale before, a commit leaves both views current, every bundle's part   *)
(* of them, and the committer's stage empty.                               *)
CommitSettles ==
    [][\A b \in Bundles : Committed(b) =>
          /\ ViewsCurrent'
          /\ {s.row : s \in {t \in StageRow : t.bundle = b}}' = HeadRows(b)'
          /\ \A c \in stageFieldChanged' : c.bundle # b]_vars

\* What README, COMMITTING and section 6 of the data model say the next
\* commit of b will hold for row r, from b's head and b's stage alone.
PromisedFields(b, r) ==
    IF [bundle |-> b, row |-> r] \in stageRowAdded
    THEN {<<f, Literal(r, f)>> : f \in Fields}
    ELSE IF \E d \in stageRowDeleted : d.bundle = b /\ d.rr.row = r THEN {}
    ELSE LET mine(f) == {c \in stageFieldChanged :
                            c.bundle = b /\ c.row = r /\ c.field = f}
         IN  UNION {IF mine(f.field) = {} THEN {<<f.field, f.value>>}
                    ELSE {<<f.field, c.value>> : c \in mine(f.field)} :
                    f \in RecordedFields(head[b], r)}

RecordsPromise(b) ==
    \A r \in Rows : {<<f.field, f.value>> : f \in RecordedFields(created, r)}'
                        = PromisedFields(b, r)

\* No other bundle has staged a change to a row of b's head.
NoForeignChange(b) ==
    \A c \in stageFieldChanged : c.bundle = b \/ c.row \notin HeadRows(b)

\* Row r of b's head has no value recorded for some field, as after a commit
\* that read a stale view.
Bare(b, r) ==
    \E f \in Fields : \A g \in RecordedFields(head[b], r) : g.field # f

\* No other bundle holds or stages such a row of b's head, whose values the
\* joins of view stage_row_field would find instead.
NoForeignRow(b) ==
    \A r \in HeadRows(b) : Bare(b, r) =>
        /\ \A s \in stageRowAdded : s.row = r => s.bundle = b
        /\ \A h \in headCommitField : h.cell.rr.row = r => h.bundle = b

(* A commit holds exactly the previous head with the bundle's own staged   *)
(* changes applied, provided the views are current, no other bundle has    *)
(* staged a change to one of its rows, and none has a row that the head    *)
(* lost fields of; in particular no row that another bundle holds or       *)
(* stages leaks into it, and no field into a row that has its own.         *)
CommitIsStage ==
    [][\A b \in Bundles :
          Committed(b) /\ ViewsCurrent /\ NoForeignChange(b) /\ NoForeignRow(b)
              => RecordsPromise(b)]_vars

(* README, COMMITTING: a commit "is the same as the previous head commit,  *)
(* except for any new changes that have been staged".                      *)
CommitCarriesHead ==
    [][\A b \in Bundles : Committed(b) => RecordsPromise(b)]_vars

-----------------------------------------------------------------------------
(* Checkout.                                                               *)

\* The working copy holds every row of commit id as it was recorded.
WorkingCopyIs(id) ==
    \A rr \in RowsetOf(id) :
        /\ db[rr.row] # Absent
        /\ \A c \in Columns :
              \E f \in RecordedFields(id, rr.row) : f.field = c /\ f.value = db[rr.row][c]

\* Every row of commit id has every field recorded.
Complete(id) ==
    \A rr \in RowsetOf(id), f \in Fields :
        \E g \in RecordedFields(id, rr.row) : g.field = f

(* Checking out a commit that was recorded in full makes the working copy  *)
(* of its rows identical to it, whatever was checked out or changed before;*)
(* rows of the commit checked out before that are not in this one are      *)
(* gone, and every other row of the database is left alone.                *)
CheckoutRestores ==
    [][\A b \in Bundles, id \in CommitId : Checkout(b, id) =>
          /\ Complete(id) => WorkingCopyIs(id)'
          /\ \A r \in Rows :
                LET before == {rr.row : rr \in RowsetOf(checkedOut[b])}
                    now    == {rr.row : rr \in RowsetOf(id)}
                IN  /\ r \in before \ now => db'[r] = Absent
                    /\ r \notin before \cup now => db'[r] = db[r]]_vars

-----------------------------------------------------------------------------
(* Merge.                                                                  *)

\* What a three-way merge makes of a field that is x in the base, y in the
\* head, z in the other commit: the change of the only side that has one.
Merged(x, y, z) == IF y = x THEN z ELSE y

\* Values recorded for a field; null is not among them, for it has no hash.
Known(id, r, f) == {g.value : g \in Recorded(id, r, f)} \ {Null}

\* What the bundle's next commit would hold for a field, and the working copy
\* does, are what README, MERGING says of a merge of commit id from base.
MergedFrom(b, id, base) ==
    \A r \in Rows, f \in Columns :
        \A x \in Known(base, r, f), y \in Known(head[b], r, f), z \in Known(id, r, f) :
            /\ <<f, Merged(x, y, z)>> \in PromisedFields(b, r)'
            /\ db'[r][f] = IF z = x THEN y ELSE z

\* Bundle b has its head checked out, and nothing staged or changed.
Clean(b) ==
    /\ WorkingCopyIs(head[b])
    /\ \A s \in stageRowAdded \cup stageRowDeleted \cup stageFieldChanged : s.bundle # b

(* README, MERGING: a merge into a clean bundle is a three-way merge of    *)
(* each field that head, base and merged commit know, from one ancestor of *)
(* the merged commit: the next commit holds what only one side changed,    *)
(* and the working copy keeps what the other side did not change.          *)
MergeIsThreeWay ==
    [][\A b \in Bundles, id \in CommitId :
          Clean(b) /\ Merge(b, id)
              => \E base \in Ancestry(id) : MergedFrom(b, id, base)]_vars

(* README, MERGING: "Any field that only one developer changed since       *)
(* departure from their common commit ancestor is said to be               *)
(* non-conflicting", and is "applied to the working copy and staged"; here *)
(* of commits that have one ancestor in common.                            *)
MergeFromFork ==
    [][\A b \in Bundles, id, base \in CommitId :
          Clean(b) /\ Ancestry(head[b]) \cap Ancestry(id) = {base} /\ Merge(b, id)
              => MergedFrom(b, id, base)]_vars

-----------------------------------------------------------------------------
(* The history the repository implements: a commit's snapshot is all that  *)
(* rowset_row and rowset_row_field hold for it.                            *)
Snapshot(id) == [rows   |-> RowsetOf(id),
                 fields |-> {f \in rowsetRowField : f.rr.commit = id}]

Entry(c) == [id |-> c.id, bundle |-> c.bundle, parent |-> c.parent,
             snapshot |-> Snapshot(c.id)]

Entries == {Entry(c) : c \in commit}

H == INSTANCE History WITH made <- created, history <- Entries

(* Bundle implements History: committed snapshots are never changed, and   *)
(* heads and parents move only as History allows.                          *)
ImplementsHistory == H!Spec

-----------------------------------------------------------------------------
(* What was committed, over the whole life of a repository.                *)

(* A commit e that exists at any time is, at any later time at which its   *)
(* id still exists, the same: bundle, parent, rows and fields.             *)
CommitPermanent(e) == [](e \in Entries => [](e.id \in CommitIds => e \in Entries))

(* A commit that was deleted does not come back, under its id or another's.*)
DeletedForGood(id) == [](id \in 1..created /\ id \notin CommitIds => [](id \notin CommitIds))

(* A commit's ancestry at any time is its ancestry as long as it exists.   *)
AncestryPermanent(id, A) ==
    [](id \in CommitIds /\ Ancestry(id) = A => [](id \in CommitIds => Ancestry(id) = A))

\* The working copy shows every value that snapshot S holds.
Shown(S) == \A g \in S.fields : /\ db[g.rr.row] # Absent
                                /\ g.field \in Columns => db[g.rr.row][g.field] = g.value

(* README, WORKING COPY and HEAD: "When a commit is checked out, the       *)
(* working copy at that time is identical to the contents of the           *)
(* checked-out commit": to those it had when it was made, whatever was     *)
(* committed, deleted, merged, staged or written in between.               *)
RestoredAsRecorded(id, S) ==
    [](id \in CommitIds /\ Snapshot(id) = S
         => [][\A b \in Bundles : Checkout(b, id) => Shown(S)']_vars)
=============================================================================
