# Formal models of Aquameta

Aquameta is a web development stack that lives in PostgreSQL: a Go daemon in
front of a database, and SQL extensions in it.  This directory holds TLA+ models
of its core, TLC configurations that check them on small instances, and proofs
for every size that TLAPS checks.

## 1. Inventory

| part | source | state it keeps | operations | interacts with |
|---|---|---|---|---|
| bundle: repository and stage | `extensions/bundle/000-data_model.sql`, `001-functions.sql` | tables `bundle`, `commit`, `rowset_row`, `rowset_row_field`, `blob`, the stage tables, `tracked_row_added`; two materialized views | create/delete bundle, commit, delete commit, track, stage, unstage, checkout, checkout_delete | user tables (the working copy); called by the IDE through `endpoint` |
| bundle: merge | `001-functions.sql` 1065-1395 | the stage (the table `merge_conflict` is never written) | ancestry, common ancestor, `merge` | repository, working copy |
| bundle: diff views | `000-data_model.sql` 235-595, 733-964 | none (views) | offstage, `head_db_stage`, `untracked_row` | repository, working copy |
| bundle: utilities, remotes | `002-utils.sql`, `003-remotes-fdw.sql` | files, foreign tables | export, import, garbage_collect, push, pull | another repository |
| websocket | `src/websocket.go` | map of sockets, one listening connection, its goroutines, variables `done` and `cancel` | attach, detach, notify, replay | `event` tables, PostgreSQL LISTEN/NOTIFY, browsers |
| event | `extensions/event/000-event.sql` | `session`, `subscription_*`, `event` | subscribe, triggers that queue and notify | tables that are subscribed to, websocket |
| pgfs | `src/pgfs.go` | one process-wide map of write buffers | lookup, list, read, write, fsync | any table, through FUSE |
| http front end | `src/resource.go`, `endpoint.go` | none beyond the pool | serve a resource, pass a request to `endpoint.request` | database |
| daemon | `src/main.go`, `config.go`, `pgfs_unsupported.go` | the embedded server's handle; what a boot leaves on disk and in the database | install, start, serve, stop, halt | embedded PostgreSQL, every other part |
| endpoint | `extensions/endpoint/*.sql` | sessions, users, resources | dispatch a REST request to SQL | everything, by generated SQL |
| widget, semantics, ide, documentation, email, filesystem, http_client, endpoint_client | `extensions/*` | user interface tables; wrappers of other programs | - | - |
| meta, meta_triggers, pg_bundle | empty submodules | the catalog as data | `field_id_literal_value`, `row_exists`, ... | bundle, event, endpoint |

What is hard about them:

* **bundle** - long sequences of legal calls over tables that no constraint ties
  together: two materialized views that only some calls refresh, a stage that
  outlives the head it was made against, views whose joins name no bundle, rows
  that change between staging and commit.  Correct means: history is append-only
  and well formed, a commit is its head plus its own bundle's stage, a checkout
  restores what was recorded.
* **websocket** - goroutines that share one connection and two unsynchronised
  variables; a socket map read by one goroutine and written by handlers.
  Correct means: no event of an attached session is lost, the listener never
  gets stuck, and it never uses the connection while another goroutine does.
* **pgfs** - buffers shared by all openers of a file, in one map without a lock; a
  three-step fsync that ignores errors; lookups of several queries, each of which
  may end the process.  Correct means: what is written is stored once and whole or
  dropped, and the daemon does not end while nothing is taken away.
* **event** - one event per change and session whatever the subscriptions.
* **http front end** - several queries that should be one, on connections that
  other requests wait for.  Correct means: an answer the tables called for at one
  moment, and no connection lost.
* **daemon** - a dozen installation steps without a transaction around them, a
  signal at any of them, several goroutines that stop the server.  Correct means:
  served is complete, and what ends the daemon takes its server along.

`PROJECT.json` lists every hazard at its line with the properties aimed at it.

## 2. The bundle modules

`Bundle.tla` has one variable per table or view and one action per function.

| model | code |
|---|---|
| `db` | the user tables: what each row holds, or `Absent` |
| `commit`, `rowsetRow`, `rowsetRowField`, `blob` | the tables of the same name; a commit and its rowset share an id; `new` on a rowset row tells the copy taken from `stage_row_added` from the one taken from the head, which is as many copies as `stage_row` yields |
| `head`, `checkedOut` | `bundle.head_commit_id`, `bundle.checkout_commit_id` |
| `headCommitRow`, `headCommitField` | the materialized views, as last refreshed |
| `stageRowAdded`, `stageRowDeleted`, `stageFieldChanged`, `trackedRowAdded` | the tables |
| `StageRow`, `StageRowField` | the views of the same name, join for join |
| `InsertRow`, `UpdateField`, `DeleteRow` | any client writing a table under version control |
| `Ancestry`, `CommonAncestors`, `FieldsChanged`, `RowsCreated` | `commit_ancestry`, `commits_common_ancestor`, `fields_changed_between_commits`, `rows_created_between_commits` |
| `BundleCreate` ... `Checkout`, `Merge` | the functions of the same name; `CommitUnknown` is `commit()` of a name no bundle has |

A function runs in one transaction, so one call is one action.  A call that
raises changes nothing, so whatever would make it raise (an exception, a unique
constraint, a foreign key without cascade, not-null) is a guard.  Calls that do
nothing are left out, except `commit_delete` of an unknown id: it refreshes the
views.

`Merge(b, id)` is the whole of `merge()`.  Its base is any of the ancestors the join in
`commits_common_ancestor` can come to first, since `limit 1` has no order.  It raises for
a row recorded twice, for a field that is staged already, and for every new row, because
`checkout_row(text, uuid)` assigns to a variable it does not declare (1033).  A null has
no hash, so a field that is null in one of two commits is not a changed one.  The check
for a detached head passes when either commit is null, and `HeadsAttached` says it
never fails; the check for uncommitted changes always answers no (338).  Deletions of
rows and the merge commit are TODOs in the code.

`BundleStatus.tla` adds the views a user sees the state by: `OffstageFieldChanged`,
`HeadDbStage`, `HeadDbStageChanged` are the views of these names, join for join.

Abstractions: primary keys are the row's identity and every table has one, and
one more column or more;
columns are fixed; no foreign keys or triggers between user tables; only rows of
ordinary tables, not of `meta` (whose checkout swallows exceptions); a value's
hash is the value; names and ids of bundles are used once; the literal of a row
that does not exist is null (external: `meta.field_id_literal_value`).  Concurrent
calls are serialised: PostgreSQL's default isolation would allow two `commit()`s
to interleave by statement, which is listed as a hazard and planned.

`BundleProperties.tla` states what must hold; `History.tla` is the abstract
specification: snapshots recorded once as children of the head, never changed,
never forgotten from under a child, heads that are snapshots of their own bundle.
`BundleProperties!ImplementsHistory` instantiates it with `made <- created` and
`history <- Entries`, where an entry is a commit with everything recorded for it.

A staged change is of any field of a row, the key included, with any value.

`MCBundle.tla` adds the symmetry of rows, bundles and values, and the bound `LastStage`.

### Runs

| run | instance | question |
|---|---|---|
| `history` | 1 bundle, 1 row, 1 column, 2 values and null, 3 commits, `LastStage` | every operation: `CommitGraph`, `AncestryIsHistory`, `StagedDeletesRecorded`, `MergeIsThreeWay`, `ImplementsHistory` |
| `shared` | 2 bundles, 1 row, 1 column, 2 values and null, 2 commits, `LastStage` | what commits hold and checkouts restore, free of the other bundle: `SnapshotsWellFormed`, `CommitSettles`, `CommitIsStage`, `CheckoutRestores`, `CleanCommitsNothing` |
| `fork` | as `history`, 4 commits | refutes a sentence about merging (below) |
| `carry` | as `history`, 1 value, no `LastStage` | refutes a sentence about committing (below) |

The bounds: three commits give a grandchild, a fork after a checkout, two roots and a
merge of one side of the fork into the other; four, a fork with a longer side; one row
reaches every state of a row (absent, tracked, staged added, in the head, staged deleted,
changed) and their combinations; one value and null tell null from missing; two values
and two bundles tell whose value a commit took.  `MaxCommits` counts commits ever made,
deleted ones included, and cuts behaviours off in every run.  `LastStage` is a state
constraint of `history`, `shared` and `fork`: once the last commit is made, one thing at
most is tracked or staged at a time.  Before that the stage is free, so every stage is
committed; after it no commit is left that could record a second thing, while each kind
still meets the deletions, checkouts and merges.  A step that leaves the constraint is
still checked.  All properties of `history` and `shared` are also theorems, for every
`MaxCommits` and without `LastStage`; `fork` looks for one behaviour, which has few
things staged.  Nothing here needs fairness: all properties are safety properties, for
which a state constraint only makes the search smaller.

What the properties say: `CommitGraph`, `StagedDeletesRecorded` and `HeadsAttached`
(proved, and part of what `ImplementsHistory` checks) are the repository's integrity
across deletes; `AncestryIsHistory` says that what `commit_ancestry` walks is one unbroken
line of earlier commits of the bundle, back to a first one, and so what a merge compares
with is history and not what deletions have left of it;
`SnapshotsWellFormed` makes every commit restorable; `CommitSettles` says a commit
leaves both views current and the stage equal to the head; `CommitIsStage` says
a commit holds exactly what head and stage promise, *if* the views were current,
no other bundle staged a change to its rows (`NoForeignChange`), and none holds or adds
a row of which this head has lost fields (`NoForeignRow`); `CheckoutRestores` says a
checkout of a completely recorded commit restores it whatever came before;
`MergeIsThreeWay` says that a merge into a bundle with nothing staged or changed gives
every field, in the working copy and in the next commit, what a three-way merge from
some ancestor of the merged commit gives it; `CleanCommitsNothing` says that what
`head_db_stage_changed` does not show would not be committed and has not changed, but for
changes from or to null, which no comparison in the views sees.

`NoForeignRow` was found by the proof and not by TLC: without it the theorem fails after
four commits to two bundles, when a commit made from stale views has lost the fields of a
row, which the next one takes from the other bundle's copy of the row.

### Where code and documentation disagree

* `carry`: `head_commit_row` and `head_commit_field` are documented as the rows of
  `bundle.head_commit_id`, but `bundle_delete` and `checkout` do not refresh them.  A
  commit after a checkout of another commit reads the unchanged fields of the wrong
  one: its rows lose their fields, and a checkout of it does not restore them.
* `fork`: "Any field that only one developer changed since departure from their common
  commit ancestor is said to be non-conflicting", and is "applied to the working copy and
  staged" (README 85-89).  `commits_common_ancestor` joins the ancestry of the merged
  commit with itself (1105), so the base may be a commit of the merged branch only.  Let
  2 and 3 be children of 1, and 4 of 3; a field is v1 in 1 and 4, v2 in 2 and 3.  Merging
  4 into 2 takes 3 for the base and stages v1, although only 2 has changed the field since
  the fork.  For the same reason a bundle whose head is null can be merged into.

Two more sentences of `extensions/bundle/README.md` hold of the code with an
exception that the model shows but no run is spent on.  A commit holds "an explicit
set of rows" (20-22): nothing stops a row of the head from being tracked and staged
as added again, and while the views are stale it is recorded twice
(`FieldsUnique` guards the fields only; `new` on a rowset row tells the copies apart).
"Every commit except for the very first one has a parent" (44): after
`commit_delete` of the head the next commit has none, which is why `History` has
`RecordOrphan`.

### Proofs

`BundleProofs.tla` proves, for any sets of bundles, rows, columns and values and
any bound, from `ConstantsAssumption` alone:

* `Typing`: `Spec => []TypeOK`, one lemma per group of actions.
* `RepositorySafe`: the inductive invariant `RepositoryInv` = `TypeOK`,
  `CommitGraph`, `HeadsAttached`, `RowsetsOwned`, `StagedDeletesRecorded`.
  None of the three published parts is inductive alone: a head stays in its own
  bundle because ids are unique and below `created` (`CommitGraph`); a staged
  deletion names a recorded row because a head is a commit of its bundle
  (`HeadsAttached`); and deleting a commit takes exactly its own rows because
  every recorded row has its commit (`RowsetsOwned`).  `CommitGraphSafe`,
  `HeadsAttachedSafe`, `StagedDeletesSafe` follow.
* `Refinement`: `Spec => ImplementsHistory`: each action is mapped to `Record`,
  `RecordOrphan`, `Select`, `Forget` or a stutter.

* `SnapshotsInvariant`: `SnapshotInv` = `RepositoryInv`, `SnapshotsWellFormed`,
  `HeadFieldsKeyed`, `ValuesStored`.  A commit takes its fields from a view that may be
  stale, so its rows have their keys only because the view's rows have, however old
  they are (`HeadFieldsKeyed`), and its values are those recorded only because none has
  lost its blob (`ValuesStored`).  `SnapshotsSafe` follows.
* `CommitsSettle`, `CommitsAreStages`, `CheckoutsRestore`, `MergesThreeWay`: the action
  properties of the same content, each from the invariant and a lemma on what the views
  hold (`StagedRows`, `KeptFields`, `FieldSources`, `OverridesPromised`) or on what
  differs between commits (`ChangedIffDiffer`).

`BundleHistoryProofs.tla` proves what outlives a single call.

* `AncestryIsWhole`: `Spec => []AncestryIsHistory`.  The ancestry is a recursive function
  over ids; it has a solution because parents are older than their children
  (`AncestryUnfolds`), and everything about it goes by induction over ids.  An induction
  theorem with a predicate parameter cannot be used here, so `Descent` states strong
  induction for a set and is proved by the least counterexample.
* `AncestryStays` (`Spec => AncestryKept`) and `AncestryIsPermanent`: no call, and no
  number of calls, changes where a surviving commit comes from.  `AncestryKept` is proved
  only; a run spends minutes on it and can say no more.
* `CommitsArePermanent`, `DeletionIsFinal`: for any record `e` and any id, fixed while time
  goes on, a commit keeps all that was recorded for it until it is deleted, and a deleted
  id is never used again.  A step theorem says this of two states only; here it is said of
  any two, with `[]` inside `[]`.
* `CommitRoundTrip`: a checkout of a commit, however long after it was made and whatever
  happened since, shows every value it was made with.
* `MergesFirstChild`: what is left of the documented merge base for certain (`fork`
  refutes the rest): the base of a first commit's child is that first commit.
* `CleanCommits`, from `CommitIsPromise`: the rows of a bundle of which the status shows
  nothing are not staged or changed by anyone else, so its promise is its head.

All properties of the passing bundle runs are proved for all constants.

## 3. The websocket modules

`WebSocket.tla` models `src/websocket.go` with the part of the database it works
on.  A browser attaches to a session over a socket; the daemon's listener makes
its one connection `LISTEN` to the session, starts a goroutine that waits on that
connection for notifications and forwards them, and replays what is queued in
`event.event`.  Every later request has to stop that goroutine first, because it
needs the connection.

| model | code |
|---|---|
| `session`, `queue` | the tables `event.session`, `event.event` |
| `connected`, `pooled`, `channels`, `wire`, `notified` | the connection acquired at line 46: alive and the listener's, or alive and given back to the pool; what it listens to, notifications sent by the server and not read, notifications the driver has read and queued |
| `sockets` | the map of the same name; `Nil` where it has no entry |
| `done`, `cancel` | the variables of the same name, as the goroutine that made the channel or the cancel function they hold |
| `closed` | the channels that have been closed |
| `listener` | the goroutine of lines 44-136: where it is, its request, the channel it evaluated for `<-done`, the rows it has still to replay |
| `waiter` | the goroutines running `start`, and whether their context is cancelled |
| `attaching`, `detaching` | handlers blocked at lines 36 and 169 |
| `open`, `received` | the browsers' connections and what each got |
| `overtaken`, `skipped` | history, read by properties only: whether this process took a request while a goroutine had yet to set `done` and `cancel`; the queued events that the last replay of their session left out |

The listener's actions follow the two cases of its `select` in order:
`ReceiveListen`/`ReceiveUnlisten` (with `cancel()`), `ClearCancel`, `AwaitDone`,
`Exec`, then `Executed`, `ListenRefused`/`UnlistenRefused` or
`ListenFails`/`UnlistenFails`, `Spawn`, then `Query`, `Replay` (once per row),
`ReplayEnds`, or `Purge`.  A goroutine's are
`AssignDone`, `AssignCancel`, and in its loop `TakeNotified`, `Wait`, `TakeWire`,
`Cancelled`, and `CloseDone`.  `ReplayCrashes`, `TakeCrashes` (a nil socket) and
`CloseCrashes` (a channel closed twice) are panics, which end the process.
`Attach`, `Detach` are the handlers, `Connect`, `Disconnect` the browsers,
`Publish`, `Acknowledge`, `SessionDelete` other clients of the database,
`ConnectionLost`, `Stop`, `Restart` the environment.

Granularity: one action accesses one shared variable.  Two goroutines interleave
between the assignment of `done` and that of `cancel`, between `cancel = nil` and
`<-done`, between two rows of a replay.  An access to the `sockets` map is atomic;
Go may also end the process on a concurrent one, which looks like `Stop`.

The driver is external and modelled by how the code uses it: a call on a
connection another goroutine is using fails ("conn busy"); notifications that
arrive while another command runs are queued and returned first by the next wait,
also by a cancelled one; a cancelled wait leaves the connection usable; a
connection that is busy or broken when released is closed, and any other goes back to
the pool as it is, still listening.  `Exec` and `Executed` are the two ends of that
command.  The server may also refuse it on a healthy connection (a session id that is
empty or has a quote in it): a refused LISTEN ends the listener, a refused UNLISTEN is
logged.  Goroutines that were waiting on a connection given back go on waiting on it.  The server sends a transaction's notification
when it commits, so a change, its event and its notification are one step
(`Publish`), and notifications arrive in order.

Abstractions: an event is its id and session, not its content; the id `null` that
`attach` refuses is left out; what is emitted to a closed socket is lost; a socket
handles one attach at a time, a session one detach; sessions are not created, since a
new one is one nobody has used; `Waiters` bounds the goroutines that are alive or
referenced.

The replay query and the deletion of a session use other connections of the pool, and
fail whatever the listener's connection does.  `Query` may return any part of the
queued events: the code prints the error of the query, skips a row it cannot scan, and
does not look for an error after the last row.  What is left out is in `skipped` until
the session's next replay.  `Purge` may leave the session; the listener is then at its
`select` with that session's name in `listener.session` (`DeleteFailed`), which no
action reads.

Goroutines run at any speed: `start` may set `done` and `cancel` at any time after the
listener has gone back to its `select`.  `overtaken` records that a request was taken
before that.  No theorem assumes that it does not happen; the properties that it breaks
say so.  `Prompt` is a bound for TLC, which leaves such behaviours out of two runs.
`Faults` allows lost connections, refused and failing statements, and stops.

### Properties and runs

| run | instance | checks |
|---|---|---|
| `requests` | 2 sessions, 1 socket, 1 event, `Prompt`, faults | `DeliveryInv`, `GoroutinesNotStuck`, `ImplementsInbox` |
| `race` | 1 session, 2 sockets, 1 event, late goroutines, no faults | `NoEventLost`, `ListenerFreed`, `ExclusiveUnlessOvertaken` |
| `liveness` | 1 session, 2 sockets, 1 event, `Prompt`, no faults, fair | `EventDelivered`, `AttachAnswered`, `DetachDeletes` |
| `busy` | as `race`, with faults | refutes `ConnectionExclusive` |

* `NoEventLost` is what the code keeps of the comment on `event.event`: while the
  connection listens to a session whose socket is connected, each of the session's
  queued events has reached that socket, is on its way in a notification, is in
  a replay that is running or due, or was left out by the last replay, whose query
  failed.  It holds however late goroutines are: the order LISTEN, then query, and the
  queue in the driver are what it rests on.  The last case is not in the comment (below).
* `ConnectionExclusive` is the purpose of "wait until done cancelling".
  `ExclusiveUnlessOvertaken` says that an overtaken goroutine is the only way to break
  it; `Handshake` (proved) is the protocol that achieves this.
* `ListenerFreed` is what makes that wait end: unless a goroutine was overtaken, the
  channel the listener waits for is closed, or belongs to a goroutine that is past its
  first statements and has been told to stop; and that goroutine's `close(done)` finds
  the channel open.
* `GoroutinesNotStuck`: nobody waits for everybody.  The listener at a request can go on
  unless it waits for an open channel, a goroutine can unless it waits for a notification
  that has not come and nobody has cancelled it, and a blocked handler is received when
  the listener selects (`ENABLED`).
* `ImplementsInbox`: the daemon and its clients use the event tables only as module
  `Inbox` allows, which is what the event extension implements (section 4).
* `EventDelivered`, `AttachAnswered` and `DetachDeletes` are the liveness
  counterparts.

Bounds: two sessions are needed for one's requests to interrupt the other's
goroutine, two sockets for a session that reconnects, two goroutines for one that
is late and its successor; one event can be before, between and after every step of
an attach.  Requests are unbounded.  Late goroutines are in `race` and `busy`, failures
in `requests` and `busy`; what needs both is proved, since the theorems fix
neither.

Fairness: a goroutine that can run does (`WF` on `Listener` and on each
`Waiter(w)`); a handler blocked on a channel is served if the listener comes back
to its `select` for ever, because a channel queues its senders and `select` picks
at random among ready cases (`SF` on each receive).  Browsers, other clients and
faults are not fair.  The fair run allows no faults and sets
`CHECK_DEADLOCK FALSE`: a daemon that could not get its connection at the start
stays without a listener, and nothing restarts it there.

The finding: `start` sets `done` and `cancel` in the new goroutine.  A request
received before that finds `cancel` nil, does not wait, and uses the connection
together with the goroutine (`busy`).  Then LISTEN may fail with "conn busy", which
ends the listener: every later attach and detach blocks.  Or the goroutine's wait
fails, and it closes whatever channel `done` holds by then, at worst one already
closed, which is a panic.  The listener may also come to wait at `<-done` for a channel
that nobody closes.

One more disagreement the model shows, and no run is spent on: "when it reattaches, the
reattach handler should blast out all the events that the client has not yet deleted"
(000-event.sql:175-177).  A replay whose query fails, or is cut short, sends less than what
is queued, and the listener goes on as if it had sent all (websocket.go:96-110).  Nothing
sends the rest before the next attach.  `NoEventLost` without `skipped` fails on it at once.

### Proofs

`WebSocketProofs.tla` proves for all constants, from `WebSocketAssumption`:

* `WebSocketTyping`: `Spec => []TypeOK`.
* `Delivery`: `Spec => []DeliveryInv`, and from it `EventsNotLost`.  `NoEventLost`
  alone is not inductive: a query must not overwrite rows still to be replayed
  (`RowsInReplay`), and a restarted daemon must not inherit channels, nor one whose
  listener has ended a connection (`LostIsSilent`).  Lemmas `InFlightAppend`, `InFlightConcat` and `InFlightTail`
  say what moving notifications between wire, driver and socket preserves.
* `HandshakeHolds`: `Spec => [](TypeOK /\ (overtaken \/ Handshake))`, and from it
  `Exclusive`: `[]ExclusiveUnlessOvertaken`.  `ConnectionExclusive` alone
  says nothing about `done` and `cancel`; `Handshake` adds that the one goroutine
  alive owns both, so that the listener waits for the right channel.
* `InboxImplemented`: `Spec => ImplementsInbox`; `Publish` posts to one inbox, detach
  and `SessionDelete` delete one, every other step stutters.

* `ListenerIsFreed`: `Spec => []ListenerFreed`.  Added to
  `Handshake` (`Freed`): once the listener has called `cancel`, every goroutine alive is
  cancelled, and the goroutine of an open channel in `done` is alive.
* `EventsGoneForGood`: an event acknowledged or deleted with its session never comes
  back; from the refinement, so it holds of any implementation of `Inbox`.

`WebSocketLiveProofs.tla` proves the three liveness properties for any number of sessions,
sockets, goroutines and events: `AttachesAnswered`, `DetachesDelete`, `EventsDelivered`.
Each has two hypotheses: `FairSpec`, and `[]GoroutinesNotStuck`, which the run `requests`
checks, because the provers have no rule for `ENABLED`.  Nothing is assumed of goroutines
but that they run on: faults may happen and goroutines may be overtaken, and what that ends
is said in the properties (`~connected`, `overtaken`, `skipped`, `DeleteFailed`).

* `LiveInvHolds`: `[](overtaken \/ LiveInv)`, where `LiveInv` = `DeliveryInv`, `Handshake`,
  `Freed` and four more parts.  The one that matters is `Attended`: while the connection lasts, a
  goroutine ends only when told to, notifications in the driver's queue have a goroutine
  that can take them, and a connection that listens to anything has a goroutine or is
  about to get one.  `RowsOfSession` bounds a replay by `MaxEvents`.
* `ListenerReturns`: the listener is at its `select`, able to receive, again and again, or has
  lost its connection.  `Left` counts the steps it still needs together with the goroutine
  it waits for, which first takes all that the driver has queued.  No step of anyone makes
  `Left` larger while the listener is at a request (`LeftSteps`), and the one that is needed
  can be taken (`LeftHelped`).  Strong fairness then receives every handler, and a
  request received is carried out before the next one (`ServesOn`).
* `EventsDelivered`: by `NoEventLost` an event that has not arrived is in a replay, in a
  request, or in the line of notifications, which is the driver's queue followed by the
  wire.  In a replay or a request the listener's return brings it on.  In the line it waits for
  its place and then for `Turns`, the steps until the first of the line is taken: the
  goroutine's, or the listener's if it has stopped that goroutine.  Requests and new events
  only make the line longer behind it (`TurnsApart`), so a busy listener delays nothing
  (`OwingSteps`).

Both ranks have no bound that the model fixes, so both proofs are inductions whose
statement is a temporal formula.  A rule with a predicate parameter cannot be used; `Descent`
states induction for a function over the naturals and is proved by the least counterexample,
and `NamedDescent` applies it to the function that gives, for each `n`, the formula
`Returns(n)` or `Arrives(e, k, n)`: of one behaviour each is true or false.

After a goroutine was overtaken none of the three is claimed, until the process is started
again: late goroutines can gather, and `busy` shows what they can do to the connection.

## 4. The event modules

`Event.tla` models `extensions/event/000-event.sql`: clients subscribe a session to a
table, a column, a row or a field, and trigger functions turn each change of a row
into rows of `event.event`, one per receiver (and per changed column, for an update).

| model | code |
|---|---|
| `table` | the user table that is subscribed to |
| `session`, `event` | the tables of the same name |
| `subscriptionTable`, `...Column`, `...Row`, `...Field` | the tables `event.subscription_*` |
| `tableTrigger`, `rowTrigger` | whether the table has the triggers a subscription creates |
| `SessionCreate`, `SessionDelete` | the functions; the deletion with its cascades |
| `SubscribeTable`, `...Column`, `...Row`, `...Field` | the functions |
| `Insert`, `Update`, `Delete` | any client's writes, each with all triggers it fires (`Change`) |
| `TableListener`, `RowListener` | the loops of `event_listener_table`, `event_listener_row` |
| `TableMatches`, `RowMatches`, `Picks` | the query they loop over, with `distinct on (session_id)` |
| `Acknowledge` | the client deletes an event it has received |

A write and its triggers are one transaction, hence one action, as is each call.
`distinct on` with an order that leaves ties returns any of the tied rows: `Picks`
is the set of all choices.  The row listener's `return null` at the first session
whose row is another is the guard `t <= s` in `RowListener`: sessions come in the
order of their ids.

Abstractions: one table, because the queries select subscriptions by the table that
fired; its key is one integer column, as the comparison in the row listener demands;
a statement changes one row; an event is what can be told apart in its JSON.
`session_attach` and `session_detach` are left out: they change what the calling
connection listens to, which the daemon does on its own connection (section 3).  A
session that was deleted leaves nothing, so its identifier stands for a new one.

`Inbox.tla` is what `event.event` promises: a change puts at most one entry into the
inbox of each existing session, an entry goes when it is acknowledged or with its
session and never comes back.  `Event` implements it, taking what one change tells a
session as one entry; `WebSocket` implements it with its `queue`.  So the daemon,
checked with arbitrary `Publish` steps, relies on nothing the triggers do not keep.

### Properties and runs

| run | instance | question |
|---|---|---|
| `events` | 2 sessions, 2 rows, 1 column, 2 values, at most 3 subscriptions at a time and 2 changes | every property below |

* `OnlyWanted`: an event needs a subscription that covers it, and a column or field
  subscriber is told of updates of the column it named only.
* `NoDuplicates`: the comment "No duplicates" at both queries: one trigger tells a
  session of one change, and of one column, once, however it subscribed.
* `TableRebuilt`: what a table subscriber is told takes the table as it was to the
  table as it is, unless the row got another key.  The new key is all an event names,
  so a subscriber cannot know which row it replaces.
* `RowRebuilt`: the same for the subscriber of a row, if neither it nor a session
  before it has subscribed to another row of the table.
* `ImplementsInbox`: as above.  `TriggersPresent` is proved only.

Bounds: two sessions for one to stand before the other; two rows for the wrong one;
three subscriptions let a session hold two of a kind, or two kinds, while another has
one; two changes for a second event beside one still queued.  A trigger looks at
nothing but the tables as they are, so longer histories add no new case.

The condition of `RowRebuilt` is what the code leaves of the promise that
`subscribe_row` "generates field_change, row_delete" (extensions/event/README.md:166):
`event_listener_row` leaves its loop with `return null` (389) where `continue` seems
meant.  A session that subscribes to one row silences the subscribers of every other
row of the table that come after it; and a session that subscribes to two rows is
told of one at most.

### Proofs

`EventProofs.tla` proves for all sessions, rows, columns, values and bounds:

* `EventTyping` and `TriggersStay`: subscriptions and events belong to sessions that
  exist, and every subscription has its trigger.
* `ToldOnlyWanted`: `Spec => OnlyWanted`.  A lemma bounds what a choice of `Picks`
  can be, a second what a turn of the loop inserts; the property follows for any choice.
* `EventIsInbox`: `Spec => ImplementsInbox`.  All entries of a step carry the number
  of that change, which no queued entry has.

* `EntriesGoneForGood`: for any entry, once it is gone from `event.event` it is gone for
  ever; from the refinement.
* `ToldOnce`: `Spec => NoDuplicates`.  The events of a turn of the loop differ in the
  columns they carry (`TurnTellsOnce`), and the turn an event comes from is known by
  its session and the kind of subscription (`FreshSources`).
* `TablesRebuilt` and `RowsRebuilt`: `Spec => TableRebuilt` and `Spec => RowRebuilt`.
  A write that keeps the key changes one row as the trigger sees it (`WriteEffect`); a
  turn that reports every column rebuilds that row (`TurnRebuilds`); and its events,
  numbered by the change, are new (`TurnIsFresh`).  Both rest on `TriggersPresent`:
  without a trigger a subscriber hears nothing.

Every property of the run is proved.

## 5. The file system modules

`PgFs.tla` models `src/pgfs.go`: a database mounted as a tree of schemas, tables, rows
and fields.  The kernel asks for names in directories it knows and for operations on
nodes it knows; a goroutine serves each request, one query after the other, while other
clients create, drop, insert, delete and change what the queries look at.

| model | code |
|---|---|
| `catalog`, `field` | which schema, table and columns exist; the rows of the table |
| `fileBuffers` | the map of the same name: the pieces written since the last fsync |
| `known` | the nodes handed to the kernel, which it may hold for ever |
| `request` | the goroutine of each request: operation, node, which query is next |
| `down` | why the process ended: a query without a result, a null, a key that is no text, the unlocked map |
| `Key`, `KeyIsText` | the key column, which is a file of its row like every other; whether a listing can scan its values into a Go string |
| `LookupSchema`; `LookupTable`, `TableKey`; `LookupRow`; `LookupField`, `FieldRow`, `FieldAttr` | the `Lookup` of `Dir`, `SchemaDir`, `TableDir`, `RowDir`, one action per query; the file server asks a new file for its attributes |
| `ReadDirAll`, `Attr`, `ReadAll`, `Write` | the methods of the same name |
| `FsyncBuild`, `FsyncExec`, `FsyncClear` | `Fsync`: the buffer is read into the statement, the statement is executed (`FsyncStore`; `FsyncMove` when it changes the key), the buffer is emptied |
| `QueryFails` | the error branches: two lookups answer ENOENT, fsync goes on, all others end the process |
| `MapRace` | Go ends a process it catches in two uses of one map, one of them an assignment |
| `Drop` ... `SetField` | other clients |

Abstractions: one schema with one table, since buffers and queries are per field; a
piece of data is its number; offsets are left out because `Write` ignores them; the
fixed attributes of directories are left out.  `Flush` has a signature the file server
does not call.  The kernel is external: it holds the lock of an inode during a write or
an fsync (so one file's fsync and write exclude each other) and reads are not cached.
`had` and `lacked` in a request, `removals`, `edits`, `moved` and `failed` are history.

The key's file holds the name of its row.  An fsync of it that succeeds moves the row to
another path (`FsyncMove`, recorded in `moved`): the nodes the kernel holds under the
old one name a row that is gone, and the next `Attr` of one ends the daemon.  The new
name is one nobody has asked for yet, so the row leaves the model; a row that comes
under a known name is `InsertRow`.

`SyncedFile.tla` is the abstract file: writes gather unseen, a sync replaces the whole
field by what has gathered or drops it, a crash drops what is not synced, other clients
edit.  `PgFs` implements it with `stored <- field`, and `pending <- fileBuffers` except
that an fsync whose update has run has an empty one.

Run `files`: 2 requests, 1 row with its key and another column, 2 pieces, 1 addition and 1
removal by others, a key that is no text, failing queries.

* `StaysUp`: the process ends for a query without a result only after something has been
  taken away, an fsync has changed a key, or a query has failed.  The other ends are
  outside it (below).
* `LookupHonest`: a lookup's answer was true at some time since it was asked.
* `PiecesInOrder`: no piece is in two fields or twice in one, and a field has its pieces in
  the order they were written, those not yet synced after those that are.
* `SyncStores`: while nothing is taken away, no key is changed and nothing fails, a field
  other than the key holds after the update what had gathered.
* `ImplementsSyncedFile`: no piece is stored twice, dropped after being half stored, or
  emptied without having been in the update.

Two requests suffice for a race, two fields of one row (the key and another) for whatever the shared map and
the row of both files can do; one removal lies before, between or after the queries of
a lookup; two pieces are two writers of one file, or one each.

What the model shows and no property excuses: a field that is null ends the daemon when
read (`down = "null"`), as does listing a table that has rows and a key that is no text
(`down = "scan"`: the key is selected without a cast and scanned into a string,
pgfs.go:252-269), and an fsync of a row that is gone, or that fails, drops what
was written without a word (`Discard` in `SyncedFile`).

`PgFsProofs.tla` proves all five, and typing, for any rows, columns, requests and bounds:
`PiecesAreInOrder`, `DaemonStaysUp`, `LookupsHonest`, `SyncsStore`, `FilesImplemented`,
`PgFsTyping`.  `PiecesAreInOrder` is proved of `SyncedFile` and carried over by the
refinement: the three steps of an fsync need no second look.  The
invariant `PgFsInv` adds to `StaysUp` and `LookupHonest` what they rest on: a node
the kernel knows existed, so it is there unless something has been removed or moved; a lookup
that has got to its second query found its node by its first; and an fsync's statement
holds what its buffer holds, because the inode is locked.

## 6. The web modules

`Http.tla` models `src/resource.go` and `src/endpoint.go`: what a goroutine does between
a request and its answer.

| model | code |
|---|---|
| `catalog` | the rows of `endpoint.resource`, `resource_binary`, `resource_function` |
| `request` | each request with its handler: the query it makes next, the connection it has, the id it found |
| `idle` | the pool's connections that nobody has |
| `Unescape` | the second unescaping of the path |
| `Match` (`Found`, `Chosen`) | the search, 300, 404, or the id found |
| `Fetch` | the second query of a text or a binary |
| `Prepare`, `CallFunction` | the second and third of a function |
| `ReadRequest`, `Perform` | the handler of `/endpoint/` |
| `Change`, `Refusals` | `endpoint.request` (`endpoint/001-server.sql` 1236-1501) and what it dispatches to: what it may do to the pages, the statuses of what it refuses |
| `QueryFails` | the error branches of the resource handler; `rows.Err` is not read |
| `Acquire`, `Proceed` | the pool gives a connection for one query, and has it back at its end, after a panic too |

Abstractions: a row is what the search and the answer tell apart: the paths it matches,
whether it is active, whether its pattern is valid and has placeholders, its content,
where a null stands for a function that fails or returns nothing.  The result of a
function is fixed with its row, when the call is prepared.  `endpoint.request` is one
transaction: it updates or deletes a row, inserts or deletes several, or calls a function,
which may do anything; so `Change` makes the tables any that are possible, those they were
included.  It answers 200 whatever number of rows it touched, and the handler answers 200
with a blank page when the query fails, before or after the commit, or returns nothing.
It refuses with 404, 405 or 500 and has then changed nothing, since its exception handler
undoes what came before.  The pool is what the websocket's listener leaves of it.  Pages are
not streamed.  `due`, `torn` and `hurt` in a request are history.

Run `http`: 2 requests, 1 connection, a text and a function that may answer one
path, every version of each row, failing queries.

* `AnswersExact`: the answer is the one the tables called for at the moment of the
  search, as computed by `Due` from the tables as they were, unless the very row changed
  between the queries or a query failed.
* `PoolExact`: every connection is idle or with one handler that is at a query.
* `RequestsAnswered`: every request is answered or the process ends.

One connection is the hardest pool; two requests are one that is answered and one that
changes what it reads, and a function and a text are found one, both or none.  Fairness:
a handler that can run does (`WF`); the pool queues those who wait for a connection, so
one is not passed over for ever (`SF` on `Acquire`).

`HttpProofs.tla` proves the safety properties for any clients, pool, rows and paths.
The invariant `HttpInv` adds that a handler between its queries, whose row has not changed
since and that met no failure, holds the only row found, with what `due` says it is
worth.

`RequestsGetAnswers` proves `RequestsAnswered` from `FairSpec`, for any number of clients, under
two hypotheses.  `Connections # {}`: the code does not ensure it, because every websocket
keeps a connection of the same pool.  `[]HandlersNotStuck`: a handler has a next step at
every stage and takes an idle connection (section 9).
The argument: a handler only moves forward (`StageMoves`); one with a connection uses it up
and gives it back (`HolderFrees`); so a connection that a handler waits for comes free
infinitely often, whoever has it (`PoolFrees`, over all other clients); strong fairness
then gives it to the one that waits; and there are at most three queries.

What the model shows and no property excuses: a path that cannot be unescaped twice, and
a body that cannot be read, end the daemon; one function whose pattern is no regular
expression makes every page a 404 (`Searchable`); a page whose row goes in between is
blank with status 200; an answer of `/endpoint/` with status 200 says nothing of what was
changed.

## 7. The daemon

`Boot.tla` models `main()` over any number of boots.

| model | code |
|---|---|
| `config` | the fields of `tomlConfig` that choose between branches; `mounts` is false where pgfs is not supported (`pgfs_unsupported.go`) or not enabled |
| `disk`, `server` | the runtime directory, the embedded server: both outlive the process |
| `installed` | the database, how many extensions, the superuser, how many bundles imported and checked out |
| `main`, `epg`, `fresh` | the statement `main` is at, `epg.IsStarted()` with the loop over extensions, `!epgFilesExist` |
| `stopper` | the goroutines that call `epg.Stop`: the signal handler, a request to halt, `main` |
| `service` | the goroutines of the web server and the mount |
| `LoadConfig` ... `Close` | the statements of `main` in their order |
| `Ask`, `Stop`, `Stopped` | a signal or a request to halt is received; `epg.Stop` is called; it returns and the process ends |
| `WebEnds`, `MountEnds` | the goroutines return, or end the process |

The library is external: `Start` needs whole files and no running server, and waits;
`Stop` of a server that is being stopped may fail at once, and the process then ends while
the server still stops; the server goes on when the process ends.  Init is a first
boot with the files of an embedded server not there, or with an empty database that is
not embedded.  `disturbed` says that something outside failed during this boot, `lapsed`
that some boot ended after its last extension and before its last checkout, or did not
see an error; both are history.

Run `boot`: 2 extensions, 2 bundles, every configuration; no bound on boots, failures,
signals or kills.

* `ServesComplete`: whoever is served is served by a complete installation, unless some
  boot lapsed; main looks at the number of extensions alone.
* `FailsForLeftOvers`: a boot that nothing disturbs fails only for what an earlier one
  left behind.
* `SpoiltStaysDown`: what no later boot can take over is never served.
* `CleanStop`: a process that ends by one of its stoppers leaves no server running, also
  when several stop at once, but for a signal that finds the server still starting.
* `StopObeyed`: a signal, a request to halt or main's own decision to stop ends the
  process, whatever else main, the server and the other two are doing.

Two of each make a first, a last and a cut between them.  Fairness: `main` and the
goroutines that stop the server run on, and a server that was told to start or stop does.

`BootProofs.tla` proves the safety properties for any numbers of extensions and bundles.
The invariant `BootInv` ties what is installed to where main is (what is served follows
from the step before, that from the step before it), and says which goroutine may be
stopping a server in which state; `SpoiltStaysDown` has an invariant of its own,
`StillSpoilt`, from the moment of the cut.  `StopsAreObeyed` proves `StopObeyed` from
`FairSpec` and `[]StopsNotBlocked` (section 9): a stopper that was asked keeps
being asked until it calls `epg.Stop` or the process has ended.

## 8. What is not modelled

`PROJECT.json` gives the reason for each component.  In short: remotes, garbage collection
and the remaining views of `bundle` are planned (section 10); the dispatch inside `endpoint.request` builds SQL
from a path and is string construction for the most part, so only what it may do as a whole
is modelled (section 6); `meta` is an empty
submodule; user interface tables, wrappers of other programs, grants, scripts and data
have no state machine of their own.

## 9. What is only model-checked

The five liveness theorems (`StopsAreObeyed`, `RequestsGetAnswers`, `AttachesAnswered`,
`DetachesDelete`, `EventsDelivered`) have a hypothesis about `ENABLED`, for which the provers
have no rule: `StopsNotBlocked`, `HandlersNotStuck`, `GoroutinesNotStuck`.  The first two hold
because each of their actions has a branch for every state, and no run is spent on them; what
the code could break is `StopObeyed` and `RequestsAnswered`, which the runs check without any
hypothesis.  `GoroutinesNotStuck` is more than that, since whether a goroutine can go on
depends on what others have done (a cancelled context, a closed channel, a free connection),
and the run `requests` checks it.

All other properties of the passing runs are theorems, for all constants.  The type
invariants are theorems too, of every module; no run repeats them.

## 10. Plan

Done: `Bundle` with merging, `BundleStatus`, `History`, `WebSocket`, `Event`, `Inbox`,
`PgFs`, `SyncedFile`, `Http`, `Boot` and their proofs.  Next, in this order:

1. `BundleUtils`: `garbage_collect` against `History`; it deletes recorded nulls.
2. `Commits`: two sessions in `commit()`, statement by statement.
3. `Remotes`: push and pull between two repositories; `untracked_row` and `tracked_row`.
