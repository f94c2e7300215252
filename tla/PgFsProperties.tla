--------------------------- MODULE PgFsProperties ----------------------------
(***************************************************************************)
(* What module PgFs owes to those who use the mounted file system, and to  *)
(* the daemon it is a part of.                                             *)
(***************************************************************************)
EXTENDS PgFs

(* A query without a result ends the daemon, and with it the web server    *)
(* (log.Fatal at pgfs.go:170, :259, :345, :432, :457).  That happens only  *)
(* once something that existed has been taken away, by another client or   *)
(* by an fsync of a key, or a query has failed: no order of lookups, reads *)
(* and additions leads there.  What else ends the daemon is not covered: a *)
(* null that is read, a key that is no text, two uses of fileBuffers.      *)
StaysUp == down = "query" => removals > 0 \/ moved \/ failed

(* A lookup, of up to three queries, finds nothing that did not exist at   *)
(* some time since it was asked for, and misses nothing that existed all   *)
(* the time, unless a query failed.                                        *)
LookupHonest ==
    \A u \in Users : request[u].op = "lookup" =>
        /\ request[u].at = "found" => request[u].had
        /\ request[u].at = "enoent" => request[u].lacked \/ failed

-----------------------------------------------------------------------------
\* An fsync counts from its update on; of a key, from its end, for a key holds
\* its row's name and nothing that has been written to it.
Syncing(f) == /\ f[2] # Key
              /\ \E u \in Users : /\ request[u].op = "fsync" /\ request[u].at = "executed"
                                 /\ request[u].node = f
Pending(f) == IF Syncing(f) THEN <<>> ELSE fileBuffers[f]
Stored(f)  == IF ~Present(f) THEN Absent ELSE IF f[2] = Key THEN <<0>> ELSE field[f[1]][f[2]]

(* While nothing is taken away, no key is changed and no query fails, an   *)
(* fsync stores what has gathered, whoever wrote it: its silence about     *)
(* errors (pgfs.go:495) is about these only.                               *)
SyncStores ==
    [][\A u \in Users, f \in Rows \X Columns :
          /\ At(u, "fsync", "built") /\ request[u].node = f /\ request'[u].at = "executed"
          /\ removals = 0 /\ ~moved /\ ~failed'
          => Stored(f)' = fileBuffers[f]]_vars

F == INSTANCE SyncedFile WITH
        Files   <- Fields,
        Edits   <- Edits \cup {Absent},
        stored  <- [f \in Fields |-> Stored(f)],
        pending <- [f \in Fields |-> Pending(f)]

(* Fields change by whole syncs and other clients' edits only, and a sync  *)
(* takes exactly what was written since the one before, although it runs   *)
(* in three steps and without a lock of its own.                           *)
ImplementsSyncedFile == F!Spec

(* What has been written is stored in its own field, in the order it was   *)
(* written, and once, whichever goroutines write and sync (pgfs.go:459-    *)
(* 503): a buffer is neither mixed up with another nor stored again.       *)
PiecesInOrder == F!PiecesInOrder
=============================================================================
