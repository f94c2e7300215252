----------------------------- MODULE SyncedFile ------------------------------
(***************************************************************************)
(* What a field is to those who write it through the mounted file system:  *)
(* writes gather unseen, a sync replaces the whole field by exactly what   *)
(* has gathered since the sync before, or drops it, and a crash drops      *)
(* everything that has not been synced.  Other clients of the database     *)
(* edit fields directly.  Pieces written are numbered in the order they    *)
(* were accepted.                                                          *)
(***************************************************************************)
EXTENDS Naturals, Sequences

CONSTANTS Files,
          Edits     \* what other clients put there, "nothing there" included

VARIABLES
    stored,    \* what each field holds
    pending,   \* what has been written to it since the last sync
    written    \* number of pieces written so far

vars == <<stored, pending, written>>

Empty == [f \in Files |-> <<>>]

Init == stored \in [Files -> Edits] /\ pending = Empty /\ written = 0

Write(f) ==
    /\ written' = written + 1
    /\ pending' = [pending EXCEPT ![f] = Append(@, written + 1)]
    /\ UNCHANGED stored

Sync(f) ==
    /\ stored' = [stored EXCEPT ![f] = pending[f]]
    /\ pending' = [pending EXCEPT ![f] = <<>>]
    /\ UNCHANGED written

Discard(f) ==
    /\ pending' = [pending EXCEPT ![f] = <<>>]
    /\ UNCHANGED <<stored, written>>

Edit ==
    /\ DOMAIN stored' = Files
    /\ \A f \in Files : stored'[f] \in Edits \cup {stored[f]}
    /\ UNCHANGED <<pending, written>>

Crash == pending' = Empty /\ UNCHANGED <<stored, written>>

Next == \/ \E f \in Files : Write(f) \/ Sync(f) \/ Discard(f)
        \/ Edit
        \/ Crash

Spec == Init /\ [][Next]_vars

-----------------------------------------------------------------------------
Pieces(s) == {s[i] : i \in DOMAIN s}
Rising(s) == \A i, j \in DOMAIN s : i < j => s[i] < s[j]

\* The pieces written that are in f, synced or not.
Held(f) == Pieces(pending[f]) \cup (IF stored[f] \in Edits THEN {} ELSE Pieces(stored[f]))

(* Whatever is written, synced, dropped or edited, no piece is ever in two *)
(* files, or twice in one; a file has its pieces in the order of writing,  *)
(* those not yet synced after those that are.                              *)
PiecesInOrder ==
    \A f \in Files :
        /\ Rising(pending[f]) /\ Held(f) \subseteq 1..written
        /\ stored[f] \notin Edits =>
              /\ Rising(stored[f])
              /\ \A p \in Pieces(stored[f]), q \in Pieces(pending[f]) : p < q
        /\ \A g \in Files \ {f} : Held(f) \cap Held(g) = {}
=============================================================================
