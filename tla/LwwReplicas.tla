---------------------------- MODULE LwwReplicas -----------------------------
(***************************************************************************)
(* What vault sync promises, whatever the order of pulls, merges, pushes,  *)
(* failures and restarts: a set of replicas of one table of stamped rows,  *)
(* and an archive of published tables.  A replica's row changes only       *)
(*   - to a row with a later stamp, which is either in the archive or was  *)
(*     stamped just now on that replica, or                                *)
(*   - because the user restored a whole table from the archive.           *)
(* Nothing is invented and, restores aside, no row ever goes back in time. *)
(***************************************************************************)
EXTENDS Integers

CONSTANTS Replica, Row, RowId

VARIABLES
  store,      \* [Replica -> [RowId -> Row]], the table of each replica
  archive,    \* the published tables
  clock       \* the latest stamp given out

vars == <<store, archive, clock>>

Init ==
  /\ archive = {}
  /\ \A d \in Replica, r \in RowId : store[d][r].ts <= clock

FreshlyStamped(row) == clock < row.ts /\ row.ts <= clock'

(* One replica edits rows, learns rows of one published table, or both at  *)
(* once; published tables may be forgotten.                                *)
Advance(d) ==
  /\ clock <= clock'
  /\ archive' \subseteq archive
  /\ \A e \in Replica \ {d} : store'[e] = store[e]
  /\ \E t \in archive \cup {store[d]} :
       \A r \in RowId :
          \/ store'[d][r] = store[d][r]
          \/ store'[d][r] = t[r] /\ t[r].ts > store[d][r].ts
          \/ FreshlyStamped(store'[d][r])

(* One replica's table is replaced by a published one.                     *)
Restore(d) ==
  /\ clock <= clock'
  /\ archive' \subseteq archive
  /\ \A e \in Replica \ {d} : store'[e] = store[e]
  /\ \E t \in archive :
       \A r \in RowId : store'[d][r] = t[r] \/ FreshlyStamped(store'[d][r])

(* Replicas publish their tables, and old tables are forgotten.            *)
Publish ==
  /\ archive' \subseteq archive \cup {store[d] : d \in Replica}
  /\ UNCHANGED <<store, clock>>

Next ==
  \/ \E d \in Replica : Advance(d) \/ Restore(d)
  \/ Publish

Spec == Init /\ [][Next]_vars

=============================================================================
