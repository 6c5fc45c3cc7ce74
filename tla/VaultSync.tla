----------------------------- MODULE VaultSync ------------------------------
(***************************************************************************)
(* Vault sync: several devices, each with its own database, exchange       *)
(* encrypted snapshots through a shared store that keeps the newest Keep   *)
(* versions (commands/sync.rs, sync/mod.rs, Versioned in sync/provider.rs).*)
(*                                                                         *)
(* On one device the sync commands and the periodic task exclude each      *)
(* other (sync_operation), but every await between two calls is a point    *)
(* where the user's edits, the other devices and a shutdown get in.  An    *)
(* operation is therefore a record op[d] advanced one remote call or one   *)
(* database transaction at a time.  A download is folded into the          *)
(* transaction that uses it, the name of an upload into the export, and    *)
(* the saving of the connection into the step before it: nothing that      *)
(* happens in between can tell the two apart, except a shutdown, which the *)
(* actions allow for.                                                      *)
(*                                                                         *)
(* A stored version is called by its name, a number: names are given out   *)
(* in the order of time and sort like it.  The devices' clocks agree.      *)
(***************************************************************************)
EXTENDS VaultRecords

CONSTANTS
  Device,       \* the machines that share the store
  Key,          \* sync passphrases
  Keep,         \* KEEP_VERSIONS
  Shared,       \* records every device has at the beginning
  Legacy,       \* devices whose saved connection predates seen_version_ids
  MaxClock,     \* bound: no user edits once the clock is here
  MaxNames,     \* bound: no more uploads than this
  MaxResets     \* bound: restores, forced connects, disconnects and imports

ASSUME SyncAssumption ==
  /\ Device # {} /\ Key # {}
  /\ Keep \in Nat \ {0} /\ IsFiniteSet(Device)
  /\ Legacy \subseteq Device /\ Shared \subseteq Rec
  /\ MaxClock \in Nat /\ MaxNames \in Nat /\ MaxResets \in Nat

VARIABLES
  db,           \* db[d]: the rows in d's database
  minted,       \* record ids some device has created (ids are uuids)
  conn,         \* conn[d]: d's saved Connection
  op,           \* op[d]: the operation that holds d's sync_operation lock
  remote,       \* the stored versions
  named,        \* the latest version name given out
  file,         \* the tables in exported backup files ({} or one table)
  clock,        \* the latest stamp given out
  resets,       \* how many resets the users asked for
  acked,        \* history: acked[r] is the latest stamp of r in a snapshot
                \* whose sync succeeded, while nobody reset anything
  skipped,      \* history: skipped[d], versions d listed and did not mean
                \* to pull, for want of a list of those it had seen
  overtaken,    \* history: an upload finished too late, see TooLate
  restoredAt    \* history: the clock at d's last restore

vars == <<db, minted, conn, op, remote, named, file, clock, resets,
          acked, skipped, overtaken, restoredAt>>
store == <<remote, named>>
history == <<acked, skipped, overtaken, restoredAt>>

Name == Nat                           \* no version is called 0
Version == [name : Name, snap : Snapshot, key : Key]

Names(versions) == {v.name : v \in versions}
Latest(names) == CHOOSE n \in names \cup {0} : \A m \in names : m <= n
NewerThan(v) == {w \in remote : w.name > v.name}

(* An operation's snapshots are options: {} is None, {s} is Some(s).        *)
OpState == {"idle", "pull", "export", "put", "prune", "restore", "clear", "connect"}

NoOp(k) ==
  [pc |-> "idle", listed |-> {}, todo |-> {}, snap |-> {}, head |-> {},
   name |-> 0, key |-> k]

Disconnected(k) ==
  [on |-> FALSE, key |-> k, pending |-> FALSE, seen |-> {}, initialized |-> FALSE]

SomeKey == CHOOSE k \in Key : TRUE
Finished(d) == op' = [op EXCEPT ![d] = NoOp(SomeKey)]

(* The devices start with the same rows, created one moment ago and not    *)
(* yet backed up anywhere; all connections but the Legacy ones are to be   *)
(* made.                                                                   *)
SharedVault ==
  [r \in Rec |-> IF r \in Shared THEN [ts |-> 1, up |-> Root, dead |-> FALSE]
                                  ELSE Absent]

Init ==
  /\ db = [d \in Device |-> SharedVault]
  /\ minted = Shared
  /\ conn = [d \in Device |-> IF d \in Legacy
                             THEN [Disconnected(SomeKey) EXCEPT !.on = TRUE]
                             ELSE Disconnected(SomeKey)]
  /\ op = [d \in Device |-> NoOp(SomeKey)]
  /\ remote = {} /\ named = 0
  /\ file = {}
  /\ clock = 1
  /\ resets = 0
  /\ acked = [r \in Rec |-> 0]
  /\ skipped = [d \in Device |-> {}]
  /\ overtaken = FALSE
  /\ restoredAt = [d \in Device |-> 0]

-----------------------------------------------------------------------------
(* The user's edits: repository transactions, at any time, outside the     *)
(* sync lock.                                                              *)

Create(d, r, p) ==
  /\ clock < MaxClock
  /\ r \notin minted
  /\ ValidParent(db[d], r, p)
  /\ clock' = clock + 1
  /\ db' = [db EXCEPT ![d] = Saved(@, r, p, clock')]
  /\ minted' = minted \cup {r}
  /\ UNCHANGED <<conn, op, store, file, resets, history>>

Update(d, r, p) ==
  /\ clock < MaxClock
  /\ r \in Live(db[d])
  /\ ValidParent(db[d], r, p)
  /\ clock' = clock + 1
  /\ db' = [db EXCEPT ![d] = Saved(@, r, p, clock')]
  /\ UNCHANGED <<minted, conn, op, store, file, resets, history>>

Delete(d, r) ==
  /\ clock < MaxClock
  /\ r \in Live(db[d])
  /\ clock' = clock + 1
  /\ db' = [db EXCEPT ![d] = Deleted(@, r, clock')]
  /\ UNCHANGED <<minted, conn, op, store, file, resets, history>>

-----------------------------------------------------------------------------
(* sync_push_inner, one remote call or transaction per action.             *)

(* While a restore is pending nothing is merged.                           *)
AlwaysMerges(d) == TRUE                   \* a fault: a pending restore is ignored

Merges(d) == ~conn[d].pending

(* The versions to pull: the latest, then those not seen before, newest    *)
(* first.  On a connection that never kept a list only the latest.         *)
ToPull(d) ==
  {n \in Names(remote) :
     \/ n = Latest(Names(remote))
     \/ Merges(d) /\ conn[d].initialized /\ n \notin conn[d].seen}

AfterPull(todo) == IF todo = {} THEN "export" ELSE "pull"

(* Take the lock, load the connection and list the versions.               *)
SyncList(d) ==
  /\ op[d].pc = "idle"
  /\ conn[d].on
  /\ op' = [op EXCEPT ![d] =
       [NoOp(conn[d].key) EXCEPT !.pc = AfterPull(ToPull(d)),
                                 !.listed = Names(remote),
                                 !.todo = ToPull(d)]]
  /\ skipped' = [skipped EXCEPT ![d] =
       IF conn[d].initialized THEN @
       ELSE @ \cup (Names(remote) \ {Latest(Names(remote))})]
  /\ UNCHANGED <<db, minted, conn, store, file, clock, resets,
                 acked, overtaken, restoredAt>>

(* Fetch the next version, merge every row and repair cycles in one        *)
(* transaction.                                                            *)
MergeInto(d, s) ==
  /\ db' = [db EXCEPT ![d] = Repair(Merge(@, s), clock + 1)]
  /\ clock' = ClockAfterRepair(Merge(db[d], s), clock)

IsNext(d, v) == op[d].todo # {} /\ v.name = Latest(op[d].todo)
IsLatest(d, v) == v.name = Latest(op[d].listed)

Pulled(d, v, head) ==
  op' = [op EXCEPT ![d] = [@ EXCEPT !.todo = op[d].todo \ {v.name}, !.head = head,
                                    !.pc = AfterPull(op[d].todo \ {v.name})]]

Pull(d) ==
  /\ \E v \in remote :
       /\ op[d].pc = "pull" /\ IsNext(d, v) /\ v.key = op[d].key
       /\ IF Merges(d) THEN MergeInto(d, v.snap) ELSE UNCHANGED <<db, clock>>
       /\ Pulled(d, v, IF IsLatest(d, v) THEN {v.snap} ELSE op[d].head)
  /\ UNCHANGED <<minted, conn, store, file, resets, history>>

(* An older version under another passphrase is passed over.               *)
PassOver(d) ==
  /\ \E v \in remote :
       /\ op[d].pc = "pull" /\ IsNext(d, v) /\ v.key # op[d].key /\ ~IsLatest(d, v)
       /\ Pulled(d, v, op[d].head)
  /\ UNCHANGED <<db, minted, conn, store, file, clock, resets, history>>

(* The sync succeeds: what was listed is seen, what was exported is        *)
(* backed up.                                                              *)
MarkStoredSeen(d) ==    \* a fault: what was pushed meanwhile is taken for seen
  /\ conn' = [conn EXCEPT ![d] =
       [@ EXCEPT !.pending = FALSE, !.initialized = TRUE, !.seen = Names(remote)]]

MarkSeen(d) ==
  /\ conn' = [conn EXCEPT ![d] =
       [@ EXCEPT !.pending = FALSE, !.initialized = TRUE, !.seen = op[d].listed]]

LaterStamps(s) ==
  IF resets > 0 THEN acked
  ELSE [r \in Rec |-> IF s[r].ts > acked[r] THEN s[r].ts ELSE acked[r]]

Succeed(d, s) ==
  /\ MarkSeen(d) /\ Finished(d)
  /\ acked' = LaterStamps(s)
  /\ UNCHANGED skipped

NothingNewPulled(d) == op[d].head # {}    \* a fault: any version counts as equal

Unchanged(d) == db[d] \in op[d].head

(* export_snapshot in one read transaction: what differs from the latest   *)
(* version is uploaded, under a name that bears the present time           *)
(* (version_filename).                                                     *)
ExportUnchanged(d) ==
  /\ op[d].pc = "export"
  /\ Unchanged(d)
  /\ Succeed(d, db[d])
  /\ UNCHANGED <<db, minted, store, file, clock, resets, overtaken, restoredAt>>

Export(d) ==
  /\ op[d].pc = "export"
  /\ ~Unchanged(d)
  /\ named < MaxNames
  /\ named' = named + 1
  /\ op' = [op EXCEPT ![d] = [@ EXCEPT !.pc = "put", !.snap = {db[d]}, !.name = named']]
  /\ UNCHANGED <<db, minted, conn, remote, file, clock, resets, history>>

(* The upload gets through, maybe after later named ones: so many that it  *)
(* may be pruned before the other devices, each with at most one push      *)
(* under way that did not list it, come to pull it.                        *)
TooLate(v) == Cardinality(NewerThan(v)) + Cardinality(Device) > Keep

Put(d) ==
  /\ op[d].pc = "put"
  /\ \E s \in op[d].snap :
       LET v == [name |-> op[d].name, snap |-> s, key |-> op[d].key]
       IN /\ remote' = remote \cup {v}
          /\ overtaken' = (overtaken \/ TooLate(v))
  /\ op' = [op EXCEPT ![d].pc = "prune"]
  /\ UNCHANGED <<db, minted, conn, named, file, clock, resets, acked, skipped, restoredAt>>

(* Delete what is not among the newest Keep versions, newest first.  When  *)
(* a delete fails the rest stays and the push is reported as failed.       *)
StaleNewest == {v \in remote : Cardinality(remote \ NewerThan(v)) > Keep}
                                 \* a fault: the list is sorted the wrong way

Stale == {v \in remote : Cardinality(NewerThan(v)) >= Keep}

PruneAll(d) ==
  /\ op[d].pc = "prune"
  /\ remote' = remote \ Stale
  /\ \E s \in op[d].snap : Succeed(d, s)
  /\ UNCHANGED <<db, minted, named, file, clock, resets, overtaken, restoredAt>>

PruneThenFail(d) ==
  /\ op[d].pc = "prune"
  /\ \/ \E last \in Stale : remote' = {v \in remote : v \in Stale => v.name <= last.name}
     \/ remote' = remote \ Stale
  /\ Finished(d)
  /\ UNCHANGED <<db, minted, conn, named, file, clock, resets, history>>

-----------------------------------------------------------------------------
(* Restores: all rows are replaced, in one transaction.                    *)
Replace(d, s) ==
  /\ db' = [db EXCEPT ![d] = Repair(s, clock + 1)]
  /\ clock' = ClockAfterRepair(s, clock)
  /\ restoredAt' = [restoredAt EXCEPT ![d] = clock']

(* sync_restore_version                                                    *)
RestoreList(d, n) ==
  /\ op[d].pc = "idle"
  /\ conn[d].on
  /\ resets < MaxResets
  /\ n \in Names(remote)
  /\ resets' = resets + 1
  /\ op' = [op EXCEPT ![d] =
       [NoOp(conn[d].key) EXCEPT !.pc = "restore", !.listed = Names(remote),
                                 !.todo = {n}]]
  /\ UNCHANGED <<db, minted, conn, store, file, clock, history>>

(* Replace the rows and save the connection in one transaction.  A restore *)
(* of anything but the latest version stays pending until the next push.   *)
RestoreApply(d) ==
  /\ op[d].pc = "restore"
  /\ \E v \in remote : IsNext(d, v) /\ v.key = op[d].key /\ Replace(d, v.snap)
  /\ conn' = [conn EXCEPT ![d] =
       [@ EXCEPT !.pending = Latest(op[d].listed) \notin op[d].todo,
                 !.seen = op[d].listed, !.initialized = TRUE]]
  /\ Finished(d)
  /\ UNCHANGED <<minted, store, file, resets, acked, skipped, overtaken>>

-----------------------------------------------------------------------------
(* sync_connect and sync_disconnect                                        *)

ConnectList(d, k) ==
  /\ op[d].pc = "idle"
  /\ ~conn[d].on
  /\ op' = [op EXCEPT ![d] =
       [NoOp(k) EXCEPT !.pc = "connect", !.listed = Names(remote),
                       !.todo = {n \in Names(remote) : n = Latest(Names(remote))}]]
  /\ UNCHANGED <<db, minted, conn, store, file, clock, resets, history>>

ForceConnectList(d, k) ==
  /\ op[d].pc = "idle"
  /\ ~conn[d].on
  /\ remote # {}
  /\ resets < MaxResets
  /\ resets' = resets + 1
  /\ op' = [op EXCEPT ![d] =
       [NoOp(k) EXCEPT !.pc = "clear", !.listed = Names(remote)]]
  /\ UNCHANGED <<db, minted, conn, store, file, clock, history>>

(* clear(): delete every object, newest first, and save the connection; a  *)
(* failure leaves the rest and no connection.                              *)
Connected(d) ==
  conn' = [conn EXCEPT ![d] =
    [on |-> TRUE, key |-> op[d].key, pending |-> FALSE,
     seen |-> op[d].listed, initialized |-> TRUE]]

ConnectClear(d) ==
  /\ op[d].pc = "clear"
  /\ \/ /\ remote' = {}
        /\ Connected(d) \/ UNCHANGED conn
     \/ /\ \E last \in remote : remote' = {v \in remote : v.name <= last.name}
        /\ UNCHANGED conn
  /\ Finished(d)
  /\ UNCHANGED <<db, minted, named, file, clock, resets, history>>

(* Merge the latest version and save the connection in one transaction:    *)
(* every listed version is taken for seen, though only the latest was      *)
(* pulled.  A latest version under another passphrase is a mismatch, see   *)
(* Abort.                                                                  *)
ConnectSave(d) ==
  /\ op[d].pc = "connect"
  /\ \/ op[d].todo = {} /\ UNCHANGED <<db, clock, skipped>>
     \/ \E v \in remote :
          /\ IsNext(d, v) /\ v.key = op[d].key
          /\ MergeInto(d, v.snap)
          /\ skipped' = [skipped EXCEPT ![d] = op[d].listed \ {v.name}]
  /\ Connected(d)
  /\ Finished(d)
  /\ UNCHANGED <<minted, store, file, resets, acked, overtaken, restoredAt>>

Disconnect(d) ==
  /\ op[d].pc = "idle"
  /\ conn[d].on
  /\ resets < MaxResets
  /\ resets' = resets + 1
  /\ conn' = [conn EXCEPT ![d] = Disconnected(SomeKey)]
  /\ UNCHANGED <<db, minted, op, store, file, clock, history>>

-----------------------------------------------------------------------------
(* Backup files: sync_file_export and sync_file_import.  The saved         *)
(* connection is left alone.                                               *)

FileExport(d) ==
  /\ op[d].pc = "idle"
  /\ resets < MaxResets
  /\ file' = {db[d]}
  /\ UNCHANGED <<db, minted, conn, op, store, clock, resets, history>>

FileImport(d) ==
  /\ op[d].pc = "idle"
  /\ resets < MaxResets
  /\ resets' = resets + 1
  /\ \E s \in file : Replace(d, s)
  /\ UNCHANGED <<minted, conn, op, store, file, acked, skipped, overtaken>>

-----------------------------------------------------------------------------
(* The wanted version was pruned meanwhile, or is under another            *)
(* passphrase: a sync or a restore fails, a connect reports a mismatch.    *)
NoSuchVersion(d) ==
  /\ op[d].todo # {}
  /\ \A v \in remote :
       IsNext(d, v) => v.key # op[d].key /\ (op[d].pc = "pull" => IsLatest(d, v))
  /\ Finished(d)
  /\ UNCHANGED <<db, minted, conn, store, file, clock, resets, history>>

(* A call fails or the app quits: the operation ends where it is and       *)
(* releases the lock.                                                      *)
Abort(d) ==
  /\ op[d].pc # "idle"
  /\ Finished(d)
  /\ UNCHANGED <<db, minted, conn, store, file, clock, resets, history>>

Edit(d) ==
  \/ \E r \in Rec, p \in Parent : Create(d, r, p) \/ Update(d, r, p)
  \/ \E r \in Rec : Delete(d, r)

Sync(d) ==
  \/ SyncList(d) \/ Pull(d) \/ PassOver(d) \/ ExportUnchanged(d) \/ Export(d)
  \/ Put(d) \/ PruneAll(d) \/ NoSuchVersion(d)

RestoreVersion(d) == (\E n \in Names(remote) : RestoreList(d, n)) \/ RestoreApply(d)

Connect(d) ==
  \/ \E k \in Key : ConnectList(d, k) \/ ForceConnectList(d, k)
  \/ ConnectClear(d) \/ ConnectSave(d)

Command(d) == RestoreVersion(d) \/ Connect(d) \/ Disconnect(d) \/ FileExport(d) \/ FileImport(d)

Failure(d) == PruneThenFail(d) \/ Abort(d)

Next == \E d \in Device : Edit(d) \/ Sync(d) \/ Command(d) \/ Failure(d)

Spec == Init /\ [][Next]_vars

-----------------------------------------------------------------------------
(* Properties.                                                             *)

Connection ==
  [on : BOOLEAN, key : Key, pending : BOOLEAN, seen : SUBSET Name,
   initialized : BOOLEAN]

OpRecord ==
  [pc : OpState, listed : SUBSET Name, todo : SUBSET Name, snap : SUBSET Snapshot,
   head : SUBSET Snapshot, name : Nat, key : Key]

(* Every variable has the shape the code gives it.                         *)
TypeOK ==
  /\ db \in [Device -> Snapshot]
  /\ minted \in SUBSET Rec
  /\ conn \in [Device -> Connection]
  /\ op \in [Device -> OpRecord]
  /\ remote \in SUBSET Version
  /\ named \in Nat
  /\ file \in SUBSET Snapshot
  /\ clock \in Nat /\ resets \in Nat
  /\ acked \in [Rec -> Nat]
  /\ skipped \in [Device -> SUBSET Name]
  /\ overtaken \in BOOLEAN
  /\ restoredAt \in [Device -> Nat]

(* Whatever two devices did to the tree at the same time, no merge leaves  *)
(* live groups nested in each other (validate_parent, repair_cycles).      *)
NoGroupCycles == \A d \in Device : Acyclic(db[d])

(* A version a device has taken for seen is never pulled again, so its     *)
(* rows are already in the device's database, in that form or a later one. *)
(* Not so the versions a device lists when it connects: see skipped.       *)
SeenIsAbsorbed ==
  resets = 0 =>
    \A d \in Device, v \in remote :
       v.name \in conn[d].seen \ skipped[d] /\ v.key = conn[d].key =>
         \A r \in Rec : db[d][r].ts >= v.snap[r].ts

(* What a successful sync reported as backed up stays in the store, in     *)
(* that form or a later one, through racing pushes, failed pushes and the  *)
(* pruning of old versions.  Not so when a device passed versions over:    *)
(* for want of a list (skipped), or because they are under a passphrase it *)
(* does not know.                                                          *)
SamePassphrase ==
  \A d, e \in Device : conn[d].on /\ conn[e].on => conn[d].key = conn[e].key

Undisturbed ==
  /\ resets = 0 /\ ~overtaken
  /\ SamePassphrase
  /\ \A d \in Device : skipped[d] = {}

AcknowledgedIsStored ==
  Undisturbed =>
    \A r \in Rec : acked[r] = 0 \/ \E v \in remote : v.snap[r].ts >= acked[r]

(* After a restore of an older version, and until a push has published it, *)
(* sync lets nothing in that would undo the restore: rows change only by   *)
(* the user's own edits.                                                   *)
PendingRestoreKept ==
  [][\A d \in Device :
       conn[d].pending /\ op[d].pc # "restore" /\ resets' = resets =>
         \A r \in Rec : db'[d][r] = db[d][r] \/ db'[d][r].ts > clock]_vars

(* A restore replaces the data for good: what the device held before does  *)
(* not come back by itself.                                                *)
RestoreIsFinal ==
  [][\A d \in Device, r \in Rec :
       op[d].pc # "restore" /\ resets' = resets =>
         db'[d][r] = db[d][r] \/ db'[d][r].ts > restoredAt[d]]_vars

(* A deleted group leaves no live host behind in it.                       *)
NoOrphans == \A d \in Device : Orphans(db[d]) = {}

(* The tables that have left a database: stored, in a file or in transit.  *)
Published ==
  {v.snap : v \in remote} \cup file \cup UNION {op[d].snap \cup op[d].head : d \in Device}

Lww == INSTANCE LwwReplicas WITH
  Replica <- Device, RowId <- Rec, store <- db, archive <- Published

(* Vault sync implements replicated last-writer-wins tables: a merge takes *)
(* a row only from a published table and only if it is later, restores     *)
(* aside no row goes back in time, and nothing is published that was not   *)
(* in a database.                                                          *)
LastWriterWins == Lww!Spec

=============================================================================
