-------------------------- MODULE VaultSyncProofs ---------------------------
(***************************************************************************)
(* Theorems about vault sync, for any devices, records, passphrases,       *)
(* number of kept versions and bounds.  The first part is about types,     *)
(* restores and the refinement of LwwReplicas; the second about the tree   *)
(* of groups, what a device takes for seen and what a sync backed up.      *)
(***************************************************************************)
EXTENDS VaultSync, FiniteSetTheorems, TLAPS

-----------------------------------------------------------------------------
(* The functions on rows keep a table a table.                             *)

LEMMA SomeKeyIsKey == SomeKey \in Key
  BY SyncAssumption DEF SomeKey

LEMMA RowIsRow ==
  ASSUME NEW s \in Snapshot, NEW r \in Rec
  PROVE  /\ s[r] \in Row
         /\ s[r].ts \in Nat /\ s[r].up \in Parent /\ s[r].dead \in BOOLEAN
  BY DEF Snapshot, Row

LEMMA SharedVaultType == SharedVault \in Snapshot
  BY DEF SharedVault, Snapshot, Row, Absent, Parent, Root

LEMMA MergeType ==
  ASSUME NEW s \in Snapshot, NEW t \in Snapshot
  PROVE  Merge(s, t) \in Snapshot
  BY DEF Merge, Snapshot

LEMMA LaterStampType ==
  ASSUME NEW previous \in Nat, NEW now \in Nat
  PROVE  LaterStamp(previous, now) \in Nat
  BY DEF LaterStamp

LEMMA RepairType ==
  ASSUME NEW s \in Snapshot, NEW now \in Nat
  PROVE  Repair(s, now) \in Snapshot
  <1>1. ASSUME NEW r \in Rec
        PROVE  [s[r] EXCEPT !.up = Root, !.ts = LaterStamp(s[r].ts, now)] \in Row
    <2>1. s[r] \in Row /\ LaterStamp(s[r].ts, now) \in Nat
      BY RowIsRow, LaterStampType
    <2>2. QED
      BY <2>1 DEF Row, Parent
  <1>2. ASSUME NEW r \in Rec PROVE s[r] \in Row
    BY RowIsRow
  <1>3. QED
    BY <1>1, <1>2 DEF Repair, Snapshot

LEMMA SavedType ==
  ASSUME NEW s \in Snapshot, NEW r \in Rec, NEW p \in Parent, NEW now \in Nat
  PROVE  Saved(s, r, p, now) \in Snapshot
  BY DEF Saved, Snapshot, Row

LEMMA DeletedType ==
  ASSUME NEW s \in Snapshot, NEW r \in Rec, NEW now \in Nat
  PROVE  Deleted(s, r, now) \in Snapshot
  <1>1. ASSUME NEW x \in Rec
        PROVE  /\ s[x] \in Row
               /\ [s[x] EXCEPT !.ts = now, !.dead = TRUE] \in Row
               /\ [s[x] EXCEPT !.ts = now, !.up = s[r].up] \in Row
    BY RowIsRow DEF Row
  <1>2. QED
    BY <1>1 DEF Deleted, Snapshot

LEMMA ClockAfterRepairType ==
  ASSUME NEW s, NEW c \in Nat
  PROVE  ClockAfterRepair(s, c) \in Nat /\ ClockAfterRepair(s, c) >= c
  BY DEF ClockAfterRepair

-----------------------------------------------------------------------------
(* Type correctness.                                                       *)

LEMMA LatestType ==
  ASSUME NEW names \in SUBSET Nat
  PROVE  names \cap {Latest(names)} \subseteq names
  OBVIOUS

LEMMA NamesType ==
  ASSUME remote \in SUBSET Version
  PROVE  Names(remote) \in SUBSET Name
  BY DEF Names, Version

LEMMA NoOpType ==
  ASSUME NEW k \in Key
  PROVE  NoOp(k) \in OpRecord
  BY DEF NoOp, OpRecord, OpState

LEMMA InitType == Init => TypeOK
  <1> SUFFICES ASSUME Init PROVE TypeOK
    OBVIOUS
  <1>1. db \in [Device -> Snapshot]
    BY SharedVaultType DEF Init
  <1>2. minted \in SUBSET Rec
    BY SyncAssumption DEF Init
  <1>3. conn \in [Device -> Connection]
    <2>1. /\ Disconnected(SomeKey) \in Connection
          /\ [Disconnected(SomeKey) EXCEPT !.on = TRUE] \in Connection
      BY SomeKeyIsKey DEF Connection, Disconnected
    <2>2. QED
      BY <2>1 DEF Init
  <1>4. op \in [Device -> OpRecord]
    BY SomeKeyIsKey, NoOpType DEF Init
  <1>5. acked \in [Rec -> Nat] /\ skipped \in [Device -> SUBSET Name]
        /\ restoredAt \in [Device -> Nat] /\ overtaken \in BOOLEAN
    BY DEF Init
  <1>6. QED
    BY <1>1, <1>2, <1>3, <1>4, <1>5 DEF Init, TypeOK

(* What an operation does to a database: it keeps its type and the clock.  *)
LEMMA EditType ==
  ASSUME TypeOK, NEW d \in Device, Edit(d)
  PROVE  TypeOK'
  <1>1. clock + 1 \in Nat
    BY DEF TypeOK
  <1>2. db[d] \in Snapshot
    BY DEF TypeOK
  <1>3. ASSUME NEW r \in Rec, NEW p \in Parent, Create(d, r, p)
        PROVE  TypeOK'
    <2>1. Saved(db[d], r, p, clock') \in Snapshot
      BY <1>1, <1>2, <1>3, SavedType DEF Create
    <2>2. QED
      BY <1>1, <1>3, <2>1 DEF Create, TypeOK, store, history
  <1>4. ASSUME NEW r \in Rec, NEW p \in Parent, Update(d, r, p)
        PROVE  TypeOK'
    <2>1. Saved(db[d], r, p, clock') \in Snapshot
      BY <1>1, <1>2, <1>4, SavedType DEF Update
    <2>2. QED
      BY <1>1, <1>4, <2>1 DEF Update, TypeOK, store, history
  <1>5. ASSUME NEW r \in Rec, Delete(d, r)
        PROVE  TypeOK'
    <2>1. Deleted(db[d], r, clock') \in Snapshot
      BY <1>1, <1>2, <1>5, DeletedType DEF Delete
    <2>2. QED
      BY <1>1, <1>5, <2>1 DEF Delete, TypeOK, store, history
  <1>6. QED
    BY <1>3, <1>4, <1>5 DEF Edit

LEMMA MergeIntoType ==
  ASSUME TypeOK, NEW d \in Device, NEW s \in Snapshot, MergeInto(d, s)
  PROVE  db' \in [Device -> Snapshot] /\ clock' \in Nat
  <1>1. Repair(Merge(db[d], s), clock + 1) \in Snapshot
    BY MergeType, RepairType DEF TypeOK
  <1>2. QED
    BY <1>1, ClockAfterRepairType DEF TypeOK, MergeInto

LEMMA ReplaceType ==
  ASSUME TypeOK, NEW d \in Device, NEW s \in Snapshot, Replace(d, s)
  PROVE  db' \in [Device -> Snapshot] /\ clock' \in Nat
         /\ restoredAt' \in [Device -> Nat]
  <1>1. Repair(s, clock + 1) \in Snapshot
    BY RepairType DEF TypeOK
  <1>2. db' \in [Device -> Snapshot] /\ clock' \in Nat
    BY <1>1, ClockAfterRepairType DEF TypeOK, Replace
  <1>3. QED
    BY <1>2 DEF TypeOK, Replace

LEMMA FinishedType ==
  ASSUME TypeOK, NEW d \in Device, Finished(d)
  PROVE  op' \in [Device -> OpRecord]
  BY NoOpType, SomeKeyIsKey DEF TypeOK, Finished

LEMMA SucceedType ==
  ASSUME TypeOK, NEW d \in Device, NEW s \in Snapshot, Succeed(d, s)
  PROVE  /\ conn' \in [Device -> Connection]
         /\ op' \in [Device -> OpRecord]
         /\ skipped' \in [Device -> SUBSET Name]
         /\ acked' \in [Rec -> Nat]
  <1>0. op[d].listed \in SUBSET Name /\ conn[d] \in Connection
    BY DEF TypeOK, OpRecord
  <1>1. conn' \in [Device -> Connection]
    BY <1>0 DEF TypeOK, Succeed, MarkSeen, Connection
  <1>2. skipped' \in [Device -> SUBSET Name]
    BY DEF TypeOK, Succeed
  <1>3. acked' \in [Rec -> Nat]
    BY RowIsRow DEF TypeOK, Succeed, LaterStamps
  <1>4. QED
    BY <1>1, <1>2, <1>3, FinishedType DEF Succeed

LEMMA SyncType ==
  ASSUME TypeOK, NEW d \in Device, Sync(d)
  PROVE  TypeOK'
  <1>0. /\ op[d] \in OpRecord /\ conn[d] \in Connection /\ db[d] \in Snapshot
        /\ op[d].listed \in SUBSET Name /\ op[d].todo \in SUBSET Name
        /\ op[d].snap \in SUBSET Snapshot /\ op[d].head \in SUBSET Snapshot
        /\ op[d].name \in Nat /\ op[d].key \in Key /\ conn[d].key \in Key
    BY DEF TypeOK, OpRecord, Connection
  <1>1. CASE SyncList(d)
    <2>1. ToPull(d) \in SUBSET Name /\ Names(remote) \in SUBSET Name
      BY NamesType DEF TypeOK, ToPull
    <2>2. op'[d] \in OpRecord
      BY <1>0, <1>1, <2>1 DEF TypeOK, SyncList, NoOp, OpRecord, OpState, AfterPull
    <2>3. skipped' \in [Device -> SUBSET Name]
      BY <1>1, <2>1 DEF TypeOK, SyncList
    <2>4. QED
      BY <1>1, <2>2, <2>3 DEF TypeOK, SyncList, store
  <1>2. ASSUME NEW v \in remote, NEW head \in SUBSET Snapshot, Pulled(d, v, head)
        PROVE  op' \in [Device -> OpRecord]
    <2>1. op'[d] \in OpRecord
      BY <1>0, <1>2 DEF TypeOK, Pulled, OpRecord, OpState, AfterPull
    <2>2. QED
      BY <1>2, <2>1 DEF TypeOK, Pulled
  <1>3. CASE Pull(d)
    <2>1. PICK v \in remote :
            /\ IF Merges(d) THEN MergeInto(d, v.snap) ELSE UNCHANGED <<db, clock>>
            /\ Pulled(d, v, IF IsLatest(d, v) THEN {v.snap} ELSE op[d].head)
      BY <1>3 DEF Pull
    <2>2. v.snap \in Snapshot
      BY DEF TypeOK, Version
    <2>3. op' \in [Device -> OpRecord]
      BY <1>0, <1>2, <2>1, <2>2
    <2>4. db' \in [Device -> Snapshot] /\ clock' \in Nat
      BY <2>1, <2>2, MergeIntoType DEF TypeOK
    <2>5. QED
      BY <1>3, <2>3, <2>4 DEF TypeOK, Pull, store, history
  <1>4. CASE PassOver(d)
    <2>1. op' \in [Device -> OpRecord]
      BY <1>0, <1>2, <1>4 DEF PassOver
    <2>2. UNCHANGED <<db, minted, conn, remote, named, file, clock, resets,
                      acked, skipped, overtaken, restoredAt>>
      BY <1>4 DEF PassOver, store, history
    <2>3. QED
      BY <2>1, <2>2 DEF TypeOK
  <1>5. CASE ExportUnchanged(d)
    BY <1>0, <1>5, SucceedType DEF TypeOK, ExportUnchanged, store
  <1>6. CASE Export(d)
    <2>1. named' \in Nat /\ op'[d].pc = "put" /\ {db[d]} \in SUBSET Snapshot
      BY <1>0, <1>6 DEF TypeOK, Export, OpRecord
    <2>2. op'[d] \in OpRecord
      BY <1>0, <1>6, <2>1 DEF TypeOK, Export, OpRecord, OpState
    <2>3. QED
      BY <1>6, <2>1, <2>2 DEF TypeOK, Export, history
  <1>7. CASE Put(d)
    <2>1. op'[d] \in OpRecord
      BY <1>0, <1>7 DEF TypeOK, Put, OpRecord, OpState
    <2>2. PICK s \in op[d].snap :
            remote' = remote \cup {[name |-> op[d].name, snap |-> s, key |-> op[d].key]}
      BY <1>7 DEF Put
    <2>3. remote' \in SUBSET Version
      BY <1>0, <2>2 DEF TypeOK, Version, Name
    <2>4. overtaken' \in BOOLEAN
      BY <1>7 DEF TypeOK, Put
    <2>5. op' \in [Device -> OpRecord]
      BY <1>7, <2>1 DEF TypeOK, Put
    <2>6. QED
      BY <1>7, <2>3, <2>4, <2>5 DEF TypeOK, Put
  <1>8. CASE PruneAll(d)
    BY <1>0, <1>8, SucceedType DEF TypeOK, PruneAll
  <1>9. CASE NoSuchVersion(d)
    BY <1>9, FinishedType DEF TypeOK, NoSuchVersion, store, history
  <1>10. QED
    BY <1>1, <1>3, <1>4, <1>5, <1>6, <1>7, <1>8, <1>9 DEF Sync

LEMMA CommandType ==
  ASSUME TypeOK, NEW d \in Device, Command(d)
  PROVE  TypeOK'
  <1>0. /\ op[d] \in OpRecord /\ conn[d] \in Connection /\ db[d] \in Snapshot
        /\ op[d].listed \in SUBSET Name /\ op[d].todo \in SUBSET Name
        /\ op[d].key \in Key /\ conn[d].key \in Key
    BY DEF TypeOK, OpRecord, Connection
  <1>1. Names(remote) \in SUBSET Name
    BY NamesType DEF TypeOK
  <1>2. ASSUME NEW v \in remote PROVE v.snap \in Snapshot
    BY DEF TypeOK, Version
  <1>3. ASSUME NEW n \in Names(remote), RestoreList(d, n)
        PROVE  TypeOK'
    <2>1. op'[d] \in OpRecord
      BY <1>0, <1>1, <1>3 DEF TypeOK, RestoreList, NoOp, OpRecord, OpState
    <2>2. QED
      BY <1>3, <2>1 DEF TypeOK, RestoreList, store, history
  <1>4. CASE RestoreApply(d)
    <2>1. PICK v \in remote : Replace(d, v.snap)
      BY <1>4 DEF RestoreApply
    <2>2. conn' \in [Device -> Connection]
      <3>1. [conn[d] EXCEPT !.pending = Latest(op[d].listed) \notin op[d].todo,
                            !.seen = op[d].listed, !.initialized = TRUE] \in Connection
        BY <1>0 DEF Connection
      <3>2. QED
        BY <1>4, <3>1 DEF TypeOK, RestoreApply
    <2>3. QED
      BY <1>2, <1>4, <2>1, <2>2, ReplaceType, FinishedType DEF TypeOK, RestoreApply, store
  <1>5. ASSUME NEW k \in Key, ConnectList(d, k)
        PROVE  TypeOK'
    <2>1. op'[d] \in OpRecord
      BY <1>0, <1>1, <1>5 DEF TypeOK, ConnectList, NoOp, OpRecord, OpState
    <2>2. QED
      BY <1>5, <2>1 DEF TypeOK, ConnectList, store, history
  <1>6. ASSUME NEW k \in Key, ForceConnectList(d, k)
        PROVE  TypeOK'
    <2>1. op'[d] \in OpRecord
      BY <1>0, <1>1, <1>6 DEF TypeOK, ForceConnectList, NoOp, OpRecord, OpState
    <2>2. QED
      BY <1>6, <2>1 DEF TypeOK, ForceConnectList, store, history
  <1>7. ASSUME Connected(d)
        PROVE  conn' \in [Device -> Connection]
    BY <1>0, <1>7 DEF TypeOK, Connected, Connection
  <1>8. CASE ConnectClear(d)
    <2>1. remote' \in SUBSET Version
      BY <1>8 DEF TypeOK, ConnectClear
    <2>2. conn' \in [Device -> Connection]
      BY <1>7, <1>8 DEF TypeOK, ConnectClear
    <2>3. QED
      BY <1>8, <2>1, <2>2, FinishedType DEF TypeOK, ConnectClear, history
  <1>9. CASE ConnectSave(d)
    <2>1. skipped' \in [Device -> SUBSET Name]
      BY <1>0, <1>9 DEF TypeOK, ConnectSave
    <2>2. db' \in [Device -> Snapshot] /\ clock' \in Nat
      BY <1>2, <1>9, MergeIntoType DEF TypeOK, ConnectSave
    <2>3. QED
      BY <1>7, <1>9, <2>1, <2>2, FinishedType DEF TypeOK, ConnectSave, store
  <1>10. CASE Disconnect(d)
    <2>1. Disconnected(SomeKey) \in Connection
      BY SomeKeyIsKey DEF Disconnected, Connection
    <2>2. QED
      BY <1>10, <2>1 DEF TypeOK, Disconnect, store, history
  <1>11. CASE FileExport(d)
    BY <1>0, <1>11 DEF TypeOK, FileExport, store, history
  <1>12. CASE FileImport(d)
    <2>1. PICK s \in file : Replace(d, s)
      BY <1>12 DEF FileImport
    <2>2. s \in Snapshot
      BY DEF TypeOK
    <2>3. QED
      BY <1>12, <2>1, <2>2, ReplaceType DEF TypeOK, FileImport, store
  <1>13. QED
    BY <1>3, <1>4, <1>5, <1>6, <1>8, <1>9, <1>10, <1>11, <1>12
    DEF Command, RestoreVersion, Connect

LEMMA FailureType ==
  ASSUME TypeOK, NEW d \in Device, Failure(d)
  PROVE  TypeOK'
  <1>1. CASE PruneThenFail(d)
    <2>1. remote' \in SUBSET Version
      BY <1>1 DEF TypeOK, PruneThenFail
    <2>2. QED
      BY <1>1, <2>1, FinishedType DEF TypeOK, PruneThenFail, history
  <1>2. CASE Abort(d)
    BY <1>2, FinishedType DEF TypeOK, Abort, store, history
  <1>3. QED
    BY <1>1, <1>2 DEF Failure

LEMMA NextType == TypeOK /\ [Next]_vars => TypeOK'
  <1> SUFFICES ASSUME TypeOK, [Next]_vars PROVE TypeOK'
    OBVIOUS
  <1>1. CASE Next
    BY <1>1, EditType, SyncType, CommandType, FailureType DEF Next
  <1>2. CASE UNCHANGED vars
    BY <1>2 DEF TypeOK, vars
  <1>3. QED
    BY <1>1, <1>2

(* Every variable always has its type, whatever the devices do.            *)
THEOREM TypeCorrect == Spec => []TypeOK
  BY InitType, NextType, PTL DEF Spec

-----------------------------------------------------------------------------
(* A pending restore is kept.  What makes it so is the lock: a device that *)
(* is connecting has no connection, so no restore can be pending on it.    *)

LockInv ==
  \A d \in Device :
     /\ conn[d].pending => conn[d].on
     /\ op[d].pc \in {"connect", "clear"} => ~conn[d].on
     /\ op[d].pc \notin {"idle", "connect", "clear"} => conn[d].on

LEMMA LockInit == Init => LockInv
  BY SomeKeyIsKey DEF Init, LockInv, Disconnected, NoOp

LEMMA LockNext == TypeOK /\ LockInv /\ [Next]_vars => LockInv'
  <1> SUFFICES ASSUME TypeOK, LockInv, [Next]_vars PROVE LockInv'
    OBVIOUS
  <1> DEFINE Others(d) == \A e \in Device \ {d} : conn'[e] = conn[e] /\ op'[e] = op[e]
             Locked(d) == /\ conn'[d].pending => conn'[d].on
                          /\ op'[d].pc \in {"connect", "clear"} => ~conn'[d].on
                          /\ op'[d].pc \notin {"idle", "connect", "clear"} => conn'[d].on
  <1>1. ASSUME NEW d \in Device, Locked(d), Others(d)
        PROVE  LockInv'
    BY <1>1 DEF LockInv
  <1>2. ASSUME UNCHANGED <<conn, op>> PROVE LockInv'
    BY <1>2 DEF LockInv
  <1>3. ASSUME NEW d \in Device, Edit(d) PROVE LockInv'
    BY <1>2, <1>3 DEF Edit, Create, Update, Delete
  <1>4. ASSUME NEW d \in Device, Finished(d), UNCHANGED conn PROVE LockInv'
    BY <1>1, <1>4 DEF Finished, NoOp, TypeOK, LockInv
  <1>5. ASSUME NEW d \in Device, NEW s, Succeed(d, s) PROVE LockInv'
    <2>1. conn'[d].pending = FALSE /\ op'[d].pc = "idle"
      BY <1>5 DEF Succeed, MarkSeen, Finished, NoOp, TypeOK, Connection
    <2>2. Others(d)
      BY <1>5 DEF Succeed, MarkSeen, Finished, TypeOK
    <2>3. QED
      BY <1>1, <2>1, <2>2
  <1>6. ASSUME NEW d \in Device, Sync(d) PROVE LockInv'
    <2>1. ASSUME NEW v, NEW h, op[d].pc = "pull", Pulled(d, v, h), UNCHANGED conn
          PROVE  LockInv'
      <3>1. Others(d) /\ op'[d].pc \in {"pull", "export"}
        BY <2>1 DEF Pulled, AfterPull, TypeOK, OpRecord
      <3>2. QED
        BY <1>1, <2>1, <3>1 DEF LockInv
    <2>2. CASE SyncList(d)
      <3>1. Others(d) /\ op'[d].pc \in {"pull", "export"}
        BY <2>2 DEF SyncList, AfterPull, NoOp, TypeOK
      <3>2. QED
        BY <1>1, <2>2, <3>1 DEF LockInv, SyncList
    <2>3. CASE Pull(d)
      BY <2>1, <2>3 DEF Pull
    <2>4. CASE PassOver(d)
      BY <2>1, <2>4 DEF PassOver
    <2>5. CASE ExportUnchanged(d) \/ PruneAll(d)
      BY <1>5, <2>5 DEF ExportUnchanged, PruneAll
    <2>6. CASE Export(d)
      <3>1. Others(d) /\ op[d].pc = "export" /\ op'[d].pc = "put" /\ conn' = conn
        BY <2>6 DEF Export, TypeOK, OpRecord
      <3>2. QED
        BY <1>1, <3>1 DEF LockInv
    <2>7. CASE Put(d)
      <3>1. Others(d) /\ op[d].pc = "put" /\ op'[d].pc = "prune" /\ conn' = conn
        BY <2>7 DEF Put, TypeOK, OpRecord
      <3>2. QED
        BY <1>1, <3>1 DEF LockInv
    <2>8. CASE NoSuchVersion(d)
      BY <1>4, <2>8 DEF NoSuchVersion
    <2>9. QED
      BY <1>6, <2>2, <2>3, <2>4, <2>5, <2>6, <2>7, <2>8 DEF Sync
  <1>7. ASSUME NEW d \in Device, Command(d) PROVE LockInv'
    <2>1. ASSUME NEW n, RestoreList(d, n) PROVE LockInv'
      <3>1. Others(d) /\ op'[d].pc = "restore" /\ conn' = conn /\ conn[d].on
        BY <2>1 DEF RestoreList, NoOp, TypeOK
      <3>2. QED
        BY <1>1, <3>1 DEF LockInv
    <2>2. CASE RestoreApply(d)
      <3>1. conn[d].on
        BY <2>2 DEF RestoreApply, LockInv
      <3>2. op'[d].pc = "idle" /\ Others(d)
        BY <2>2 DEF RestoreApply, Finished, NoOp, TypeOK
      <3>3. conn'[d].on = conn[d].on
        BY <2>2 DEF RestoreApply, TypeOK, Connection
      <3>4. QED
        BY <1>1, <3>1, <3>2, <3>3
    <2>3. ASSUME NEW k \in Key, ConnectList(d, k) \/ ForceConnectList(d, k) PROVE LockInv'
      <3>1. /\ Others(d) /\ conn' = conn /\ ~conn[d].on
            /\ op'[d].pc \in {"connect", "clear"}
        BY <2>3 DEF ConnectList, ForceConnectList, TypeOK, NoOp
      <3>2. QED
        BY <1>1, <3>1 DEF LockInv
    <2>4. CASE ConnectClear(d)
      <3>1. op'[d].pc = "idle" /\ \A e \in Device \ {d} : op'[e] = op[e]
        BY <2>4 DEF ConnectClear, Finished, NoOp, TypeOK
      <3>2. CASE UNCHANGED conn
        BY <1>4, <2>4, <3>2 DEF ConnectClear
      <3>3. CASE Connected(d)
        BY <1>1, <3>1, <3>3 DEF Connected, TypeOK
      <3>4. QED
        BY <2>4, <3>2, <3>3 DEF ConnectClear
    <2>5. CASE ConnectSave(d)
      <3>1. op'[d].pc = "idle" /\ \A e \in Device \ {d} : op'[e] = op[e]
        BY <2>5 DEF ConnectSave, Finished, NoOp, TypeOK
      <3>2. QED
        BY <1>1, <2>5, <3>1 DEF ConnectSave, Connected, TypeOK
    <2>6. CASE Disconnect(d)
      <3>1. Others(d) /\ op'[d].pc = "idle" /\ conn'[d].pending = FALSE
        BY <2>6 DEF Disconnect, Disconnected, TypeOK
      <3>2. QED
        BY <1>1, <3>1
    <2>7. CASE FileExport(d) \/ FileImport(d)
      BY <1>2, <2>7 DEF FileExport, FileImport
    <2>8. QED
      BY <1>7, <2>1, <2>2, <2>3, <2>4, <2>5, <2>6, <2>7
      DEF Command, RestoreVersion, Connect
  <1>8. ASSUME NEW d \in Device, Failure(d) PROVE LockInv'
    BY <1>4, <1>8 DEF Failure, PruneThenFail, Abort
  <1>9. CASE UNCHANGED vars
    BY <1>2, <1>9 DEF vars
  <1>10. QED
    BY <1>3, <1>6, <1>7, <1>8, <1>9 DEF Next

(* A row an edit changes bears a stamp later than any before it.           *)
LEMMA EditStamps ==
  ASSUME TypeOK, NEW d \in Device, Edit(d), NEW e \in Device, NEW r \in Rec
  PROVE  db'[e][r] = db[e][r] \/ db'[e][r].ts = clock'
  <1>1. db \in [Device -> Snapshot] /\ db[d] \in Snapshot /\ db[d][r] \in Row
    BY RowIsRow DEF TypeOK
  <1>2. ASSUME NEW x \in Rec, NEW p \in Parent,
               db' = [db EXCEPT ![d] = Saved(db[d], x, p, clock')]
        PROVE  db'[e][r] = db[e][r] \/ db'[e][r].ts = clock'
    BY <1>1, <1>2 DEF Saved, Snapshot
  <1>3. ASSUME NEW x \in Rec, db' = [db EXCEPT ![d] = Deleted(db[d], x, clock')]
        PROVE  db'[e][r] = db[e][r] \/ db'[e][r].ts = clock'
    <2>1. \/ Deleted(db[d], x, clock')[r] = db[d][r]
          \/ Deleted(db[d], x, clock')[r] = [db[d][r] EXCEPT !.ts = clock', !.dead = TRUE]
          \/ Deleted(db[d], x, clock')[r] = [db[d][r] EXCEPT !.ts = clock', !.up = db[d][x].up]
      BY DEF Deleted
    <2>2. Deleted(db[d], x, clock')[r] = db[d][r] \/ Deleted(db[d], x, clock')[r].ts = clock'
      BY <1>1, <2>1 DEF Row
    <2>3. QED
      BY <1>1, <1>3, <2>2
  <1>4. QED
    BY <1>2, <1>3 DEF Edit, Create, Update, Delete

LEMMA EditClock ==
  ASSUME NEW d, Edit(d)
  PROVE  clock' = clock + 1
  BY DEF Edit, Create, Update, Delete

(* After a restore of an older version, and until a push has published it, *)
(* nothing but the user's edits and another restore changes the rows.      *)
THEOREM RestoreKept == Spec => PendingRestoreKept
  <1>1. TypeOK /\ LockInv /\ [Next]_vars =>
          [\A d \in Device :
             conn[d].pending /\ op[d].pc # "restore" /\ resets' = resets =>
               \A r \in Rec : db'[d][r] = db[d][r] \/ db'[d][r].ts > clock]_vars
    <2> SUFFICES ASSUME TypeOK, LockInv, Next,
                        NEW d \in Device, conn[d].pending, op[d].pc # "restore",
                        resets' = resets, NEW r \in Rec
                 PROVE  db'[d][r] = db[d][r] \/ db'[d][r].ts > clock
      OBVIOUS
    <2>1. PICK e \in Device : Edit(e) \/ Sync(e) \/ Command(e) \/ Failure(e)
      BY DEF Next
    <2>2. CASE Edit(e)
      BY <2>2, EditStamps, EditClock DEF TypeOK
    <2>3. CASE Sync(e)
      <3>1. CASE Pull(e)
        <4>1. db' = db \/ (e # d /\ \E s : MergeInto(e, s))
          BY <3>1 DEF Pull, Merges
        <4>2. QED
          BY <4>1 DEF MergeInto, TypeOK
      <3>2. CASE ~Pull(e)
        BY <2>3, <3>2
        DEF Sync, SyncList, PassOver, ExportUnchanged, Export, Put, PruneAll, NoSuchVersion
      <3>3. QED
        BY <3>1, <3>2
    <2>4. CASE Command(e)
      <3>1. ASSUME e # d, NEW s, MergeInto(e, s) \/ Replace(e, s)
            PROVE  db'[d] = db[d]
        BY <3>1 DEF MergeInto, Replace, TypeOK
      <3>2. CASE RestoreApply(e)
        BY <3>1, <3>2 DEF RestoreApply
      <3>3. CASE ConnectSave(e)
        <4>1. ~conn[e].on /\ conn[d].on
          BY <3>3 DEF ConnectSave, LockInv
        <4>2. QED
          BY <3>1, <3>3, <4>1 DEF ConnectSave
      <3>4. CASE FileImport(e)
        BY <3>4 DEF FileImport, TypeOK
      <3>5. CASE ~RestoreApply(e) /\ ~ConnectSave(e) /\ ~FileImport(e)
        BY <2>4, <3>5
        DEF Command, RestoreVersion, Connect, RestoreList, ConnectList, ForceConnectList,
            ConnectClear, Disconnect, FileExport
      <3>6. QED
        BY <3>2, <3>3, <3>4, <3>5
    <2>5. CASE Failure(e)
      BY <2>5 DEF Failure, PruneThenFail, Abort
    <2>6. QED
      BY <2>1, <2>2, <2>3, <2>4, <2>5
  <1>2. QED
    BY <1>1, InitType, NextType, LockInit, LockNext, PTL DEF Spec, PendingRestoreKept

-----------------------------------------------------------------------------
(* No row bears a stamp from the future, wherever its table is.  A repair  *)
(* needs this: its stamp must be later than that of the row it replaces,   *)
(* and still be a stamp just given out.                                    *)

Bounded(s, c) == \A r \in Rec : s[r].ts <= c

StampsBounded ==
  /\ \A d \in Device : Bounded(db[d], clock)
  /\ \A s \in Published : Bounded(s, clock)

LEMMA PublishedType ==
  ASSUME TypeOK
  PROVE  Published \in SUBSET Snapshot
  BY DEF TypeOK, Published, Version, OpRecord

(* What a repaired table holds in place of a row of the table.             *)
LEMMA RepairRow ==
  ASSUME NEW s \in Snapshot, NEW c \in Nat, Bounded(s, c), NEW r \in Rec
  PROVE  \/ Repair(s, c + 1)[r] = s[r]
         \/ /\ Repair(s, c + 1)[r].ts = c + 1
            /\ ClockAfterRepair(s, c) = c + 1
  <1>1. CASE r \notin CycleBreakers(s)
    BY <1>1 DEF Repair
  <1>2. CASE r \in CycleBreakers(s)
    <2>1. s[r] \in Row /\ s[r].ts \in Nat /\ s[r].ts <= c
      BY RowIsRow DEF Bounded
    <2>2. LaterStamp(s[r].ts, c + 1) = c + 1
      BY <2>1 DEF LaterStamp
    <2>3. Repair(s, c + 1)[r] = [s[r] EXCEPT !.up = Root, !.ts = c + 1]
      BY <1>2, <2>2 DEF Repair
    <2>4. Repair(s, c + 1)[r].ts = c + 1
      BY <2>1, <2>3 DEF Row
    <2>5. CycleBreakers(s) # {}
      BY <1>2
    <2>6. QED
      BY <2>4, <2>5 DEF ClockAfterRepair
  <1>3. QED
    BY <1>1, <1>2

LEMMA RepairBounded ==
  ASSUME NEW s \in Snapshot, NEW c \in Nat, Bounded(s, c)
  PROVE  Bounded(Repair(s, c + 1), ClockAfterRepair(s, c))
  <1>1. ASSUME NEW r \in Rec
        PROVE  Repair(s, c + 1)[r].ts <= ClockAfterRepair(s, c)
    <2>1. s[r].ts \in Nat /\ s[r].ts <= c
      BY RowIsRow DEF Bounded
    <2>2. QED
      BY <2>1, RepairRow, ClockAfterRepairType
  <1>2. QED
    BY <1>1 DEF Bounded

LEMMA MergeBounded ==
  ASSUME NEW s \in Snapshot, NEW t \in Snapshot, NEW c \in Nat,
         Bounded(s, c), Bounded(t, c)
  PROVE  Bounded(Merge(s, t), c)
  BY DEF Bounded, Merge

LEMMA StaysBounded ==
  ASSUME NEW s \in Snapshot, NEW c \in Nat, NEW d \in Nat, Bounded(s, c), c <= d
  PROVE  Bounded(s, d)
  BY RowIsRow DEF Bounded

(* An operation publishes nothing that was not published or in a database. *)
LEMMA PublishedBy ==
  ASSUME TypeOK, NEW d \in Device, NEW S,
         {v.snap : v \in remote'} \subseteq Published \cup S,
         file' \subseteq Published \cup S,
         op'[d].snap \cup op'[d].head \subseteq Published \cup S,
         \A e \in Device \ {d} : op'[e] = op[e]
  PROVE  Published' \subseteq Published \cup S
  <1>1. ASSUME NEW e \in Device
        PROVE  op'[e].snap \cup op'[e].head \subseteq Published \cup S
    <2>1. CASE e = d
      BY <2>1
    <2>2. CASE e # d
      <3>1. op[e].snap \cup op[e].head \subseteq Published
        BY DEF Published
      <3>2. QED
        BY <2>2, <3>1
    <2>3. QED
      BY <2>1, <2>2
  <1>2. QED
    BY <1>1 DEF Published

-----------------------------------------------------------------------------
(* Every step is one of four kinds of step on the tables.                  *)

EditStep(d) == Edit(d) /\ Published' = Published
MergeStep(d) == /\ \E s \in Published : MergeInto(d, s)
                /\ Published' \subseteq Published
ReplaceStep(d) == /\ \E s \in Published : Replace(d, s)
                  /\ Published' \subseteq Published
PublishStep(d) == /\ UNCHANGED <<db, clock>>
                  /\ Published' \subseteq Published \cup {db[d]}

LEMMA FourKinds ==
  ASSUME TypeOK, NEW d \in Device, Edit(d) \/ Sync(d) \/ Command(d) \/ Failure(d)
  PROVE  EditStep(d) \/ MergeStep(d) \/ ReplaceStep(d) \/ PublishStep(d)
  <1> DEFINE Kept == Published' \subseteq Published
             Snaps(versions) == {v.snap : v \in versions}
             Others == \A e \in Device \ {d} : op'[e] = op[e]
  <1>0. /\ op \in [Device -> OpRecord] /\ op[d] \in OpRecord
        /\ op[d].snap \cup op[d].head \subseteq Published
        /\ Snaps(remote) \subseteq Published /\ file \subseteq Published
    BY DEF TypeOK, Published
  <1>1. ASSUME Others, op'[d].snap \cup op'[d].head \subseteq Published,
               remote' \subseteq remote, file' = file
        PROVE  Kept
    <2>1. Snaps(remote') \subseteq Published
      BY <1>0, <1>1
    <2>2. QED
      BY <1>0, <1>1, <2>1, PublishedBy
  <1>2. ASSUME Finished(d), remote' \subseteq remote, file' = file
        PROVE  Kept
    <2>1. Others /\ op'[d].snap \cup op'[d].head = {}
      BY <1>0, <1>2 DEF Finished, NoOp
    <2>2. QED
      BY <1>1, <1>2, <2>1
  <1>3. CASE Edit(d)
    <2>1. UNCHANGED <<remote, file, op>>
      BY <1>3 DEF Edit, Create, Update, Delete, store
    <2>2. QED
      BY <1>3, <2>1 DEF EditStep, Published
  <1>4. CASE Sync(d)
    <2>1. CASE SyncList(d)
      <3>1. Others /\ op'[d].snap \cup op'[d].head = {}
        BY <1>0, <2>1 DEF SyncList, NoOp
      <3>2. QED
        BY <1>1, <2>1, <3>1 DEF SyncList, store, PublishStep
    <2>2. CASE Pull(d)
      <3>1. PICK v \in remote :
              /\ IF Merges(d) THEN MergeInto(d, v.snap) ELSE UNCHANGED <<db, clock>>
              /\ Pulled(d, v, IF IsLatest(d, v) THEN {v.snap} ELSE op[d].head)
        BY <2>2 DEF Pull
      <3>2. v.snap \in Published
        BY <1>0
      <3>3. Others /\ op'[d].snap \cup op'[d].head \subseteq Published
        BY <1>0, <3>1, <3>2 DEF Pulled, OpRecord
      <3>4. Kept
        BY <1>1, <2>2, <3>3 DEF Pull, store
      <3>5. QED
        BY <3>1, <3>2, <3>4 DEF MergeStep, PublishStep
    <2>3. CASE PassOver(d)
      <3>1. Others /\ op'[d].snap \cup op'[d].head \subseteq Published
        BY <1>0, <2>3 DEF PassOver, Pulled, OpRecord
      <3>2. QED
        BY <1>1, <2>3, <3>1 DEF PassOver, store, PublishStep
    <2>4. CASE ExportUnchanged(d)
      BY <1>2, <2>4 DEF ExportUnchanged, Succeed, store, PublishStep
    <2>5. CASE Export(d)
      <3>1. Others /\ op'[d].snap \cup op'[d].head \subseteq Published \cup {db[d]}
        BY <1>0, <2>5 DEF Export, OpRecord
      <3>2. QED
        BY <1>0, <2>5, <3>1, PublishedBy DEF Export, PublishStep
    <2>6. CASE Put(d)
      <3>1. Others /\ op'[d].snap \cup op'[d].head \subseteq Published
        BY <1>0, <2>6 DEF Put, OpRecord
      <3>2. Snaps(remote') \subseteq Published
        BY <1>0, <2>6 DEF Put
      <3>3. Kept
        BY <1>0, <2>6, <3>1, <3>2, PublishedBy DEF Put
      <3>4. QED
        BY <2>6, <3>3 DEF Put, PublishStep
    <2>7. CASE PruneAll(d)
      BY <1>2, <2>7 DEF PruneAll, Succeed, PublishStep
    <2>8. CASE NoSuchVersion(d)
      BY <1>2, <2>8 DEF NoSuchVersion, store, PublishStep
    <2>9. QED
      BY <1>4, <2>1, <2>2, <2>3, <2>4, <2>5, <2>6, <2>7, <2>8 DEF Sync
  <1>5. CASE Command(d)
    <2>1. ASSUME Others, op'[d].snap \cup op'[d].head = {}, UNCHANGED <<remote, file, db, clock>>
          PROVE  PublishStep(d)
      BY <1>1, <2>1 DEF PublishStep
    <2>2. ASSUME NEW n, RestoreList(d, n) PROVE PublishStep(d)
      BY <1>0, <2>1, <2>2 DEF RestoreList, NoOp, store
    <2>3. ASSUME NEW k, ConnectList(d, k) PROVE PublishStep(d)
      BY <1>0, <2>1, <2>3 DEF ConnectList, NoOp, store
    <2>4. ASSUME NEW k, ForceConnectList(d, k) PROVE PublishStep(d)
      BY <1>0, <2>1, <2>4 DEF ForceConnectList, NoOp, store
    <2>5. CASE RestoreApply(d)
      BY <1>0, <1>2, <2>5 DEF RestoreApply, ReplaceStep, store
    <2>6. CASE ConnectClear(d)
      <3>1. remote' \subseteq remote
        BY <2>6 DEF ConnectClear
      <3>2. QED
        BY <1>2, <2>6, <3>1 DEF ConnectClear, PublishStep
    <2>7. CASE ConnectSave(d)
      BY <1>0, <1>2, <2>7 DEF ConnectSave, MergeStep, PublishStep, store
    <2>8. CASE Disconnect(d)
      BY <2>8 DEF Disconnect, store, PublishStep, Published
    <2>9. CASE FileExport(d)
      <3>1. file' = {db[d]} /\ UNCHANGED <<db, clock, op, remote>>
        BY <2>9 DEF FileExport, store
      <3>2. QED
        BY <1>0, <3>1, PublishedBy DEF PublishStep
    <2>10. CASE FileImport(d)
      <3>1. Kept
        BY <2>10 DEF FileImport, store, Published
      <3>2. QED
        BY <1>0, <2>10, <3>1 DEF FileImport, ReplaceStep
    <2>11. QED
      BY <1>5, <2>2, <2>3, <2>4, <2>5, <2>6, <2>7, <2>8, <2>9, <2>10
      DEF Command, RestoreVersion, Connect
  <1>6. CASE Failure(d)
    <2>1. Finished(d) /\ remote' \subseteq remote /\ UNCHANGED <<file, db, clock>>
      BY <1>6 DEF Failure, PruneThenFail, Abort, store
    <2>2. QED
      BY <1>2, <2>1 DEF PublishStep
  <1>7. QED
    BY <1>3, <1>4, <1>5, <1>6

-----------------------------------------------------------------------------
(* The stamps stay bounded.                                                *)

LEMMA BoundedInit == Init => StampsBounded
  <1> SUFFICES ASSUME Init PROVE StampsBounded
    OBVIOUS
  <1>1. Bounded(SharedVault, 1)
    BY DEF Bounded, SharedVault, Absent
  <1>2. Published = {}
    BY DEF Init, Published, NoOp
  <1>3. QED
    BY <1>1, <1>2 DEF Init, StampsBounded

LEMMA BoundedNext == TypeOK /\ StampsBounded /\ [Next]_vars => StampsBounded'
  <1> SUFFICES ASSUME TypeOK, StampsBounded, [Next]_vars PROVE StampsBounded'
    OBVIOUS
  <1>0. /\ clock \in Nat /\ clock' \in Nat
        /\ db \in [Device -> Snapshot] /\ db' \in [Device -> Snapshot]
        /\ Published \in SUBSET Snapshot
    BY NextType, PublishedType DEF TypeOK
  <1>1. ASSUME clock <= clock', NEW s \in Published, s \in Snapshot
        PROVE  Bounded(s, clock')
    BY <1>0, <1>1, StaysBounded DEF StampsBounded
  <1>2. ASSUME clock <= clock', NEW d \in Device, db'[d] = db[d]
        PROVE  Bounded(db'[d], clock')
    BY <1>0, <1>2, StaysBounded DEF StampsBounded
  <1>3. ASSUME NEW d \in Device, NEW s \in Snapshot, Bounded(s, clock),
               db' = [db EXCEPT ![d] = Repair(s, clock + 1)],
               clock' = ClockAfterRepair(s, clock), Published' \subseteq Published
        PROVE  StampsBounded'
    <2>1. clock <= clock' /\ Bounded(db'[d], clock')
      BY <1>0, <1>3, RepairBounded, ClockAfterRepairType
    <2>2. \A e \in Device : Bounded(db'[e], clock')
      BY <1>0, <1>2, <1>3, <2>1
    <2>3. QED
      BY <1>0, <1>1, <1>3, <2>1, <2>2 DEF StampsBounded
  <1>4. ASSUME NEW d \in Device, EditStep(d) PROVE StampsBounded'
    <2>1. clock' = clock + 1
      BY <1>4, EditClock DEF EditStep
    <2>2. ASSUME NEW e \in Device, NEW r \in Rec PROVE db'[e][r].ts <= clock'
      <3>1. db'[e][r] = db[e][r] \/ db'[e][r].ts = clock'
        BY <1>4, EditStamps DEF EditStep
      <3>2. db[e][r].ts <= clock /\ db[e][r].ts \in Nat
        BY <1>0, RowIsRow DEF StampsBounded, Bounded
      <3>3. QED
        BY <1>0, <2>1, <3>1, <3>2
    <2>3. \A e \in Device : Bounded(db'[e], clock')
      BY <2>2 DEF Bounded
    <2>4. QED
      BY <1>0, <1>1, <1>4, <2>1, <2>3 DEF StampsBounded, EditStep
  <1>5. ASSUME NEW d \in Device, MergeStep(d) PROVE StampsBounded'
    <2>1. PICK s \in Published : MergeInto(d, s)
      BY <1>5 DEF MergeStep
    <2>2. Merge(db[d], s) \in Snapshot /\ Bounded(Merge(db[d], s), clock)
      BY <1>0, MergeType, MergeBounded DEF StampsBounded
    <2>3. QED
      BY <1>3, <1>5, <2>1, <2>2 DEF MergeInto, MergeStep
  <1>6. ASSUME NEW d \in Device, ReplaceStep(d) PROVE StampsBounded'
    <2>1. PICK s \in Published : Replace(d, s)
      BY <1>6 DEF ReplaceStep
    <2>2. s \in Snapshot /\ Bounded(s, clock)
      BY <1>0 DEF StampsBounded
    <2>3. QED
      BY <1>3, <1>6, <2>1, <2>2 DEF Replace, ReplaceStep
  <1>7. ASSUME NEW d \in Device, PublishStep(d) PROVE StampsBounded'
    BY <1>7 DEF PublishStep, StampsBounded
  <1>8. CASE UNCHANGED vars
    BY <1>8 DEF StampsBounded, vars, Published
  <1>9. QED
    BY <1>4, <1>5, <1>6, <1>7, <1>8, FourKinds DEF Next

-----------------------------------------------------------------------------
(* Vault sync implements replicated last-writer-wins tables.               *)

LEMMA LwwInit == Init => Lww!Init
  <1> SUFFICES ASSUME Init PROVE Lww!Init
    OBVIOUS
  <1>1. Published = {} /\ StampsBounded
    BY BoundedInit DEF Init, Published, NoOp
  <1>2. QED
    BY <1>1 DEF Lww!Init, StampsBounded, Bounded

LEMMA LwwNext == TypeOK /\ StampsBounded /\ [Next]_vars => [Lww!Next]_(Lww!vars)
  <1> SUFFICES ASSUME TypeOK, StampsBounded, [Next]_vars
               PROVE  [Lww!Next]_(Lww!vars)
    OBVIOUS
  <1>0. /\ clock \in Nat /\ db \in [Device -> Snapshot]
        /\ Published \in SUBSET Snapshot
    BY PublishedType DEF TypeOK
  <1>1. ASSUME NEW d \in Device, EditStep(d) PROVE Lww!Advance(d)
    <2>1. clock' = clock + 1 /\ Published' = Published
      BY <1>1, EditClock DEF EditStep
    <2>2. \A e \in Device \ {d} : db'[e] = db[e]
      BY <1>0, <1>1 DEF EditStep, Edit, Create, Update, Delete
    <2>3. \A r \in Rec : db'[d][r] = db[d][r] \/ (clock < db'[d][r].ts /\ db'[d][r].ts <= clock')
      BY <1>0, <1>1, <2>1, EditStamps DEF EditStep
    <2>4. QED
      BY <1>0, <2>1, <2>2, <2>3 DEF Lww!Advance, Lww!FreshlyStamped
  <1>2. ASSUME NEW d \in Device, MergeStep(d) PROVE Lww!Advance(d)
    <2>1. PICK s \in Published : MergeInto(d, s)
      BY <1>2 DEF MergeStep
    <2> DEFINE m == Merge(db[d], s)
    <2>2. m \in Snapshot /\ Bounded(m, clock)
      BY <1>0, MergeType, MergeBounded DEF StampsBounded
    <2>3. clock <= clock' /\ clock' = ClockAfterRepair(m, clock)
      BY <1>0, <2>1, ClockAfterRepairType DEF MergeInto
    <2>4. db'[d] = Repair(m, clock + 1) /\ \A e \in Device \ {d} : db'[e] = db[e]
      BY <1>0, <2>1 DEF MergeInto
    <2>5. ASSUME NEW r \in Rec
          PROVE  \/ db'[d][r] = db[d][r]
                 \/ db'[d][r] = s[r] /\ s[r].ts > db[d][r].ts
                 \/ clock < db'[d][r].ts /\ db'[d][r].ts <= clock'
      <3>1. m[r] = db[d][r] \/ (m[r] = s[r] /\ s[r].ts > db[d][r].ts)
        BY DEF Merge
      <3>2. \/ Repair(m, clock + 1)[r] = m[r]
            \/ /\ Repair(m, clock + 1)[r].ts = clock + 1
               /\ ClockAfterRepair(m, clock) = clock + 1
        BY <1>0, <2>2, RepairRow
      <3>3. QED
        BY <1>0, <2>3, <2>4, <3>1, <3>2
    <2>6. QED
      BY <1>2, <2>3, <2>4, <2>5 DEF MergeStep, Lww!Advance, Lww!FreshlyStamped
  <1>3. ASSUME NEW d \in Device, ReplaceStep(d) PROVE Lww!Restore(d)
    <2>1. PICK s \in Published : Replace(d, s)
      BY <1>3 DEF ReplaceStep
    <2>2. s \in Snapshot /\ Bounded(s, clock)
      BY <1>0 DEF StampsBounded
    <2>3. clock <= clock' /\ clock' = ClockAfterRepair(s, clock)
      BY <1>0, <2>1, ClockAfterRepairType DEF Replace
    <2>4. db'[d] = Repair(s, clock + 1) /\ \A e \in Device \ {d} : db'[e] = db[e]
      BY <1>0, <2>1 DEF Replace
    <2>5. ASSUME NEW r \in Rec
          PROVE  \/ db'[d][r] = s[r]
                 \/ clock < db'[d][r].ts /\ db'[d][r].ts <= clock'
      <3>1. \/ Repair(s, clock + 1)[r] = s[r]
            \/ /\ Repair(s, clock + 1)[r].ts = clock + 1
               /\ ClockAfterRepair(s, clock) = clock + 1
        BY <1>0, <2>2, RepairRow
      <3>2. QED
        BY <1>0, <2>3, <2>4, <3>1
    <2>6. QED
      BY <1>3, <2>3, <2>4, <2>5 DEF ReplaceStep, Lww!Restore, Lww!FreshlyStamped
  <1>4. ASSUME NEW d \in Device, PublishStep(d) PROVE Lww!Publish
    BY <1>4 DEF PublishStep, Lww!Publish
  <1>5. CASE UNCHANGED vars
    BY <1>5 DEF vars, Lww!vars, Published
  <1>6. QED
    BY <1>1, <1>2, <1>3, <1>4, <1>5, FourKinds DEF Next, Lww!Next

(* Whatever the order of pulls, merges, pushes, failures and restores, a   *)
(* row changes only to a later one that was published or written just now, *)
(* or because its user restored a published table.                         *)
THEOREM Refinement == Spec => LastWriterWins
  BY InitType, NextType, BoundedInit, BoundedNext, LwwInit, LwwNext, PTL
  DEF Spec, LastWriterWins, Lww!Spec

-----------------------------------------------------------------------------
(* Largest elements, least sets.                                           *)

LEMMA BoundedMax ==
  ASSUME NEW S \in SUBSET Nat, S # {}, NEW b \in Nat, \A n \in S : n <= b
  PROVE  \E m \in S : \A n \in S : n <= m
  <1> DEFINE T == {n \in Nat : \A k \in S : k <= n}
             R == OpToRel(<, Nat)
  <1>1. T \subseteq Nat /\ T # {}
    OBVIOUS
  <1>2. PICK m \in T : \A n \in T : ~ (<<n, m>> \in R)
    <2>1. IsWellFoundedOn(R, Nat)
      BY NatLessThanWellFounded
    <2> HIDE DEF R, T
    <2>2. QED
      BY <1>1, <2>1, WFMin
  <1>3. \A n \in T : ~ (n < m)
    BY <1>1, <1>2 DEF OpToRel
  <1>4. CASE m \in S
    BY <1>4
  <1>5. CASE m \notin S
    <2>1. \A k \in S : k \in Nat /\ m \in Nat /\ k < m
      BY <1>5
    <2>2. PICK k \in S : TRUE
      OBVIOUS
    <2>3. m - 1 \in Nat
      BY <2>1, <2>2
    <2>4. \A n \in S : n <= m - 1
      BY <2>1
    <2>5. QED
      BY <1>3, <2>3, <2>4
  <1>6. QED
    BY <1>4, <1>5

(* Among finitely many numbers one is the largest.                         *)
LEMMA FiniteMax ==
  ASSUME NEW C \in SUBSET Nat, IsFiniteSet(C), C # {}
  PROVE  \E g \in C : \A h \in C : h <= g
  <1> DEFINE Above(g) == {h \in C : h > g}
             F == {Above(g) : g \in C}
             R == StrictSubsetOrdering(C)
  <1>1. F \subseteq FiniteSubsetsOf(C) /\ F # {}
    <2>1. FiniteSubsetsOf(C) = SUBSET C
      BY FS_FiniteSubsetsOfFinite
    <2>2. \A U \in F : U \subseteq C
      OBVIOUS
    <2>3. \E U : U \in F
      OBVIOUS
    <2> HIDE DEF F
    <2>4. QED
      BY <2>1, <2>2, <2>3
  <1>2. PICK U \in F : \A V \in F : ~ (<<V, U>> \in R)
    <2>1. IsWellFoundedOn(R, FiniteSubsetsOf(C))
      BY FS_StrictSubsetOrderingWellFounded
    <2> HIDE DEF R, F
    <2>2. QED
      BY <1>1, <2>1, WFMin
  <1>3. PICK g \in C : U = Above(g)
    OBVIOUS
  <1>4. ASSUME NEW h \in Above(g) PROVE FALSE
    <2>1. h \in C /\ h \in Nat /\ g \in Nat /\ h > g
      OBVIOUS
    <2>2. Above(h) \in F /\ ~ (<<Above(h), Above(g)>> \in R)
      BY <1>2, <1>3, <2>1
    <2>3. ASSUME NEW x \in Above(h) PROVE x \in Above(g)
      <3>1. x \in C /\ x \in Nat /\ x > h
        OBVIOUS
      <3>2. QED
        BY <2>1, <3>1
    <2>4. h \notin Above(h)
      BY <2>1
    <2>5. <<Above(h), Above(g)>> \in R
      <3>1. Above(h) \subseteq Above(g) /\ Above(h) # Above(g)
        BY <2>3, <2>4
      <3>2. Above(h) \in SUBSET C /\ Above(g) \in SUBSET C
        OBVIOUS
      <3> HIDE DEF Above
      <3>3. QED
        BY <3>1, <3>2 DEF StrictSubsetOrdering
    <2>6. QED
      BY <2>2, <2>5
  <1>5. QED
    BY <1>4

(* A family of finite sets has a member with no other member within it.    *)
LEMMA LeastMember ==
  ASSUME NEW S, IsFiniteSet(S), NEW F \in SUBSET SUBSET S, F # {}
  PROVE  \E C \in F : \A D \in F : D \subseteq C => D = C
  <1> DEFINE R == StrictSubsetOrdering(S)
  <1>1. F \subseteq FiniteSubsetsOf(S)
    BY FS_FiniteSubsetsOfFinite
  <1>2. PICK C \in F : \A D \in F : ~ (<<D, C>> \in R)
    <2>1. IsWellFoundedOn(R, FiniteSubsetsOf(S))
      BY FS_StrictSubsetOrderingWellFounded
    <2> HIDE DEF R
    <2>2. QED
      BY <1>1, <2>1, WFMin
  <1>3. QED
    BY <1>2 DEF StrictSubsetOrdering

-----------------------------------------------------------------------------
(* The tree of groups.  A set of nested groups that the parent map does    *)
(* not leave has a loop in it, and a loop has a least one in it: that one  *)
(* is a cycle, and its largest id is the breaker.                          *)

Enclosed(s, C) == C # {} /\ \A g \in C : s[g].up \in C

LEMMA NestedFinite ==
  ASSUME NEW s
  PROVE  Nested(s) \in SUBSET Group /\ IsFiniteSet(Nested(s))
         /\ \A C \in SUBSET Nested(s) : IsFiniteSet(C)
  BY RecordAssumption, FS_Subset DEF Nested

LEMMA LoopWithin ==
  ASSUME NEW s, NEW C \in SUBSET Nested(s), Enclosed(s, C)
  PROVE  \E D \in SUBSET C : ClosedLoop(s, D)
  <1> DEFINE F == {D \in SUBSET C : Enclosed(s, D)}
             Up(D) == {s[g].up : g \in D}
  <1>1. F \in SUBSET SUBSET C /\ F # {} /\ IsFiniteSet(C)
    BY NestedFinite
  <1>2. PICK D \in F : \A E \in F : E \subseteq D => E = D
    <2> HIDE DEF F
    <2>1. QED
      BY <1>1, LeastMember
  <1>3. Up(D) \subseteq D /\ Up(D) # {}
    BY DEF Enclosed
  <1>4. Up(D) \in F
    BY <1>3 DEF Enclosed
  <1>5. QED
    BY <1>2, <1>3, <1>4 DEF ClosedLoop, Enclosed

LEMMA NothingEnclosed ==
  ASSUME NEW s, Acyclic(s), NEW C \in SUBSET Nested(s)
  PROVE  ~Enclosed(s, C)
  BY LoopWithin DEF Acyclic

LEMMA LoopIsEnclosed ==
  ASSUME NEW s, NEW C, ClosedLoop(s, C)
  PROVE  Enclosed(s, C)
  BY DEF ClosedLoop, Enclosed

LEMMA CycleWithin ==
  ASSUME NEW s, NEW C \in SUBSET Nested(s), ClosedLoop(s, C)
  PROVE  \E D \in Cycles(s) : D \subseteq C
  <1> DEFINE F == {D \in SUBSET C : ClosedLoop(s, D)}
  <1>1. F \in SUBSET SUBSET C /\ F # {} /\ IsFiniteSet(C)
    BY NestedFinite
  <1>2. PICK D \in F : \A E \in F : E \subseteq D => E = D
    <2> HIDE DEF F
    <2>1. QED
      BY <1>1, LeastMember
  <1>3. QED
    BY <1>2 DEF Cycles

LEMMA BreakerInCycle ==
  ASSUME NEW s, NEW C \in Cycles(s)
  PROVE  LargestId(C) \in C
  <1>1. C \in SUBSET Nat /\ IsFiniteSet(C) /\ C # {}
    BY NestedFinite, RecordAssumption DEF Cycles, ClosedLoop
  <1>2. \E g \in C : \A h \in C : h <= g
    BY <1>1, FiniteMax
  <1>3. QED
    BY <1>2 DEF LargestId

(* repair_cycles leaves no loop.                                           *)
LEMMA RepairedAcyclic ==
  ASSUME NEW s \in Snapshot, NEW now \in Nat
  PROVE  Acyclic(Repair(s, now))
  <1> DEFINE t == Repair(s, now)
  <1> SUFFICES ASSUME NEW C \in SUBSET Nested(t), ClosedLoop(t, C) PROVE FALSE
    BY DEF Acyclic
  <1>1. ASSUME NEW g \in C
        PROVE  g \in Group /\ g \notin CycleBreakers(s) /\ t[g] = s[g]
    <2>1. g \in Rec /\ ~t[g].dead /\ t[g].up # Root /\ g \in Group
      BY DEF Nested, Rec
    <2>2. g \notin CycleBreakers(s)
      <3>1. s[g] \in Row
        BY <2>1, RowIsRow
      <3>2. [s[g] EXCEPT !.up = Root, !.ts = LaterStamp(s[g].ts, now)].up = Root
        BY <3>1 DEF Row
      <3>3. QED
        BY <2>1, <3>2 DEF Repair
    <2>3. QED
      BY <2>1, <2>2 DEF Repair
  <1>2. C \in SUBSET Nested(s)
    BY <1>1 DEF Nested
  <1>3. ClosedLoop(s, C)
    BY <1>1 DEF ClosedLoop
  <1>4. PICK D \in Cycles(s) : D \subseteq C
    BY <1>2, <1>3, CycleWithin
  <1>5. LargestId(D) \in C /\ LargestId(D) \in CycleBreakers(s)
    BY <1>4, BreakerInCycle DEF CycleBreakers
  <1>6. QED
    BY <1>1, <1>5

(* The user's own edits keep the tree a tree: validate_parent walks up from *)
(* the new parent and never meets the row that moves; delete hands the      *)
(* children of a group to its parent.                                       *)
LEMMA ChainClosed ==
  ASSUME NEW s \in Snapshot, NEW g \in Group
  PROVE  /\ g \in Chain(s, g)
         /\ \A h \in Chain(s, g) : s[h].up \in Chain(s, g) \cup {Root}
  <1>1. ASSUME NEW h \in Chain(s, g), s[h].up # Root
        PROVE  s[h].up \in Chain(s, g)
    <2>1. h \in Group /\ s[h].up \in Group
      BY <1>1, RowIsRow DEF Chain, Rec, Parent
    <2>2. ASSUME NEW C \in SUBSET Group, g \in C, \A x \in C : s[x].up \in C \cup {Root}
          PROVE  s[h].up \in C
      BY <1>1, <2>2 DEF Chain
    <2>3. QED
      BY <2>1, <2>2 DEF Chain
  <1>2. QED
    BY <1>1 DEF Chain

LEMMA SavedAcyclic ==
  ASSUME NEW s \in Snapshot, Acyclic(s), NEW r \in Rec, NEW p \in Parent,
         NEW now \in Nat, ValidParent(s, r, p)
  PROVE  Acyclic(Saved(s, r, p, now))
  <1> DEFINE t == Saved(s, r, p, now)
  <1> SUFFICES ASSUME NEW C \in SUBSET Nested(t), ClosedLoop(t, C) PROVE FALSE
    BY DEF Acyclic
  <1>1. /\ t[r].up = p
        /\ \A g \in Rec \ {r} : t[g] = s[g]
        /\ Nested(t) \subseteq Group /\ Group \subseteq Rec
    BY DEF Saved, Snapshot, Nested, Rec
  <1>2. Enclosed(t, C)
    BY LoopIsEnclosed
  <1>3. CASE r \notin C
    <2>1. \A g \in C : t[g] = s[g]
      BY <1>1, <1>3
    <2>2. C \in SUBSET Nested(s) /\ Enclosed(s, C)
      BY <1>1, <1>2, <2>1 DEF Nested, Enclosed
    <2>3. QED
      BY <2>2, NothingEnclosed
  <1>4. CASE r \in C
    <2> DEFINE D == C \cap Chain(s, p)
    <2>1. p # Root /\ p \in Group /\ r \in Group /\ r \notin Chain(s, p)
      BY <1>1, <1>4 DEF Nested, ValidParent
    <2>2. p \in D
      BY <1>1, <1>2, <1>4, <2>1, ChainClosed DEF Enclosed
    <2>3. ASSUME NEW g \in D PROVE g \in Nested(s) /\ s[g].up \in D
      <3>1. g # r /\ t[g] = s[g] /\ g \in Nested(t)
        BY <1>1, <2>1
      <3>2. g \in Nested(s) /\ s[g].up \in C /\ s[g].up # Root
        BY <1>2, <3>1 DEF Nested, Enclosed
      <3>3. QED
        BY <2>1, <3>2, ChainClosed
    <2>4. D \in SUBSET Nested(s) /\ Enclosed(s, D)
      BY <2>2, <2>3 DEF Enclosed
    <2>5. QED
      BY <2>4, NothingEnclosed
  <1>5. QED
    BY <1>3, <1>4

LEMMA DeletedAcyclic ==
  ASSUME NEW s \in Snapshot, Acyclic(s), NEW r \in Live(s), NEW now \in Nat
  PROVE  Acyclic(Deleted(s, r, now))
  <1> DEFINE t == Deleted(s, r, now)
  <1> SUFFICES ASSUME NEW C \in SUBSET Nested(t), ClosedLoop(t, C) PROVE FALSE
    BY DEF Acyclic
  <1>1. r \in Rec /\ ~s[r].dead /\ C \subseteq Group /\ Group \subseteq Rec
    BY DEF Live, Nested, Rec
  <1>2. Enclosed(t, C)
    BY LoopIsEnclosed
  <1>3. ASSUME NEW g \in C
        PROVE  /\ g # r /\ ~s[g].dead /\ t[g].up \in C /\ t[g].up # Root
               /\ \/ t[g].up = s[g].up
                  \/ s[g].up = r /\ r \in Group /\ t[g].up = s[r].up
    <2>1. g \in Rec /\ s[g] \in Row /\ ~t[g].dead /\ t[g].up \in C /\ t[g].up # Root
      BY <1>1, <1>2, RowIsRow DEF Nested, Enclosed
    <2>2. \/ g = r /\ t[g] = [s[g] EXCEPT !.ts = now, !.dead = TRUE]
          \/ g # r /\ s[g].up = r /\ r \in Group /\ t[g] = [s[g] EXCEPT !.ts = now, !.up = s[r].up]
          \/ g # r /\ t[g] = s[g]
      BY <2>1 DEF Deleted
    <2>3. QED
      BY <2>1, <2>2 DEF Row
  <1>4. CASE \A g \in C : t[g].up = s[g].up
    <2>1. C \in SUBSET Nested(s) /\ Enclosed(s, C)
      BY <1>1, <1>2, <1>3, <1>4 DEF Nested, Enclosed
    <2>2. QED
      BY <2>1, NothingEnclosed
  <1>5. ASSUME NEW h \in C, t[h].up # s[h].up
        PROVE  FALSE
    <2> DEFINE D == C \cup {r}
    <2>1. s[r].up \in C /\ s[r].up # Root /\ r \in Group
      BY <1>3, <1>5
    <2>2. ASSUME NEW g \in D PROVE s[g].up \in D /\ g \in Nested(s)
      <3>1. CASE g = r
        BY <1>1, <2>1, <3>1 DEF Nested
      <3>2. CASE g \in C
        <4>1. s[g].up \in D
          BY <1>3, <3>2
        <4>2. r # Root
          BY <1>1, RecordAssumption DEF Rec, Root
        <4>3. QED
          BY <1>1, <1>3, <3>2, <4>1, <4>2 DEF Nested
      <3>3. QED
        BY <3>1, <3>2
    <2>3. D \in SUBSET Nested(s) /\ Enclosed(s, D)
      BY <2>2 DEF Enclosed
    <2>4. QED
      BY <2>3, NothingEnclosed
  <1>6. QED
    BY <1>4, <1>5

LEMMA TreeInit == Init => NoGroupCycles
  <1>1. Acyclic(SharedVault)
    <2>1. Nested(SharedVault) = {}
      BY DEF Nested, SharedVault, Absent, Rec
    <2>2. QED
      BY <2>1 DEF Acyclic, ClosedLoop
  <1>2. QED
    BY <1>1 DEF Init, NoGroupCycles

LEMMA TreeNext == TypeOK /\ NoGroupCycles /\ [Next]_vars => NoGroupCycles'
  <1> SUFFICES ASSUME TypeOK, NoGroupCycles, [Next]_vars PROVE NoGroupCycles'
    OBVIOUS
  <1>0. /\ db \in [Device -> Snapshot] /\ clock \in Nat /\ clock + 1 \in Nat
        /\ Published \in SUBSET Snapshot
    BY PublishedType DEF TypeOK
  <1>1. ASSUME NEW d \in Device, NEW s, Acyclic(s), db' = [db EXCEPT ![d] = s]
        PROVE  NoGroupCycles'
    BY <1>0, <1>1 DEF NoGroupCycles
  <1>2. ASSUME NEW d \in Device, Edit(d)
        PROVE  NoGroupCycles'
    <2>0. clock' = clock + 1 /\ db[d] \in Snapshot /\ Acyclic(db[d])
      BY <1>0, <1>2, EditClock DEF NoGroupCycles
    <2>1. ASSUME NEW r \in Rec, NEW p \in Parent, Create(d, r, p) \/ Update(d, r, p)
          PROVE  NoGroupCycles'
      <3>1. ValidParent(db[d], r, p) /\ db' = [db EXCEPT ![d] = Saved(@, r, p, clock')]
        BY <2>1 DEF Create, Update
      <3>2. Acyclic(Saved(db[d], r, p, clock'))
        BY <1>0, <2>0, <3>1, SavedAcyclic
      <3>3. QED
        BY <1>1, <3>1, <3>2
    <2>2. ASSUME NEW r \in Rec, Delete(d, r)
          PROVE  NoGroupCycles'
      <3>1. r \in Live(db[d]) /\ db' = [db EXCEPT ![d] = Deleted(@, r, clock')]
        BY <2>2 DEF Delete
      <3>2. Acyclic(Deleted(db[d], r, clock'))
        BY <1>0, <2>0, <3>1, DeletedAcyclic
      <3>3. QED
        BY <1>1, <3>1, <3>2
    <2>3. QED
      BY <1>2, <2>1, <2>2 DEF Edit
  <1>3. ASSUME NEW d \in Device, MergeStep(d)
        PROVE  NoGroupCycles'
    <2>1. PICK s \in Published : MergeInto(d, s)
      BY <1>3 DEF MergeStep
    <2>2. Acyclic(Repair(Merge(db[d], s), clock + 1))
      BY <1>0, MergeType, RepairedAcyclic
    <2>3. QED
      BY <1>1, <2>1, <2>2 DEF MergeInto
  <1>4. ASSUME NEW d \in Device, ReplaceStep(d)
        PROVE  NoGroupCycles'
    <2>1. PICK s \in Published : Replace(d, s)
      BY <1>4 DEF ReplaceStep
    <2>2. Acyclic(Repair(s, clock + 1))
      BY <1>0, RepairedAcyclic
    <2>3. QED
      BY <1>1, <2>1, <2>2 DEF Replace
  <1>5. CASE UNCHANGED db
    BY <1>5 DEF NoGroupCycles
  <1>6. QED
    BY <1>2, <1>3, <1>4, <1>5, FourKinds DEF Next, EditStep, PublishStep, vars

(* No database ever holds live groups nested in each other, whatever the   *)
(* devices moved at the same time and in whatever order the versions came: *)
(* validate_parent sees to it for edits, repair_cycles for merges and      *)
(* restores.                                                               *)
THEOREM TreeStaysTree == Spec => []NoGroupCycles
  BY InitType, NextType, TreeInit, TreeNext, PTL DEF Spec

-----------------------------------------------------------------------------
(* A step is the step of one device: it leaves what belongs to the others  *)
(* alone, and only an upload adds a version.                               *)

DeviceStep(d) == Edit(d) \/ Sync(d) \/ Command(d) \/ Failure(d)

Alone(d) ==
  \A e \in Device \ {d} :
     /\ db'[e] = db[e] /\ conn'[e] = conn[e] /\ op'[e] = op[e]
     /\ skipped'[e] = skipped[e]

LEMMA StepAlone ==
  ASSUME TypeOK, NEW d \in Device, DeviceStep(d)
  PROVE  Alone(d)
  <1>0. /\ db \in [Device -> Snapshot] /\ conn \in [Device -> Connection]
        /\ op \in [Device -> OpRecord] /\ skipped \in [Device -> SUBSET Name]
    BY DEF TypeOK
  <1> USE DEF Alone
  <1>1. CASE Edit(d)
    BY <1>0, <1>1 DEF Edit, Create, Update, Delete, history
  <1>2. CASE Sync(d)
    <2>1. CASE SyncList(d) \/ Export(d) \/ Put(d)
      BY <1>0, <2>1 DEF SyncList, Export, Put, history
    <2>2. CASE Pull(d) \/ PassOver(d) \/ NoSuchVersion(d)
      BY <1>0, <2>2 DEF Pull, PassOver, NoSuchVersion, Pulled, MergeInto, Finished, history
    <2>3. CASE ExportUnchanged(d) \/ PruneAll(d)
      BY <1>0, <2>3 DEF ExportUnchanged, PruneAll, Succeed, MarkSeen, Finished
    <2>4. QED
      BY <1>2, <2>1, <2>2, <2>3 DEF Sync
  <1>3. CASE Command(d)
    <2>1. CASE \E n \in Names(remote) : RestoreList(d, n)
      BY <1>0, <2>1 DEF RestoreList, history
    <2>2. CASE RestoreApply(d) \/ FileImport(d)
      BY <1>0, <2>2 DEF RestoreApply, FileImport, Replace, Finished
    <2>3. CASE \E k \in Key : ConnectList(d, k) \/ ForceConnectList(d, k)
      BY <1>0, <2>3 DEF ConnectList, ForceConnectList, history
    <2>4. CASE ConnectClear(d)
      BY <1>0, <2>4 DEF ConnectClear, Connected, Finished, history
    <2>5. CASE ConnectSave(d)
      BY <1>0, <2>5 DEF ConnectSave, Connected, MergeInto, Finished
    <2>6. CASE Disconnect(d) \/ FileExport(d)
      BY <1>0, <2>6 DEF Disconnect, FileExport, history
    <2>7. QED
      BY <1>3, <2>1, <2>2, <2>3, <2>4, <2>5, <2>6 DEF Command, RestoreVersion, Connect
  <1>4. CASE Failure(d)
    BY <1>0, <1>4 DEF Failure, PruneThenFail, Abort, Finished, history
  <1>5. QED
    BY <1>1, <1>2, <1>3, <1>4 DEF DeviceStep

LEMMA OnlyPutAdds ==
  ASSUME NEW d \in Device, DeviceStep(d), ~Put(d)
  PROVE  remote' \subseteq remote
  <1> USE DEF store
  <1>1. CASE Edit(d)
    BY <1>1 DEF Edit, Create, Update, Delete
  <1>2. CASE Sync(d)
    BY <1>2 DEF Sync, SyncList, Pull, PassOver, ExportUnchanged, Export, PruneAll, NoSuchVersion
  <1>3. CASE Command(d)
    BY <1>3 DEF Command, RestoreVersion, Connect, RestoreList, RestoreApply, ConnectList,
                ForceConnectList, ConnectClear, ConnectSave, Disconnect, FileExport, FileImport
  <1>4. CASE Failure(d)
    BY <1>4 DEF Failure, PruneThenFail, Abort
  <1>5. QED
    BY <1>1, <1>2, <1>3, <1>4 DEF DeviceStep

-----------------------------------------------------------------------------
(* Version names.  A name under which an upload is still under way is not  *)
(* in any list of a device: when it gets to the store it is news to all.   *)

Settled ==
  {n \in Nat : /\ 1 <= n /\ n <= named
               /\ \A d \in Device : op[d].pc = "put" => op[d].name # n}

NamesInv ==
  /\ IsFiniteSet(remote) /\ Names(remote) \subseteq Settled
  /\ \A v, w \in remote : v.name = w.name => v = w
  /\ \A d \in Device :
       /\ op[d].listed \subseteq Settled /\ conn[d].seen \subseteq Settled
       /\ op[d].todo \subseteq op[d].listed
       /\ op[d].pc = "put" =>
            /\ 1 <= op[d].name /\ op[d].name <= named
            /\ \A e \in Device \ {d} : op[e].pc = "put" => op[e].name # op[d].name

LEMMA NamesInit == Init => NamesInv
  BY FS_EmptySet, SomeKeyIsKey DEF Init, NamesInv, NoOp, Names, Disconnected

(* What an operation may do to the names besides giving out and storing    *)
(* one.                                                                    *)
LEMMA NamesKept ==
  ASSUME TypeOK, NamesInv, NEW d \in Device,
         \A e \in Device \ {d} : op'[e] = op[e] /\ conn'[e] = conn[e],
         named' = named, remote' \subseteq remote,
         op'[d].pc # "put",
         op'[d].listed \subseteq Settled, conn'[d].seen \subseteq Settled,
         op'[d].todo \subseteq op'[d].listed
  PROVE  NamesInv'
  <1>1. Settled \subseteq Settled'
    BY DEF Settled
  <1>2. IsFiniteSet(remote') /\ Names(remote') \subseteq Names(remote)
    BY FS_Subset DEF NamesInv, Names
  <1>3. ASSUME NEW e \in Device
        PROVE  /\ op'[e].listed \subseteq Settled /\ conn'[e].seen \subseteq Settled
               /\ op'[e].todo \subseteq op'[e].listed
               /\ op'[e].pc = "put" => op'[e] = op[e] /\ e # d
    BY DEF NamesInv
  <1>4. ASSUME NEW e \in Device, op'[e].pc = "put"
        PROVE  /\ 1 <= op'[e].name /\ op'[e].name <= named'
               /\ \A f \in Device \ {e} : op'[f].pc = "put" => op'[f].name # op'[e].name
    BY <1>3, <1>4 DEF NamesInv
  <1>5. QED
    BY <1>1, <1>2, <1>3, <1>4 DEF NamesInv

LEMMA NamesNext == TypeOK /\ NamesInv /\ [Next]_vars => NamesInv'
  <1> SUFFICES ASSUME TypeOK, NamesInv, [Next]_vars PROVE NamesInv'
    OBVIOUS
  <1>0. /\ op \in [Device -> OpRecord] /\ conn \in [Device -> Connection]
        /\ named \in Nat /\ remote \in SUBSET Version
    BY DEF TypeOK
  <1>1. ASSUME UNCHANGED <<op, conn, remote, named>> PROVE NamesInv'
    BY <1>1 DEF NamesInv, Settled, Names
  <1>2. ASSUME NEW d \in Device, DeviceStep(d), ~Put(d), named' = named,
               op'[d].pc # "put",
               op'[d].listed \subseteq Settled, conn'[d].seen \subseteq Settled,
               op'[d].todo \subseteq op'[d].listed
        PROVE  NamesInv'
    BY <1>2, StepAlone, OnlyPutAdds, NamesKept DEF Alone
  <1>3. ASSUME NEW d \in Device, DeviceStep(d), ~Put(d), named' = named, Finished(d),
               conn'[d].seen \subseteq Settled
        PROVE  NamesInv'
    <2>1. op'[d].pc = "idle" /\ op'[d].listed = {} /\ op'[d].todo = {}
      BY <1>0, <1>3 DEF Finished, NoOp
    <2>2. QED
      BY <1>2, <1>3, <2>1
  <1>4. ASSUME NEW d \in Device, Edit(d) PROVE NamesInv'
    BY <1>1, <1>4 DEF Edit, Create, Update, Delete, store
  <1>5. ASSUME NEW d \in Device, Sync(d) PROVE NamesInv'
    <2>0. /\ conn[d].seen \subseteq Settled /\ op[d].listed \subseteq Settled
          /\ op[d].todo \subseteq op[d].listed /\ DeviceStep(d)
      BY <1>5 DEF NamesInv, DeviceStep
    <2>1. CASE SyncList(d)
      <3>1. op'[d].listed = Names(remote) /\ op'[d].todo = ToPull(d)
            /\ op'[d].pc = AfterPull(ToPull(d)) /\ named' = named /\ conn' = conn
        BY <1>0, <2>1 DEF SyncList, NoOp, store
      <3>2. ToPull(d) \subseteq Names(remote) /\ AfterPull(ToPull(d)) # "put" /\ ~Put(d)
        BY <2>1 DEF ToPull, AfterPull, SyncList, Put
      <3>3. QED
        BY <1>2, <2>0, <3>1, <3>2 DEF NamesInv
    <2>2. CASE Pull(d) \/ PassOver(d)
      <3>1. PICK v, h : v \in remote /\ op[d].pc = "pull" /\ Pulled(d, v, h)
        BY <2>2 DEF Pull, PassOver
      <3>2. op'[d].listed = op[d].listed /\ op'[d].todo = op[d].todo \ {v.name}
            /\ op'[d].pc \in {"pull", "export"}
        BY <1>0, <3>1 DEF Pulled, OpRecord, AfterPull
      <3>3. named' = named /\ conn' = conn /\ ~Put(d) /\ op'[d].pc # "put"
        BY <2>2, <3>1, <3>2 DEF Pull, PassOver, store, Put
      <3>4. QED
        BY <1>2, <2>0, <3>2, <3>3
    <2>3. CASE ExportUnchanged(d) \/ PruneAll(d)
      <3>1. Finished(d) /\ conn'[d].seen = op[d].listed /\ named' = named /\ ~Put(d)
        BY <1>0, <2>3
        DEF ExportUnchanged, PruneAll, Succeed, MarkSeen, store, Connection, Put
      <3>2. QED
        BY <1>3, <2>0, <3>1
    <2>4. CASE Export(d)
      <3>1. /\ op'[d].listed = op[d].listed /\ op'[d].todo = op[d].todo
            /\ op'[d].pc = "put" /\ op'[d].name = named + 1 /\ op[d].pc = "export"
            /\ named' = named + 1 /\ UNCHANGED <<conn, remote>>
            /\ \A e \in Device \ {d} : op'[e] = op[e]
        BY <1>0, <2>4 DEF Export, OpRecord
      <3>2. Settled \subseteq Settled'
        BY <1>0, <3>1 DEF Settled
      <3>3. ASSUME NEW e \in Device, op'[e].pc = "put"
            PROVE  /\ 1 <= op'[e].name /\ op'[e].name <= named'
                   /\ \A f \in Device \ {e} : op'[f].pc = "put" => op'[f].name # op'[e].name
        <4>1. \A f \in Device \ {d} :
                 op'[f].pc = "put" => 1 <= op'[f].name /\ op'[f].name <= named
                                      /\ op'[f].name \in Nat
          BY <1>0, <3>1 DEF NamesInv, OpRecord
        <4>2. CASE e = d
          BY <1>0, <3>1, <4>1, <4>2
        <4>3. CASE e # d
          <5>1. ASSUME NEW f \in Device \ {e}, op'[f].pc = "put"
                PROVE  op'[f].name # op'[e].name
            <6>1. CASE f = d
              BY <1>0, <3>1, <3>3, <4>1, <4>3, <6>1
            <6>2. CASE f # d
              BY <3>1, <3>3, <4>3, <5>1, <6>2 DEF NamesInv
            <6>3. QED
              BY <6>1, <6>2
          <5>2. QED
            BY <1>0, <3>1, <3>3, <4>1, <4>3, <5>1
        <4>4. QED
          BY <4>2, <4>3
      <3>4. ASSUME NEW e \in Device
            PROVE  /\ op'[e].listed \subseteq Settled' /\ conn'[e].seen \subseteq Settled'
                   /\ op'[e].todo \subseteq op'[e].listed
        BY <2>0, <3>1, <3>2 DEF NamesInv
      <3>5. IsFiniteSet(remote') /\ Names(remote') \subseteq Settled'
            /\ \A v, w \in remote' : v.name = w.name => v = w
        BY <3>1, <3>2 DEF NamesInv, Names
      <3>6. QED
        BY <3>3, <3>4, <3>5 DEF NamesInv
    <2>5. CASE Put(d)
      <3>1. PICK s \in op[d].snap :
              remote' = remote \cup {[name |-> op[d].name, snap |-> s, key |-> op[d].key]}
        BY <2>5 DEF Put
      <3> DEFINE new == [name |-> op[d].name, snap |-> s, key |-> op[d].key]
      <3>2. /\ op'[d].listed = op[d].listed /\ op'[d].todo = op[d].todo
            /\ op'[d].pc = "prune" /\ op[d].pc = "put"
            /\ UNCHANGED <<conn, named>>
            /\ \A e \in Device \ {d} : op'[e] = op[e]
        BY <1>0, <2>5 DEF Put, OpRecord
      <3>3. Settled \subseteq Settled'
        BY <3>2 DEF Settled
      <3>4. op[d].name \in Settled' /\ op[d].name \notin Settled
        <4>1. op[d].name \in Nat /\ 1 <= op[d].name /\ op[d].name <= named'
          BY <1>0, <3>2 DEF NamesInv, OpRecord
        <4>2. \A e \in Device : op'[e].pc = "put" => op'[e].name # op[d].name
          BY <3>2 DEF NamesInv
        <4>3. op[d].name \in Settled'
          BY <4>1, <4>2 DEF Settled
        <4>4. op[d].name \notin Settled
          BY <3>2 DEF Settled
        <4>5. QED
          BY <4>3, <4>4
      <3>5. IsFiniteSet(remote') /\ Names(remote') = Names(remote) \cup {op[d].name}
        <4>1. IsFiniteSet(remote')
          BY <3>1, FS_AddElement DEF NamesInv
        <4>2. new.name = op[d].name /\ remote' = remote \cup {new}
          BY <3>1
        <4> HIDE DEF new
        <4>3. Names(remote') = Names(remote) \cup {new.name}
          BY <4>2 DEF Names
        <4>4. QED
          BY <4>1, <4>2, <4>3
      <3>6. \A v, w \in remote' : v.name = w.name => v = w
        BY <3>1, <3>4 DEF NamesInv, Names
      <3>7. ASSUME NEW e \in Device
            PROVE  /\ op'[e].listed \subseteq Settled' /\ conn'[e].seen \subseteq Settled'
                   /\ op'[e].todo \subseteq op'[e].listed
                   /\ op'[e].pc = "put" =>
                        /\ 1 <= op'[e].name /\ op'[e].name <= named'
                        /\ \A f \in Device \ {e} : op'[f].pc = "put" => op'[f].name # op'[e].name
        BY <2>0, <3>2, <3>3 DEF NamesInv
      <3>8. QED
        BY <3>3, <3>4, <3>5, <3>6, <3>7 DEF NamesInv
    <2>6. CASE NoSuchVersion(d)
      <3>1. Finished(d) /\ conn' = conn /\ named' = named /\ ~Put(d)
        BY <1>0, <2>6 DEF NoSuchVersion, store, Put, Finished, NoOp
      <3>2. QED
        BY <1>3, <2>0, <3>1
    <2>7. QED
      BY <1>5, <2>1, <2>2, <2>3, <2>4, <2>5, <2>6 DEF Sync
  <1>6. ASSUME NEW d \in Device, Command(d) PROVE NamesInv'
    <2>0. conn[d].seen \subseteq Settled /\ op[d].listed \subseteq Settled /\ DeviceStep(d)
      BY <1>6 DEF NamesInv, DeviceStep
    <2>1. CASE \E n \in Names(remote) : RestoreList(d, n)
      <3>1. PICK n \in Names(remote) : RestoreList(d, n)
        BY <2>1
      <3>2. op'[d].listed = Names(remote) /\ op'[d].todo = {n}
            /\ op'[d].pc = "restore" /\ named' = named /\ conn' = conn /\ ~Put(d)
        BY <1>0, <3>1 DEF RestoreList, NoOp, store, Put
      <3>3. QED
        BY <1>2, <2>0, <3>2 DEF NamesInv
    <2>2. CASE RestoreApply(d)
      <3>1. Finished(d) /\ conn'[d].seen = op[d].listed /\ named' = named /\ ~Put(d)
        BY <1>0, <2>2 DEF RestoreApply, store, Connection, Put
      <3>2. QED
        BY <1>3, <2>0, <3>1
    <2>3. CASE \E k \in Key : ConnectList(d, k) \/ ForceConnectList(d, k)
      <3>1. PICK k \in Key : ConnectList(d, k) \/ ForceConnectList(d, k)
        BY <2>3
      <3>2. op'[d].listed = Names(remote) /\ op'[d].todo \subseteq Names(remote)
            /\ op'[d].pc \in {"connect", "clear"}
        <4>1. CASE ConnectList(d, k)
          BY <1>0, <4>1 DEF ConnectList, NoOp
        <4>2. CASE ForceConnectList(d, k)
          BY <1>0, <4>2 DEF ForceConnectList, NoOp
        <4>3. QED
          BY <3>1, <4>1, <4>2
      <3>3. named' = named /\ conn' = conn /\ ~Put(d) /\ op'[d].pc # "put"
        BY <3>1, <3>2 DEF ConnectList, ForceConnectList, store, Put
      <3>4. QED
        BY <1>2, <2>0, <3>2, <3>3 DEF NamesInv
    <2>4. CASE ConnectClear(d) \/ ConnectSave(d)
      <3>1. Finished(d) /\ named' = named /\ ~Put(d)
        BY <2>4 DEF ConnectClear, ConnectSave, store, Put
      <3>2. conn'[d].seen = op[d].listed \/ conn' = conn
        BY <1>0, <2>4 DEF ConnectClear, ConnectSave, Connected
      <3>3. QED
        BY <1>3, <2>0, <3>1, <3>2
    <2>5. CASE Disconnect(d)
      <3>1. op' = op /\ conn'[d].seen = {} /\ named' = named /\ op[d].pc = "idle" /\ ~Put(d)
        BY <1>0, <2>5 DEF Disconnect, Disconnected, store, Put
      <3>2. QED
        BY <1>2, <2>0, <3>1 DEF NamesInv
    <2>6. CASE FileExport(d) \/ FileImport(d)
      BY <1>1, <2>6 DEF FileExport, FileImport, store
    <2>7. QED
      BY <1>6, <2>1, <2>2, <2>3, <2>4, <2>5, <2>6 DEF Command, RestoreVersion, Connect
  <1>7. ASSUME NEW d \in Device, Failure(d) PROVE NamesInv'
    <2>1. Finished(d) /\ conn' = conn /\ named' = named /\ ~Put(d) /\ DeviceStep(d)
      <3>1. op'[d].pc = "idle"
        BY <1>0, <1>7 DEF Failure, PruneThenFail, Abort, Finished, NoOp
      <3>2. QED
        BY <1>0, <1>7, <3>1 DEF Failure, PruneThenFail, Abort, store, DeviceStep, Put, OpRecord
    <2>2. conn'[d].seen \subseteq Settled
      BY <2>1 DEF NamesInv
    <2>3. QED
      BY <1>3, <2>1, <2>2
  <1>8. CASE UNCHANGED vars
    BY <1>1, <1>8 DEF vars
  <1>9. QED
    BY <1>4, <1>5, <1>6, <1>7, <1>8 DEF Next

-----------------------------------------------------------------------------
(* While nobody resets anything.  A push keeps to the passphrase of the     *)
(* saved connection and goes on to the export when it has pulled all; a     *)
(* device that is not connected has passed nothing over yet.                *)

Pushing(d) == op[d].pc \in {"pull", "export", "put", "prune"}

LockedInv ==
  resets = 0 =>
    \A d \in Device :
       /\ Pushing(d) => /\ op[d].key = conn[d].key
                        /\ op[d].todo = {} <=> op[d].pc # "pull"
       /\ op[d].pc = "connect" /\ op[d].todo = {} => op[d].listed = {}
       /\ ~conn[d].pending /\ op[d].pc \notin {"restore", "clear"}
       /\ conn[d].on \/ skipped[d] = {}

QuietStep(d) ==
  \/ Edit(d) \/ Sync(d) \/ Failure(d)
  \/ (\E k \in Key : ConnectList(d, k)) \/ ConnectSave(d) \/ FileExport(d)

LEMMA QuietSteps ==
  ASSUME TypeOK, LockedInv, NEW d \in Device, DeviceStep(d), resets' = 0
  PROVE  resets = 0 /\ QuietStep(d)
  <1>1. resets \in Nat
    BY DEF TypeOK
  <1>2. CASE Edit(d) \/ Sync(d) \/ Failure(d)
    <2>1. resets' = resets
      BY <1>2 DEF Edit, Create, Update, Delete, Sync, SyncList, Pull, PassOver, ExportUnchanged,
        Export, Put, PruneAll, NoSuchVersion, Failure, PruneThenFail, Abort
    <2>2. QED
      BY <1>2, <2>1 DEF QuietStep
  <1>3. CASE Command(d)
    <2>1. CASE (\E k \in Key : ConnectList(d, k)) \/ ConnectSave(d) \/ FileExport(d)
      BY <2>1 DEF QuietStep, ConnectList, ConnectSave, FileExport
    <2>2. CASE RestoreApply(d) \/ ConnectClear(d)
      BY <2>2 DEF RestoreApply, ConnectClear, LockedInv
    <2>3. CASE Disconnect(d) \/ FileImport(d)
      BY <1>1, <2>3 DEF Disconnect, FileImport
    <2>4. ASSUME NEW n \in Names(remote), RestoreList(d, n) PROVE FALSE
      BY <1>1, <2>4 DEF RestoreList
    <2>5. ASSUME NEW k \in Key, ForceConnectList(d, k) PROVE FALSE
      BY <1>1, <2>5 DEF ForceConnectList
    <2>6. QED
      BY <1>3, <2>1, <2>2, <2>3, <2>4, <2>5 DEF Command, RestoreVersion, Connect
  <1>4. QED
    BY <1>2, <1>3 DEF DeviceStep

(* The latest of some names is one of them.                                *)
LEMMA LatestIn ==
  ASSUME NEW names \in SUBSET Nat, names # {}, NEW b \in Nat,
         \A n \in names : 1 <= n /\ n <= b
  PROVE  Latest(names) \in names /\ \A n \in names : n <= Latest(names)
  <1>1. \E m \in names : \A n \in names : n <= m
    BY BoundedMax
  <1>2. Latest(names) \in names \cup {0} /\ \A n \in names : n <= Latest(names)
    BY <1>1 DEF Latest
  <1>3. PICK n \in names : 1 <= n /\ n <= Latest(names)
    BY <1>2
  <1>4. QED
    BY <1>2, <1>3

LEMMA LockedInit == Init => LockedInv
  <1> SUFFICES ASSUME Init, NEW d \in Device
               PROVE  op[d].pc = "idle" /\ ~conn[d].pending /\ skipped[d] = {}
    BY DEF LockedInv, Pushing
  <1>1. QED
    BY DEF Init, NoOp, Disconnected

LEMMA LockedNext ==
  TypeOK /\ LockInv /\ NamesInv /\ LockedInv /\ [Next]_vars => LockedInv'
  <1> SUFFICES ASSUME TypeOK, LockInv, NamesInv, LockedInv, [Next]_vars, resets' = 0
               PROVE  LockedInv'
    BY DEF LockedInv
  <1> DEFINE Fits(d) ==
        /\ Pushing(d) => /\ op[d].key = conn[d].key
                         /\ op[d].todo = {} <=> op[d].pc # "pull"
        /\ op[d].pc = "connect" /\ op[d].todo = {} => op[d].listed = {}
        /\ ~conn[d].pending /\ op[d].pc \notin {"restore", "clear"}
        /\ conn[d].on \/ skipped[d] = {}
  <1>0. /\ op \in [Device -> OpRecord] /\ conn \in [Device -> Connection]
        /\ skipped \in [Device -> SUBSET Name] /\ named \in Nat
    BY DEF TypeOK
  <1>1. CASE UNCHANGED vars
    BY <1>1 DEF vars, LockedInv, Pushing
  <1>2. ASSUME NEW d \in Device, DeviceStep(d)
        PROVE  LockedInv'
    <2>1. resets = 0 /\ QuietStep(d) /\ Alone(d) /\ \A e \in Device : Fits(e)
      BY <1>2, QuietSteps, StepAlone DEF LockedInv
    <2>2. SUFFICES Fits(d)'
      BY <2>1 DEF Alone, LockedInv, Pushing
    <2>3. ASSUME UNCHANGED <<op, conn, skipped>>
          PROVE  Fits(d)'
      BY <2>1, <2>3 DEF Pushing
    <2>4. ASSUME op'[d].pc = "idle", ~conn'[d].pending,
                 conn'[d].on \/ (conn'[d].on = conn[d].on /\ skipped'[d] = skipped[d])
          PROVE  Fits(d)'
      BY <2>1, <2>4 DEF Pushing
    <2>5. CASE Edit(d) \/ FileExport(d)
      BY <2>3, <2>5 DEF Edit, Create, Update, Delete, FileExport, history
    <2>6. CASE Failure(d) \/ NoSuchVersion(d)
      <3>1. Finished(d) /\ conn' = conn /\ skipped' = skipped
        BY <2>6 DEF Failure, PruneThenFail, Abort, NoSuchVersion, history
      <3>2. op'[d].pc = "idle"
        BY <1>0, <3>1 DEF Finished, NoOp
      <3>3. QED
        BY <2>1, <2>4, <3>1, <3>2
    <2>7. CASE ExportUnchanged(d) \/ PruneAll(d)
      <3>1. Finished(d) /\ MarkSeen(d) /\ skipped' = skipped
        BY <2>7 DEF ExportUnchanged, PruneAll, Succeed
      <3>2. op'[d].pc = "idle" /\ ~conn'[d].pending /\ conn'[d].on = conn[d].on
        BY <1>0, <3>1 DEF Finished, NoOp, MarkSeen, Connection
      <3>3. QED
        BY <2>4, <3>1, <3>2
    <2>8. CASE ConnectSave(d)
      <3>1. Finished(d) /\ Connected(d)
        BY <2>8 DEF ConnectSave
      <3>2. op'[d].pc = "idle" /\ ~conn'[d].pending /\ conn'[d].on
        BY <1>0, <3>1 DEF Finished, NoOp, Connected
      <3>3. QED
        BY <2>4, <3>2
    <2>9. CASE \E k \in Key : ConnectList(d, k)
      <3>1. PICK k \in Key : ConnectList(d, k)
        BY <2>9
      <3>2. /\ op'[d].pc = "connect" /\ op'[d].listed = Names(remote)
            /\ op'[d].todo = {n \in Names(remote) : n = Latest(Names(remote))}
            /\ conn' = conn /\ skipped' = skipped
        BY <1>0, <3>1 DEF ConnectList, NoOp, history
      <3>3. ASSUME Names(remote) # {} PROVE op'[d].todo # {}
        <4>1. Names(remote) \in SUBSET Nat /\ \A n \in Names(remote) : 1 <= n /\ n <= named
          BY DEF NamesInv, Settled
        <4>2. Latest(Names(remote)) \in Names(remote)
          BY <1>0, <3>3, <4>1, LatestIn
        <4>3. QED
          BY <3>2, <4>2
      <3>4. QED
        BY <2>1, <3>2, <3>3 DEF Pushing
    <2>10. CASE SyncList(d)
      <3>1. /\ op'[d].pc = AfterPull(ToPull(d)) /\ op'[d].todo = ToPull(d)
            /\ op'[d].key = conn[d].key /\ conn' = conn /\ conn[d].on
        BY <1>0, <2>10 DEF SyncList, NoOp
      <3>2. QED
        BY <2>1, <3>1 DEF Pushing, AfterPull
    <2>11. CASE Pull(d) \/ PassOver(d)
      <3>1. PICK v, h : v \in remote /\ op[d].pc = "pull" /\ Pulled(d, v, h)
        BY <2>11 DEF Pull, PassOver
      <3>2. /\ op'[d].pc = AfterPull(op'[d].todo) /\ op'[d].key = op[d].key
        BY <1>0, <3>1 DEF Pulled, OpRecord
      <3>3. conn' = conn /\ skipped' = skipped
        BY <2>11 DEF Pull, PassOver, history
      <3>4. op'[d].pc \in {"pull", "export"} /\ (op'[d].todo = {} <=> op'[d].pc # "pull")
        BY <3>2 DEF AfterPull
      <3>5. op'[d].key = conn'[d].key
        BY <2>1, <3>1, <3>2, <3>3 DEF Pushing
      <3>6. ~conn'[d].pending /\ (conn'[d].on \/ skipped'[d] = {})
        BY <2>1, <3>3
      <3>7. QED
        BY <3>4, <3>5, <3>6 DEF Pushing
    <2>12. CASE Export(d) \/ Put(d)
      <3>1. /\ op[d].pc \in {"export", "put"} /\ op'[d].pc \in {"put", "prune"}
            /\ op'[d].key = op[d].key /\ op'[d].todo = op[d].todo
        <4>1. CASE Export(d)
          BY <1>0, <4>1 DEF Export, OpRecord
        <4>2. CASE Put(d)
          BY <1>0, <4>2 DEF Put, OpRecord
        <4>3. QED
          BY <2>12, <4>1, <4>2
      <3>2. conn' = conn /\ skipped' = skipped
        BY <2>12 DEF Export, Put, history
      <3>3. QED
        BY <2>1, <3>1, <3>2 DEF Pushing
    <2>13. QED
      BY <2>1, <2>5, <2>6, <2>7, <2>8, <2>9, <2>10, <2>11, <2>12 DEF QuietStep, Sync
  <1>3. QED
    BY <1>1, <1>2 DEF Next, DeviceStep

-----------------------------------------------------------------------------
(* What a device takes for seen it has.                                    *)

Has(d, v) == \A r \in Rec : db[d][r].ts >= v.snap[r].ts

(* A push that goes on has what it listed, besides what is still to pull.   *)
PulledInv ==
  resets = 0 =>
    \A d \in Device, v \in remote :
       Pushing(d) /\ v.name \in op[d].listed \ op[d].todo /\ v.key = op[d].key =>
         Has(d, v) \/ v.name \in skipped[d]

(* A merge takes nothing back, and brings what it merges.                  *)
LEMMA MergeBrings ==
  ASSUME TypeOK, StampsBounded, NEW d \in Device, NEW v \in remote, MergeInto(d, v.snap),
         NEW r \in Rec
  PROVE  db'[d][r].ts >= db[d][r].ts /\ db'[d][r].ts >= v.snap[r].ts
  <1> DEFINE m == Merge(db[d], v.snap)
  <1>0. /\ db \in [Device -> Snapshot] /\ db[d] \in Snapshot /\ clock \in Nat
        /\ v.snap \in Published /\ v.snap \in Snapshot
    BY DEF TypeOK, Published, Version
  <1>1. m \in Snapshot /\ Bounded(m, clock)
    BY <1>0, MergeType, MergeBounded DEF StampsBounded
  <1>2. /\ db[d][r].ts \in Nat /\ v.snap[r].ts \in Nat /\ m[r].ts \in Nat
        /\ m[r].ts <= clock
    BY <1>0, <1>1, RowIsRow DEF Bounded
  <1>3. m[r].ts >= db[d][r].ts /\ m[r].ts >= v.snap[r].ts
    BY <1>2 DEF Merge
  <1>4. db'[d] = Repair(m, clock + 1)
    BY <1>0 DEF MergeInto
  <1>5. db'[d][r] = m[r] \/ db'[d][r].ts = clock + 1
    BY <1>0, <1>1, <1>4, RepairRow
  <1>6. QED
    BY <1>0, <1>2, <1>3, <1>5

LEMMA NothingGoesBack ==
  ASSUME TypeOK, StampsBounded, NEW d \in Device, QuietStep(d), NEW e \in Device, NEW r \in Rec
  PROVE  db'[e][r].ts \in Nat /\ db[e][r].ts \in Nat /\ db'[e][r].ts >= db[e][r].ts
  <1>0. /\ DeviceStep(d) /\ Alone(d) /\ db[e] \in Snapshot /\ clock \in Nat
        /\ db[e][r].ts \in Nat /\ db[e][r].ts <= clock
    BY StepAlone, RowIsRow
    DEF QuietStep, DeviceStep, Command, Connect, TypeOK, StampsBounded, Bounded
  <1>1. db'[e][r].ts \in Nat
    <2>1. TypeOK'
      BY <1>0, EditType, SyncType, CommandType, FailureType DEF DeviceStep
    <2>2. QED
      BY <2>1, RowIsRow DEF TypeOK
  <1>2. CASE UNCHANGED db \/ e # d
    BY <1>0, <1>1, <1>2 DEF Alone
  <1>3. CASE Edit(d)
    BY <1>0, <1>1, <1>3, EditStamps, EditClock
  <1>4. CASE e = d /\ \E v \in remote : MergeInto(d, v.snap)
    BY <1>0, <1>1, <1>4, MergeBrings
  <1>5. UNCHANGED db \/ Edit(d) \/ \E v \in remote : MergeInto(d, v.snap)
    <2>1. CASE Pull(d)
      BY <2>1 DEF Pull
    <2>2. CASE ConnectSave(d)
      BY <2>2 DEF ConnectSave
    <2>3. CASE ~Pull(d) /\ ~ConnectSave(d)
      BY <2>3 DEF QuietStep, Sync, SyncList, PassOver, ExportUnchanged, Export, Put, PruneAll,
        NoSuchVersion, Failure, PruneThenFail, Abort, ConnectList, FileExport
    <2>4. QED
      BY <2>1, <2>2, <2>3
  <1>6. QED
    BY <1>2, <1>3, <1>4, <1>5

(* Only an upload adds a version, and nobody has listed it.                *)
LEMMA NewVersion ==
  ASSUME TypeOK, NamesInv, NEW d \in Device, DeviceStep(d), NEW v \in remote', v \notin remote
  PROVE  /\ Put(d) /\ v.name = op[d].name /\ v.key = op[d].key
         /\ v.snap \in op[d].snap /\ v.name \notin Settled
  <1>1. Put(d)
    BY OnlyPutAdds
  <1>2. PICK s \in op[d].snap : v = [name |-> op[d].name, snap |-> s, key |-> op[d].key]
    BY <1>1 DEF Put
  <1>3. op[d].name \notin Settled
    BY <1>1 DEF Put, Settled
  <1>4. QED
    BY <1>1, <1>2, <1>3

AbsorbInv == SeenIsAbsorbed /\ PulledInv

LEMMA AbsorbInit == Init => AbsorbInv
  BY DEF Init, AbsorbInv, SeenIsAbsorbed, PulledInv

LEMMA AbsorbNext ==
  /\ TypeOK /\ StampsBounded /\ NamesInv /\ LockedInv /\ AbsorbInv /\ [Next]_vars
  => AbsorbInv'
  <1> SUFFICES ASSUME TypeOK, StampsBounded, NamesInv, LockedInv, AbsorbInv,
                      [Next]_vars, resets' = 0
               PROVE  AbsorbInv'
    BY DEF AbsorbInv, SeenIsAbsorbed, PulledInv
  <1> DEFINE Seen(d, v) == v.name \in conn[d].seen \ skipped[d] /\ v.key = conn[d].key
             Past(d, v) == Pushing(d) /\ v.name \in op[d].listed \ op[d].todo /\ v.key = op[d].key
             Fine(d, v) == /\ Seen(d, v) => Has(d, v)
                           /\ Past(d, v) => Has(d, v) \/ v.name \in skipped[d]
  <1>0. /\ op \in [Device -> OpRecord] /\ conn \in [Device -> Connection]
        /\ skipped \in [Device -> SUBSET Name]
    BY DEF TypeOK
  <1>1. CASE UNCHANGED vars
    BY <1>1 DEF vars, AbsorbInv, SeenIsAbsorbed, PulledInv, Pushing, Has
  <1>2. ASSUME NEW d \in Device, DeviceStep(d), NEW e \in Device, NEW v \in remote'
        PROVE  Fine(e, v)'
    <2>1. /\ resets = 0 /\ QuietStep(d) /\ Alone(d)
          /\ \A f \in Device, w \in remote : Fine(f, w)
      BY <1>2, QuietSteps, StepAlone DEF AbsorbInv, SeenIsAbsorbed, PulledInv, Has
    <2>2. CASE v \notin remote
      <3>1. Put(d) /\ v.name \notin Settled
        BY <1>2, <2>2, NewVersion
      <3>2. conn' = conn /\ op'[d].listed = op[d].listed
        BY <1>0, <3>1 DEF Put, OpRecord
      <3>3. v.name \notin conn'[e].seen /\ v.name \notin op'[e].listed
        BY <2>1, <3>1, <3>2 DEF Alone, NamesInv
      <3>4. QED
        BY <3>3
    <2>3. ASSUME v \in remote, Has(e, v) PROVE Has(e, v)'
      <3>1. ASSUME NEW r \in Rec PROVE db'[e][r].ts >= v.snap[r].ts
        <4>1. db'[e][r].ts \in Nat /\ db[e][r].ts \in Nat /\ db'[e][r].ts >= db[e][r].ts
          BY <2>1, NothingGoesBack
        <4>2. db[e][r].ts >= v.snap[r].ts /\ v.snap[r].ts \in Nat
          BY <2>3, RowIsRow DEF Has, TypeOK, Version
        <4>3. QED
          BY <4>1, <4>2
      <3>2. QED
        BY <3>1 DEF Has
    <2>4. CASE v \in remote /\ e # d
      <3>1. conn'[e] = conn[e] /\ op'[e] = op[e] /\ skipped'[e] = skipped[e]
        BY <2>1, <2>4 DEF Alone
      <3>2. QED
        BY <2>1, <2>3, <2>4, <3>1 DEF Pushing
    <2>5. CASE v \in remote /\ e = d
      <3>0. SUFFICES Fine(d, v)'
        BY <2>5
      <3>1. ASSUME Seen(d, v)' => Seen(d, v),
                   Past(d, v)' => Past(d, v) \/ Has(d, v)',
                   skipped[d] \subseteq skipped'[d]
            PROVE  Fine(d, v)'
        BY <2>1, <2>3, <2>5, <3>1
      <3>2. CASE Edit(d) \/ FileExport(d)
        BY <3>1, <3>2 DEF Edit, Create, Update, Delete, FileExport, history, Pushing
      <3>3. ASSUME op'[d].pc \in {"idle", "connect"}, conn' = conn, skipped' = skipped
            PROVE  Fine(d, v)'
        BY <3>1, <3>3 DEF Pushing
      <3>4. CASE Failure(d) \/ NoSuchVersion(d)
        <4>1. Finished(d) /\ conn' = conn /\ skipped' = skipped
          BY <3>4 DEF Failure, PruneThenFail, Abort, NoSuchVersion, history
        <4>2. op'[d].pc = "idle"
          BY <1>0, <4>1 DEF Finished, NoOp
        <4>3. QED
          BY <3>3, <4>1, <4>2
      <3>5. CASE \E k \in Key : ConnectList(d, k)
        <4>1. PICK k \in Key : ConnectList(d, k)
          BY <3>5
        <4>2. op'[d].pc = "connect" /\ conn' = conn /\ skipped' = skipped
          BY <1>0, <4>1 DEF ConnectList, NoOp, history
        <4>3. QED
          BY <3>3, <4>2
      <3>6. CASE ConnectSave(d)
        <4>1. op'[d].pc = "idle" /\ conn'[d].seen = op[d].listed /\ op[d].pc = "connect"
          BY <1>0, <3>6 DEF ConnectSave, Finished, NoOp, Connected
        <4>2. CASE op[d].todo = {}
          <5>1. op[d].listed = {}
            BY <2>1, <4>1, <4>2 DEF LockedInv
          <5>2. QED
            BY <4>1, <5>1 DEF Pushing
        <4>3. CASE op[d].todo # {}
          <5>1. PICK w \in remote : MergeInto(d, w.snap) /\ skipped' = [skipped EXCEPT ![d] = op[d].listed \ {w.name}]
            BY <3>6, <4>3 DEF ConnectSave
          <5>2. ASSUME Seen(d, v)' PROVE Has(d, v)'
            <6>1. v.name = w.name
              BY <1>0, <4>1, <5>1, <5>2
            <6>2. v = w
              BY <2>5, <6>1 DEF NamesInv
            <6>3. QED
              BY <5>1, <6>2, MergeBrings DEF Has
          <5>3. QED
            BY <4>1, <5>2 DEF Pushing
        <4>4. QED
          BY <4>2, <4>3
      <3>7. CASE SyncList(d)
        <4>1. /\ op'[d].listed = Names(remote) /\ op'[d].todo = ToPull(d)
              /\ op'[d].key = conn[d].key /\ conn' = conn
              /\ skipped'[d] = IF conn[d].initialized THEN skipped[d]
                 ELSE skipped[d] \cup (Names(remote) \ {Latest(Names(remote))})
          BY <1>0, <3>7 DEF SyncList, NoOp
        <4>2. Seen(d, v)' => Seen(d, v)
          BY <4>1
        <4>3. ASSUME Past(d, v)' PROVE Has(d, v)' \/ v.name \in skipped'[d]
          <5>1. v.name \in Names(remote) \ ToPull(d) /\ v.key = conn[d].key
            BY <4>1, <4>3
          <5>2. Merges(d)
            BY <2>1 DEF LockedInv, Merges
          <5>3. v.name # Latest(Names(remote)) /\ (conn[d].initialized => v.name \in conn[d].seen)
            BY <5>1, <5>2 DEF ToPull
          <5>4. CASE ~conn[d].initialized
            BY <4>1, <5>1, <5>3, <5>4
          <5>5. CASE conn[d].initialized
            BY <2>1, <2>3, <2>5, <4>1, <5>1, <5>3, <5>5
          <5>6. QED
            BY <5>4, <5>5
        <4>4. QED
          BY <2>1, <2>3, <2>5, <4>2, <4>3
      <3>8. CASE Pull(d) \/ PassOver(d)
        <4>1. PICK w, h :
                /\ w \in remote
                /\ op[d].pc = "pull" /\ Pulled(d, w, h)
                /\ w.key # op[d].key \/ MergeInto(d, w.snap)
          <5>1. Merges(d)
            BY <2>1 DEF LockedInv, Merges
          <5>2. CASE Pull(d)
            BY <5>1, <5>2 DEF Pull
          <5>3. CASE PassOver(d)
            BY <5>3 DEF PassOver
          <5>4. QED
            BY <3>8, <5>2, <5>3
        <4>2. op'[d].listed = op[d].listed /\ op'[d].todo = op[d].todo \ {w.name}
              /\ op'[d].key = op[d].key
          BY <1>0, <4>1 DEF Pulled, OpRecord
        <4>3. conn' = conn /\ skipped' = skipped
          BY <3>8 DEF Pull, PassOver, history
        <4>4. ASSUME Past(d, v)' PROVE Past(d, v) \/ Has(d, v)'
          <5>1. CASE v.name = w.name
            <6>1. v = w /\ w.key = op[d].key
              BY <2>5, <4>1, <4>2, <4>4, <5>1 DEF NamesInv
            <6>2. QED
              BY <4>1, <6>1, MergeBrings DEF Has
          <5>2. CASE v.name # w.name
            BY <4>1, <4>2, <4>4, <5>2 DEF Pushing
          <5>3. QED
            BY <5>1, <5>2
        <4>5. QED
          BY <3>1, <4>3, <4>4
      <3>9. CASE ExportUnchanged(d) \/ PruneAll(d)
        <4>1. /\ Finished(d) /\ MarkSeen(d) /\ skipped' = skipped
              /\ op[d].pc \in {"export", "prune"}
          BY <3>9 DEF ExportUnchanged, PruneAll, Succeed
        <4>2. /\ op'[d].pc = "idle" /\ conn'[d].seen = op[d].listed
              /\ conn'[d].key = conn[d].key
          BY <1>0, <4>1 DEF Finished, NoOp, MarkSeen, Connection
        <4>3. Pushing(d) /\ op[d].key = conn[d].key /\ op[d].todo = {}
          BY <2>1, <4>1 DEF LockedInv, Pushing
        <4>4. Seen(d, v)' => Past(d, v) /\ v.name \notin skipped[d]
          BY <4>1, <4>2, <4>3
        <4>5. QED
          BY <2>1, <2>3, <2>5, <4>2, <4>4 DEF Pushing
      <3>10. CASE Export(d) \/ Put(d)
        <4>1. /\ op[d].pc \in {"export", "put"} /\ op'[d].listed = op[d].listed
              /\ op'[d].key = op[d].key /\ op'[d].todo = op[d].todo
          <5>1. CASE Export(d)
            BY <1>0, <5>1 DEF Export, OpRecord
          <5>2. CASE Put(d)
            BY <1>0, <5>2 DEF Put, OpRecord
          <5>3. QED
            BY <3>10, <5>1, <5>2
        <4>2. conn' = conn /\ skipped' = skipped
          BY <3>10 DEF Export, Put, history
        <4>3. QED
          BY <3>1, <4>1, <4>2 DEF Pushing
      <3>11. QED
        BY <2>1, <2>5, <3>2, <3>4, <3>5, <3>6, <3>7, <3>8, <3>9, <3>10 DEF QuietStep, Sync
    <2>6. QED
      BY <2>2, <2>4, <2>5
  <1>3. ASSUME NEW d \in Device, DeviceStep(d) PROVE AbsorbInv'
    <2>1. \A e \in Device, v \in remote' : Fine(e, v)'
      BY <1>2, <1>3
    <2>2. QED
      BY <2>1 DEF AbsorbInv, SeenIsAbsorbed, PulledInv, Has
  <1>4. QED
    BY <1>1, <1>3 DEF Next, DeviceStep

(* A version a device has taken for seen, and so never pulls again, has    *)
(* nothing to offer it any more, whatever the other devices push and the   *)
(* user edits between the calls of a push; but for the versions it passed  *)
(* over when it had no list.                                               *)
THEOREM SeenVersionsAreAbsorbed == Spec => []SeenIsAbsorbed
  <1>1. AbsorbInv => SeenIsAbsorbed
    BY DEF AbsorbInv
  <1>2. QED
    BY <1>1, InitType, NextType, LockInit, LockNext, BoundedInit, BoundedNext, NamesInit,
       NamesNext, LockedInit, LockedNext, AbsorbInit, AbsorbNext, PTL DEF Spec

-----------------------------------------------------------------------------
(* What was backed up stays stored.                                        *)

(* Every version is under the passphrase of a connected device.            *)
KeysInv ==
  resets = 0 => \A v \in remote : \E d \in Device : conn[d].on /\ conn[d].key = v.key

LEMMA KeysInit == Init => KeysInv
  BY DEF Init, KeysInv

(* Without resets a connection stays and keeps its passphrase.             *)
LEMMA ConnectionStays ==
  ASSUME TypeOK, LockInv, NEW d \in Device, QuietStep(d), NEW e \in Device, conn[e].on
  PROVE  conn'[e].on /\ conn'[e].key = conn[e].key
  <1>0. conn \in [Device -> Connection] /\ conn[e] \in Connection
    BY DEF TypeOK
  <1>1. CASE ExportUnchanged(d) \/ PruneAll(d)
    <2>1. MarkSeen(d)
      BY <1>1 DEF ExportUnchanged, PruneAll, Succeed
    <2>2. QED
      BY <1>0, <2>1 DEF MarkSeen, Connection
  <1>2. CASE ConnectSave(d)
    <2>1. e # d
      BY <1>2 DEF ConnectSave, LockInv
    <2>2. QED
      BY <1>0, <1>2, <2>1 DEF ConnectSave, Connected
  <1>3. CASE ~ConnectSave(d) /\ ~ExportUnchanged(d) /\ ~PruneAll(d)
    <2>1. conn' = conn
      BY <1>3 DEF QuietStep, Edit, Create, Update, Delete, Sync, SyncList, Pull, PassOver,
        Export, Put, NoSuchVersion, Failure, PruneThenFail, Abort, ConnectList, FileExport
    <2>2. QED
      BY <2>1
  <1>4. QED
    BY <1>1, <1>2, <1>3

LEMMA KeysNext ==
  TypeOK /\ LockInv /\ NamesInv /\ LockedInv /\ KeysInv /\ [Next]_vars => KeysInv'
  <1> SUFFICES ASSUME TypeOK, LockInv, NamesInv, LockedInv, KeysInv, [Next]_vars, resets' = 0,
                      NEW v \in remote'
               PROVE  \E e \in Device : conn'[e].on /\ conn'[e].key = v.key
    BY DEF KeysInv
  <1>1. CASE UNCHANGED vars
    BY <1>1 DEF vars, KeysInv
  <1>2. ASSUME NEW d \in Device, DeviceStep(d)
        PROVE  \E e \in Device : conn'[e].on /\ conn'[e].key = v.key
    <2>1. resets = 0 /\ QuietStep(d)
      BY <1>2, QuietSteps
    <2>2. CASE v \in remote
      BY <2>1, <2>2, ConnectionStays DEF KeysInv
    <2>3. CASE v \notin remote
      <3>1. Put(d) /\ v.key = op[d].key
        BY <1>2, <2>3, NewVersion
      <3>2. conn[d].on /\ conn[d].key = op[d].key
        BY <2>1, <3>1 DEF Put, LockInv, LockedInv, Pushing
      <3>3. QED
        BY <2>1, <3>1, <3>2, ConnectionStays
    <2>4. QED
      BY <2>2, <2>3
  <1>3. QED
    BY <1>1, <1>2 DEF Next, DeviceStep

(* What is undisturbed has always been.                                    *)
LEMMA UndisturbedBefore ==
  ASSUME TypeOK, LockInv, LockedInv, NEW d \in Device, DeviceStep(d), Undisturbed'
  PROVE  Undisturbed /\ QuietStep(d)
  <1>1. resets = 0 /\ QuietStep(d) /\ Alone(d)
    BY QuietSteps, StepAlone DEF Undisturbed
  <1>2. SamePassphrase
    BY <1>1, ConnectionStays DEF Undisturbed, SamePassphrase
  <1>3. ~overtaken
    <2>1. CASE Put(d)
      BY <2>1 DEF Put, Undisturbed
    <2>2. CASE ~Put(d)
      <3>1. overtaken' = overtaken
        BY <1>1, <2>2 DEF QuietStep, Edit, Create, Update, Delete, Sync, SyncList, Pull, PassOver,
          ExportUnchanged, Export, PruneAll, NoSuchVersion, Failure, PruneThenFail, Abort,
          ConnectList, ConnectSave, FileExport, history
      <3>2. QED
        BY <3>1 DEF Undisturbed
    <2>3. QED
      BY <2>1, <2>2
  <1>4. ASSUME NEW e \in Device PROVE skipped[e] = {}
    <2>0. skipped'[e] = {} /\ skipped \in [Device -> SUBSET Name]
      BY DEF Undisturbed, TypeOK
    <2>1. CASE SyncList(d)
      BY <2>0, <2>1 DEF SyncList
    <2>2. CASE ConnectSave(d)
      <3>1. skipped[d] = {}
        BY <1>1, <2>2 DEF ConnectSave, LockInv, LockedInv
      <3>2. QED
        BY <1>1, <2>0, <3>1 DEF Alone
    <2>3. CASE ~SyncList(d) /\ ~ConnectSave(d)
      <3>1. skipped' = skipped
        BY <1>1, <2>3 DEF QuietStep, Edit, Create, Update, Delete, Sync, Pull, PassOver,
          ExportUnchanged, Export, Put, PruneAll, Succeed, NoSuchVersion, Failure, PruneThenFail,
          Abort, ConnectList, FileExport, history
      <3>2. QED
        BY <2>0, <3>1
    <2>4. QED
      BY <2>1, <2>2, <2>3
  <1>5. QED
    BY <1>1, <1>2, <1>3, <1>4 DEF Undisturbed

(* Stamps of r that were put into the store and may yet be, or already     *)
(* are, acknowledged.                                                      *)
Given(r, a) ==
  \/ a = acked[r]
  \/ \E v \in remote : a = v.snap[r].ts
  \/ \E d \in Device : \E s \in op[d].head : a = s[r].ts
  \/ \E d \in Device : op[d].pc = "prune" /\ \E s \in op[d].snap : a = s[r].ts

(* A version that holds less of row r than stamp a, and the pushes that    *)
(* may add one: what they have pulled and are about to pull, or have       *)
(* exported, does not hold it.                                             *)
Lacks(v, r, a) == v.snap[r].ts < a

Risky(e, r, a) ==
  \/ /\ op[e].pc \in {"pull", "export"}
     /\ db[e][r].ts < a
     /\ \A n \in op[e].todo : \E v \in remote : v.name = n /\ Lacks(v, r, a)
  \/ op[e].pc = "put" /\ \E s \in op[e].snap : s[r].ts < a

(* Fewer than Keep such versions can come to be newer than v, so the next  *)
(* version that pushes v out holds what v does.                            *)
LackingAfter(v, r, a) == {w \in NewerThan(v) : Lacks(w, r, a)}
RiskyFor(r, a) == {e \in Device : Risky(e, r, a)}

Holds(v, r, a) ==
  /\ ~Lacks(v, r, a)
  /\ Cardinality(LackingAfter(v, r, a)) + Cardinality(RiskyFor(r, a)) < Keep

StoredInv ==
  Undisturbed =>
    \A r \in Rec, a \in Nat \ {0} : Given(r, a) => \E v \in remote : Holds(v, r, a)

LEMMA StoredInit == Init => StoredInv
  <1> SUFFICES ASSUME Init, NEW r \in Rec, NEW a \in Nat \ {0} PROVE ~Given(r, a)
    BY DEF StoredInv
  <1>1. acked[r] = 0 /\ remote = {} /\ \A d \in Device : op[d] = NoOp(SomeKey)
    BY DEF Init
  <1>2. QED
    BY <1>1 DEF Given, NoOp

LEMMA SetsFinite ==
  ASSUME NamesInv, NEW v, NEW r, NEW a
  PROVE  IsFiniteSet(LackingAfter(v, r, a)) /\ IsFiniteSet(RiskyFor(r, a))
         /\ IsFiniteSet(NewerThan(v))
         /\ Cardinality(LackingAfter(v, r, a)) \in Nat /\ Cardinality(RiskyFor(r, a)) \in Nat
         /\ Cardinality(NewerThan(v)) \in Nat
  <1>1. LackingAfter(v, r, a) \in SUBSET remote /\ RiskyFor(r, a) \in SUBSET Device
        /\ NewerThan(v) \in SUBSET remote
    BY DEF LackingAfter, RiskyFor, NewerThan
  <1>2. IsFiniteSet(remote) /\ IsFiniteSet(Device)
    BY SyncAssumption DEF NamesInv
  <1>3. QED
    BY <1>1, <1>2, FS_Subset, FS_CardinalityType

(* The newest version that holds the stamp is not pruned.                  *)
LEMMA NewestHolder ==
  ASSUME TypeOK, NamesInv, NEW r \in Rec, NEW a \in Nat, \E v \in remote : Holds(v, r, a)
  PROVE  \E g \in remote : Holds(g, r, a) /\ Cardinality(NewerThan(g)) < Keep
  <1>1. PICK v \in remote : Holds(v, r, a)
    OBVIOUS
  <1> DEFINE Good == {w \in remote : ~Lacks(w, r, a) /\ w.name >= v.name}
             N == {w.name : w \in Good}
  <1>2. \A w \in remote : w.name \in Nat /\ w.name <= named
    BY DEF TypeOK, Version, Name, NamesInv, Names, Settled
  <1>3. N \in SUBSET Nat /\ N # {} /\ named \in Nat /\ \A n \in N : n <= named
    <2>1. v \in Good
      BY <1>1, <1>2 DEF Holds
    <2>2. QED
      BY <1>2, <2>1 DEF TypeOK
  <1>4. PICK m \in N : \A n \in N : n <= m
    <2> HIDE DEF N
    <2>1. QED
      BY <1>3, BoundedMax
  <1>5. PICK g \in Good : m = g.name
    OBVIOUS
  <1>6. ASSUME NEW w \in NewerThan(g) PROVE Lacks(w, r, a) /\ w \in NewerThan(v)
    <2>1. w \in remote /\ w.name > g.name /\ g.name >= v.name
      BY <1>5 DEF NewerThan
    <2>2. w.name > v.name
      BY <1>1, <1>2, <1>5, <2>1
    <2>3. CASE ~Lacks(w, r, a)
      <3>1. w.name \in N
        BY <1>2, <1>1, <2>1, <2>2, <2>3
      <3>2. QED
        BY <1>2, <1>4, <1>5, <2>1, <3>1
    <2>4. QED
      BY <2>1, <2>2, <2>3 DEF NewerThan
  <1>7. NewerThan(g) = LackingAfter(g, r, a) /\ NewerThan(g) \in SUBSET LackingAfter(v, r, a)
    BY <1>6 DEF LackingAfter
  <1>8. Cardinality(NewerThan(g)) <= Cardinality(LackingAfter(v, r, a))
    BY <1>7, SetsFinite, FS_Subset
  <1>9. QED
    BY <1>1, <1>5, <1>7, <1>8, SetsFinite, SyncAssumption DEF Holds

(* No stamp is given but by an upload.                                     *)
LEMMA GivenNext ==
  ASSUME TypeOK, NEW d \in Device, DeviceStep(d), QuietStep(d), NEW r \in Rec,
         NEW a, Given(r, a)'
  PROVE  Given(r, a) \/ (Put(d) /\ \E s \in op[d].snap : a = s[r].ts)
  <1>0. op \in [Device -> OpRecord] /\ acked \in [Rec -> Nat] /\ Alone(d)
    BY StepAlone DEF TypeOK
  <1>1. CASE a = acked'[r]
    <2>1. CASE ExportUnchanged(d)
      <3>1. db[d] \in op[d].head /\ acked' = LaterStamps(db[d])
        BY <2>1 DEF ExportUnchanged, Unchanged, Succeed
      <3>2. QED
        BY <1>0, <1>1, <3>1 DEF LaterStamps, Given
    <2>2. CASE PruneAll(d)
      <3>1. PICK s \in op[d].snap : acked' = LaterStamps(s) /\ op[d].pc = "prune"
        BY <2>2 DEF PruneAll, Succeed
      <3>2. QED
        BY <1>0, <1>1, <3>1 DEF LaterStamps, Given
    <2>3. CASE ~ExportUnchanged(d) /\ ~PruneAll(d)
      <3>1. acked' = acked
        BY <2>3 DEF QuietStep, Edit, Create, Update, Delete, Sync, SyncList, Pull, PassOver,
          Export, Put, NoSuchVersion, Failure, PruneThenFail, Abort, ConnectList, ConnectSave,
          FileExport, history
      <3>2. QED
        BY <1>1, <3>1 DEF Given
    <2>4. QED
      BY <2>1, <2>2, <2>3
  <1>2. ASSUME NEW v \in remote', a = v.snap[r].ts
        PROVE  Given(r, a) \/ (Put(d) /\ \E s \in op[d].snap : a = s[r].ts)
    <2>1. CASE v \in remote
      BY <1>2, <2>1 DEF Given
    <2>2. CASE v \notin remote
      <3>1. Put(d)
        BY <2>2, OnlyPutAdds
      <3>2. v.snap \in op[d].snap
        BY <2>2, <3>1 DEF Put
      <3>3. QED
        BY <1>2, <3>1, <3>2
    <2>3. QED
      BY <2>1, <2>2
  <1>3. ASSUME NEW e \in Device, NEW s, a = s[r].ts,
               s \in op'[e].head \/ (op'[e].pc = "prune" /\ s \in op'[e].snap)
        PROVE  Given(r, a) \/ (Put(d) /\ \E t \in op[d].snap : a = t[r].ts)
    <2>1. CASE op'[e] = op[e]
      BY <1>3, <2>1 DEF Given
    <2>2. CASE e = d /\ (SyncList(d) \/ \E k \in Key : ConnectList(d, k))
      <3>1. op'[d].head = {} /\ op'[d].snap = {}
        <4>1. CASE SyncList(d)
          BY <1>0, <4>1 DEF SyncList, NoOp
        <4>2. ASSUME NEW k \in Key, ConnectList(d, k) PROVE op'[d].head = {} /\ op'[d].snap = {}
          BY <1>0, <4>2 DEF ConnectList, NoOp
        <4>3. QED
          BY <2>2, <4>1, <4>2
      <3>2. QED
        BY <1>3, <2>2, <3>1
    <2>3. CASE e = d /\ (ExportUnchanged(d) \/ PruneAll(d) \/ NoSuchVersion(d) \/ Failure(d)
                         \/ ConnectSave(d))
      <3>1. op'[d].head = {} /\ op'[d].snap = {}
        <4>1. Finished(d)
          BY <2>3 DEF ExportUnchanged, PruneAll, Succeed, NoSuchVersion, Failure, PruneThenFail,
            Abort, ConnectSave
        <4>2. QED
          BY <1>0, <4>1 DEF Finished, NoOp
      <3>2. QED
        BY <1>3, <2>3, <3>1
    <2>4. CASE e = d /\ Export(d)
      <3>1. op'[d].head = op[d].head /\ op'[d].pc = "put"
        BY <1>0, <2>4 DEF Export, OpRecord
      <3>2. QED
        BY <1>3, <2>4, <3>1 DEF Given
    <2>5. CASE e = d /\ Put(d)
      <3>1. op'[d].head = op[d].head /\ op'[d].snap = op[d].snap
        BY <1>0, <2>5 DEF Put, OpRecord
      <3>2. QED
        BY <1>3, <2>5, <3>1 DEF Given
    <2>6. CASE e = d /\ (Pull(d) \/ PassOver(d))
      <3>1. PICK v, h :
              v \in remote /\ Pulled(d, v, h) /\ (h = {v.snap} \/ h = op[d].head)
        BY <2>6 DEF Pull, PassOver
      <3>2. op'[d].pc # "prune" /\ op'[d].head = h
        BY <1>0, <3>1 DEF Pulled, OpRecord, AfterPull
      <3>3. QED
        BY <1>3, <2>6, <3>1, <3>2 DEF Given
    <2>7. CASE e = d /\ (Edit(d) \/ FileExport(d))
      <3>1. op' = op
        BY <2>7 DEF Edit, Create, Update, Delete, FileExport
      <3>2. QED
        BY <2>1, <3>1
    <2>8. QED
      BY <1>0, <2>1, <2>2, <2>3, <2>4, <2>5, <2>6, <2>7 DEF QuietStep, Sync, Alone
  <1>4. QED
    BY <1>1, <1>2, <1>3 DEF Given

(* A version not pruned and not cleared stays.                             *)
LEMMA KeptIfNewest ==
  ASSUME NamesInv, NEW d \in Device, QuietStep(d), NEW g \in remote, Cardinality(NewerThan(g)) < Keep
  PROVE  g \in remote'
  <1>1. g \notin Stale
    <2>1. Cardinality(NewerThan(g)) \in Nat
      BY SetsFinite
    <2>2. QED
      BY <2>1, SyncAssumption DEF Stale
  <1>2. CASE PruneAll(d)
    BY <1>1, <1>2 DEF PruneAll
  <1>3. CASE PruneThenFail(d)
    BY <1>1, <1>3 DEF PruneThenFail
  <1>4. CASE Put(d)
    BY <1>4 DEF Put
  <1>5. CASE ~PruneAll(d) /\ ~PruneThenFail(d) /\ ~Put(d)
    BY <1>5 DEF QuietStep, Edit, Create, Update, Delete, Sync, SyncList, Pull, PassOver,
      ExportUnchanged, Export, NoSuchVersion, Failure, Abort, ConnectList, ConnectSave,
      FileExport, store
  <1>6. QED
    BY <1>2, <1>3, <1>4, <1>5

(* No push that lists, pulls and exports while g is stored can do without  *)
(* what g holds.                                                           *)
LEMMA NoNewRisk ==
  ASSUME TypeOK, TypeOK', LockInv, LockInv', StampsBounded, NamesInv, LockedInv, LockedInv',
         AbsorbInv', KeysInv',
         Undisturbed', NEW d \in Device, DeviceStep(d),
         NEW r \in Rec, NEW a \in Nat, NEW g \in remote, g \in remote', ~Lacks(g, r, a),
         NEW e \in Device, Risky(e, r, a)'
  PROVE  Risky(e, r, a) /\ ~(Put(d) /\ e = d)
  <1>0. /\ op \in [Device -> OpRecord] /\ Undisturbed /\ QuietStep(d) /\ Alone(d)
        /\ resets = 0 /\ resets' = 0
    BY UndisturbedBefore, StepAlone DEF TypeOK, Undisturbed
  <1>1. /\ db[e][r].ts \in Nat /\ db'[e][r].ts \in Nat /\ db'[e][r].ts >= db[e][r].ts
    BY <1>0, NothingGoesBack
  <1>2. ASSUME NEW v \in remote' PROVE v.snap[r].ts \in Nat
    BY RowIsRow DEF TypeOK, Version
  <1>3. ASSUME NEW n \in op[e].todo, NEW v \in remote', v.name = n
        PROVE  v \in remote
    <2>1. n \in Settled
      BY DEF NamesInv
    <2>2. QED
      BY <1>3, <2>1, NewVersion
  <1>4. ASSUME op'[e] = op[e] PROVE Risky(e, r, a)
    <2>1. CASE op[e].pc \in {"pull", "export"}
      <3>1. /\ op'[e].pc \in {"pull", "export"} /\ op'[e].pc # "put" /\ db'[e][r].ts < a
            /\ \A n \in op[e].todo : \E v \in remote' : v.name = n /\ Lacks(v, r, a)
        BY <1>4, <2>1 DEF Risky, Lacks
      <3>2. QED
        BY <1>1, <1>3, <2>1, <3>1 DEF Risky
    <2>2. CASE op[e].pc \notin {"pull", "export"}
      BY <1>4, <2>2 DEF Risky
    <2>3. QED
      BY <2>1, <2>2
  <1>5. CASE e # d
    BY <1>0, <1>4, <1>5 DEF Alone
  <1>6. CASE e = d
    <2>1. op'[d].pc \in {"pull", "export", "put"}
      BY <1>6 DEF Risky
    <2>2. CASE Edit(d) \/ FileExport(d)
      <3>1. op' = op /\ ~Put(d)
        <4>1. op' = op
          BY <2>2 DEF Edit, Create, Update, Delete, FileExport
        <4>2. ~Put(d)
          BY <1>0, <2>1, <4>1 DEF Put, OpRecord
        <4>3. QED
          BY <4>1, <4>2
      <3>2. QED
        BY <1>4, <3>1
    <2>3. CASE \/ Failure(d) \/ NoSuchVersion(d) \/ ExportUnchanged(d) \/ PruneAll(d)
               \/ ConnectSave(d) \/ \E k \in Key : ConnectList(d, k)
      <3>1. op'[d].pc \in {"idle", "connect"}
        <4>1. CASE Finished(d)
          BY <1>0, <4>1 DEF Finished, NoOp
        <4>2. ASSUME NEW k \in Key, ConnectList(d, k) PROVE op'[d].pc = "connect"
          BY <1>0, <4>2 DEF ConnectList, NoOp
        <4>3. QED
          BY <2>3, <4>1, <4>2 DEF Failure, PruneThenFail, Abort, NoSuchVersion, ExportUnchanged,
            PruneAll, Succeed, ConnectSave
      <3>2. QED
        BY <2>1, <3>1
    <2>4. CASE Put(d)
      BY <1>0, <2>1, <2>4 DEF Put, OpRecord
    <2>5. CASE Export(d)
      <3>1. op'[d].pc = "put" /\ op'[d].snap = {db[d]} /\ op[d].pc = "export" /\ ~Put(d)
        BY <1>0, <2>5 DEF Export, OpRecord, Put
      <3>2. op[d].todo = {}
        BY <1>0, <3>1 DEF LockedInv, Pushing
      <3>3. db[d][r].ts < a
        BY <1>6, <3>1 DEF Risky
      <3>4. QED
        BY <1>6, <3>1, <3>2, <3>3 DEF Risky
    <2>6. CASE SyncList(d)
      <3>1. /\ op'[d].listed = Names(remote) /\ op'[d].todo = ToPull(d) /\ remote' = remote
            /\ op'[d].pc \in {"pull", "export"} /\ op'[d].key = conn[d].key /\ conn' = conn
            /\ conn[d].on
        BY <1>0, <2>6 DEF SyncList, NoOp, store, AfterPull
      <3>2. db'[d][r].ts < a /\ \A n \in op'[d].todo : \E v \in remote' : v.name = n /\ Lacks(v, r, a)
        BY <1>6, <3>1 DEF Risky, Lacks
      <3>3. g.name \notin op'[d].todo
        <4>1. ASSUME NEW v \in remote', v.name = g.name PROVE ~Lacks(v, r, a)
          <5>1. v = g
            BY <3>1, <4>1 DEF NamesInv
          <5>2. QED
            BY <5>1
        <4>2. QED
          BY <3>2, <4>1
      <3>4. g.key = op'[d].key
        <4>1. PICK f \in Device : conn'[f].on /\ conn'[f].key = g.key
          BY <1>0 DEF KeysInv
        <4>2. conn'[d].on /\ conn'[f].key = conn'[d].key
          BY <3>1, <4>1 DEF Undisturbed, SamePassphrase
        <4>3. QED
          BY <3>1, <4>1, <4>2
      <3>5. Has(d, g)'
        <4>1. g.name \in op'[d].listed \ op'[d].todo
          BY <3>1, <3>3 DEF Names
        <4>2. Pushing(d)' /\ skipped'[d] = {}
          BY <3>1 DEF Pushing, Undisturbed
        <4>3. QED
          BY <1>0, <3>4, <4>1, <4>2 DEF AbsorbInv, PulledInv
      <3>6. db'[d][r].ts >= g.snap[r].ts
        BY <3>5 DEF Has
      <3>7. QED
        BY <1>1, <1>2, <1>6, <3>2, <3>6 DEF Lacks
    <2>7. CASE Pull(d) \/ PassOver(d)
      <3>1. PICK w, h :
              /\ w \in remote
              /\ op[d].pc = "pull" /\ Pulled(d, w, h)
              /\ w.key # op[d].key \/ MergeInto(d, w.snap)
        <4>1. Merges(d)
          BY <1>0 DEF LockedInv, Merges
        <4>2. CASE Pull(d)
          BY <4>1, <4>2 DEF Pull
        <4>3. CASE PassOver(d)
          BY <4>3 DEF PassOver
        <4>4. QED
          BY <2>7, <4>2, <4>3
      <3>2. /\ op'[d].todo = op[d].todo \ {w.name} /\ op'[d].pc \in {"pull", "export"}
            /\ op'[d].key = op[d].key
        BY <1>0, <3>1 DEF Pulled, OpRecord, AfterPull
      <3>3. remote' = remote /\ conn' = conn /\ ~Put(d)
        BY <2>7, <3>1 DEF Pull, PassOver, store, Put
      <3>4. db'[d][r].ts < a /\ \A n \in op'[d].todo : \E v \in remote : v.name = n /\ Lacks(v, r, a)
        BY <1>6, <3>2, <3>3 DEF Risky, Lacks
      <3>5. w.key = op[d].key
        <4>1. conn[d].on /\ op'[d].key = conn'[d].key
          BY <1>0, <3>1, <3>2 DEF LockInv, LockedInv, Pushing
        <4>2. PICK f \in Device : conn'[f].on /\ conn'[f].key = w.key
          BY <1>0, <3>1, <3>3 DEF KeysInv
        <4>3. conn'[f].key = conn'[d].key
          BY <3>3, <4>1, <4>2 DEF Undisturbed, SamePassphrase
        <4>4. QED
          BY <3>2, <4>1, <4>2, <4>3
      <3>6. Lacks(w, r, a)
        <4>1. db'[d][r].ts >= w.snap[r].ts
          BY <3>1, <3>5, MergeBrings
        <4>2. QED
          BY <1>1, <1>2, <1>6, <3>1, <3>3, <3>4, <4>1 DEF Lacks
      <3>7. \A n \in op[d].todo : \E v \in remote : v.name = n /\ Lacks(v, r, a)
        BY <3>1, <3>2, <3>4, <3>6
      <3>8. db[d][r].ts < a
        BY <1>1, <1>6, <3>4
      <3>9. QED
        BY <1>6, <3>1, <3>3, <3>7, <3>8 DEF Risky
    <2>8. QED
      BY <1>0, <2>2, <2>3, <2>4, <2>5, <2>6, <2>7 DEF QuietStep, Sync
  <1>7. QED
    <2>1. CASE e # d
      BY <1>5, <2>1
    <2>2. CASE e = d
      BY <1>6, <2>2
    <2>3. QED
      BY <2>1, <2>2

(* An operation holds at most one exported snapshot.                       *)
OneSnapshot == \A d \in Device : \A s, t \in op[d].snap : s = t

LEMMA OneInit == Init => OneSnapshot
  BY DEF Init, OneSnapshot, NoOp

LEMMA OneNext == TypeOK /\ OneSnapshot /\ [Next]_vars => OneSnapshot'
  <1> SUFFICES ASSUME TypeOK, OneSnapshot, [Next]_vars PROVE OneSnapshot'
    OBVIOUS
  <1>0. op \in [Device -> OpRecord]
    BY DEF TypeOK
  <1>1. CASE UNCHANGED vars
    BY <1>1 DEF vars, OneSnapshot
  <1>2. ASSUME NEW d \in Device, DeviceStep(d) PROVE OneSnapshot'
    <2>1. SUFFICES op'[d].snap \subseteq op[d].snap \/ \E s : op'[d].snap = {s}
      BY <1>2, <2>1, StepAlone DEF Alone, OneSnapshot
    <2>2. CASE Finished(d)
      BY <1>0, <2>2 DEF Finished, NoOp
    <2>3. CASE UNCHANGED op
      BY <2>3
    <2>4. CASE SyncList(d)
      BY <1>0, <2>4 DEF SyncList, NoOp
    <2>5. CASE Pull(d) \/ PassOver(d)
      <3>1. PICK v, h : Pulled(d, v, h)
        BY <2>5 DEF Pull, PassOver
      <3>2. QED
        BY <1>0, <3>1 DEF Pulled, OpRecord
    <2>6. CASE Export(d)
      BY <1>0, <2>6 DEF Export, OpRecord
    <2>7. CASE Put(d)
      BY <1>0, <2>7 DEF Put, OpRecord
    <2>8. ASSUME NEW n \in Names(remote), RestoreList(d, n) PROVE op'[d].snap = {}
      BY <1>0, <2>8 DEF RestoreList, NoOp
    <2>9. ASSUME NEW k \in Key, ConnectList(d, k) PROVE op'[d].snap = {}
      BY <1>0, <2>9 DEF ConnectList, NoOp
    <2>10. ASSUME NEW k \in Key, ForceConnectList(d, k) PROVE op'[d].snap = {}
      BY <1>0, <2>10 DEF ForceConnectList, NoOp
    <2>11. CASE Edit(d) \/ Disconnect(d) \/ FileExport(d) \/ FileImport(d)
      BY <2>3, <2>11 DEF Edit, Create, Update, Delete, Disconnect, FileExport, FileImport
    <2>12. CASE \/ ExportUnchanged(d) \/ PruneAll(d) \/ NoSuchVersion(d) \/ RestoreApply(d)
                \/ ConnectClear(d) \/ ConnectSave(d) \/ Failure(d)
      BY <2>2, <2>12 DEF ExportUnchanged, PruneAll, Succeed, NoSuchVersion, RestoreApply,
        ConnectClear, ConnectSave, Failure, PruneThenFail, Abort
    <2>13. QED
      BY <1>2, <2>4, <2>5, <2>6, <2>7, <2>8, <2>9, <2>10, <2>11, <2>12
      DEF DeviceStep, Sync, Command, RestoreVersion, Connect
  <1>3. QED
    BY <1>1, <1>2 DEF Next, DeviceStep

(* An upload in time is held by its own version.                           *)
LEMMA NewVersionHolds ==
  ASSUME TypeOK, NamesInv, NamesInv', OneSnapshot, NEW d \in Device, Put(d), ~overtaken',
         NEW s \in op[d].snap, NEW r \in Rec, NEW a \in Nat, a = s[r].ts
  PROVE  \E v \in remote' : Holds(v, r, a)'
  <1>0. op \in [Device -> OpRecord]
    BY DEF TypeOK
  <1>1. PICK new : /\ new = [name |-> op[d].name, snap |-> s, key |-> op[d].key]
                   /\ remote' = remote \cup {new} /\ ~TooLate(new)
    BY DEF Put, OneSnapshot
  <1>2. new.name = op[d].name /\ new.name \in Nat /\ new.snap = s
    BY <1>0, <1>1 DEF OpRecord
  <1>3. op'[d].pc = "prune"
    BY <1>0 DEF Put
  <1> DEFINE Newer == NewerThan(new)
             Lacking == LackingAfter(new, r, a)'
             Risk == RiskyFor(r, a)'
  <1>4. Lacking \in SUBSET Newer
    BY <1>1, <1>2 DEF LackingAfter, NewerThan
  <1>5. Risk \in SUBSET (Device \ {d})
    BY <1>3 DEF RiskyFor, Risky
  <1>6. /\ IsFiniteSet(Newer) /\ IsFiniteSet(Device \ {d})
        /\ Cardinality(Device \ {d}) = Cardinality(Device) - 1
        /\ Cardinality(Newer) \in Nat /\ Cardinality(Device) \in Nat
    BY SyncAssumption, SetsFinite, FS_RemoveElement, FS_CardinalityType
  <1>7. /\ Cardinality(Lacking) <= Cardinality(Newer)
        /\ Cardinality(Risk) <= Cardinality(Device) - 1
        /\ Cardinality(Lacking) \in Nat /\ Cardinality(Risk) \in Nat
    BY <1>4, <1>5, <1>6, FS_Subset, FS_CardinalityType
  <1>8. Cardinality(Newer) + Cardinality(Device) <= Keep
    BY <1>1, <1>6, SyncAssumption DEF TooLate
  <1>9. Cardinality(Lacking) + Cardinality(Risk) < Keep
    <2> HIDE DEF Lacking, Risk, Newer
    <2>1. QED
      BY <1>6, <1>7, <1>8, SyncAssumption
  <1>10. ~Lacks(new, r, a)
    BY <1>2 DEF Lacks
  <1>11. Holds(new, r, a)'
    BY <1>9, <1>10 DEF Holds, Lacks
  <1>12. QED
    BY <1>1, <1>11

(* A version that holds a stamp goes on to hold it: what is added to the    *)
(* versions that lack it was a risk before.                                 *)
LEMMA OldVersionHolds ==
  ASSUME TypeOK, TypeOK', LockInv, LockInv', StampsBounded, NamesInv, NamesInv', LockedInv,
         LockedInv', AbsorbInv', KeysInv', OneSnapshot, Undisturbed',
         NEW d \in Device, DeviceStep(d), NEW r \in Rec, NEW a \in Nat,
         NEW g \in remote, g \in remote', Holds(g, r, a)
  PROVE  Holds(g, r, a)'
  <1> DEFINE Lacking == LackingAfter(g, r, a)
             Risk == RiskyFor(r, a)
  <1>1. ~Lacks(g, r, a) /\ Cardinality(Lacking) + Cardinality(Risk) < Keep
    BY DEF Holds
  <1>2. Risk' \subseteq Risk /\ (Put(d) => d \notin Risk')
    BY <1>1, NoNewRisk DEF RiskyFor
  <1>3. /\ IsFiniteSet(Lacking) /\ IsFiniteSet(Risk) /\ IsFiniteSet(Lacking') /\ IsFiniteSet(Risk')
        /\ Cardinality(Lacking) \in Nat /\ Cardinality(Risk) \in Nat
        /\ Cardinality(Lacking') \in Nat /\ Cardinality(Risk') \in Nat
    <2>1. IsFiniteSet(remote') /\ IsFiniteSet(Device)
      BY SyncAssumption DEF NamesInv
    <2>2. Lacking' \in SUBSET remote' /\ Risk' \in SUBSET Device
      BY DEF LackingAfter, NewerThan, RiskyFor
    <2>3. QED
      BY <2>1, <2>2, SetsFinite, FS_Subset, FS_CardinalityType
  <1>4. CASE Lacking' \subseteq Lacking
    <2>1. Cardinality(Lacking') <= Cardinality(Lacking) /\ Cardinality(Risk') <= Cardinality(Risk)
      BY <1>2, <1>3, <1>4, FS_Subset
    <2>2. Cardinality(Lacking') + Cardinality(Risk') < Keep
      <3> HIDE DEF Lacking, Risk
      <3>1. QED
        BY <1>1, <1>3, <2>1, SyncAssumption
    <2>3. QED
      BY <1>1, <2>2 DEF Holds, Lacks
  <1>5. ASSUME NEW v \in Lacking', v \notin Lacking
        PROVE  Holds(g, r, a)'
    <2>1. v \in remote' /\ v \notin remote /\ Lacks(v, r, a) /\ v.name > g.name
      BY <1>5 DEF LackingAfter, NewerThan, Lacks
    <2>2. Put(d) /\ v.snap \in op[d].snap
      BY <2>1, NewVersion
    <2>3. d \in Risk
      BY <2>1, <2>2 DEF RiskyFor, Risky, Put, Lacks
    <2>4. remote' = remote \cup {v}
      BY <2>1, <2>2 DEF Put
    <2>5. Lacking' \subseteq Lacking \cup {v}
      BY <2>4 DEF LackingAfter, NewerThan, Lacks
    <2>6. Risk' \subseteq Risk \ {d}
      BY <1>2, <2>2
    <2>7. /\ IsFiniteSet(Lacking \cup {v}) /\ Cardinality(Lacking \cup {v}) = Cardinality(Lacking) + 1
          /\ IsFiniteSet(Risk \ {d}) /\ Cardinality(Risk \ {d}) = Cardinality(Risk) - 1
      BY <1>3, <1>5, <2>3, FS_AddElement, FS_RemoveElement
    <2>8. /\ Cardinality(Lacking') <= Cardinality(Lacking) + 1
          /\ Cardinality(Risk') <= Cardinality(Risk) - 1
      BY <2>5, <2>6, <2>7, FS_Subset
    <2>9. Cardinality(Lacking') + Cardinality(Risk') < Keep
      <3> HIDE DEF Lacking, Risk
      <3>1. QED
        BY <1>1, <1>3, <2>8, SyncAssumption
    <2>10. QED
      BY <1>1, <2>9 DEF Holds, Lacks
  <1>6. QED
    BY <1>4, <1>5

LEMMA StoredNext ==
  /\ TypeOK /\ TypeOK' /\ LockInv /\ LockInv' /\ StampsBounded /\ NamesInv /\ NamesInv'
  /\ LockedInv /\ LockedInv' /\ AbsorbInv' /\ KeysInv' /\ OneSnapshot /\ StoredInv /\ [Next]_vars
  => StoredInv'
  <1> SUFFICES ASSUME TypeOK, TypeOK', LockInv, LockInv', StampsBounded, NamesInv, NamesInv',
                      LockedInv, LockedInv', AbsorbInv', KeysInv', OneSnapshot, StoredInv,
                      [Next]_vars
               PROVE  StoredInv'
    OBVIOUS
  <1>1. CASE UNCHANGED vars
    <2>1. ASSUME NEW v, NEW r, NEW a PROVE Holds(v, r, a)' <=> Holds(v, r, a)
      BY <1>1 DEF vars, Holds, Lacks, LackingAfter, RiskyFor, Risky, NewerThan
    <2>2. ASSUME NEW r, NEW a PROVE Given(r, a)' <=> Given(r, a)
      BY <1>1 DEF vars, Given
    <2>3. Undisturbed' <=> Undisturbed
      BY <1>1 DEF vars, Undisturbed, SamePassphrase
    <2>4. remote' = remote
      BY <1>1 DEF vars
    <2>5. QED
      BY <2>1, <2>2, <2>3, <2>4 DEF StoredInv
  <1>2. ASSUME NEW d \in Device, DeviceStep(d), Undisturbed',
               NEW r \in Rec, NEW a \in Nat \ {0}, Given(r, a)'
        PROVE  \E v \in remote' : Holds(v, r, a)'
    <2>1. Undisturbed /\ QuietStep(d)
      BY <1>2, UndisturbedBefore
    <2>2. CASE Given(r, a)
      <3>1. \E v \in remote : Holds(v, r, a)
        BY <2>1, <2>2 DEF StoredInv
      <3>2. PICK g \in remote : Holds(g, r, a) /\ Cardinality(NewerThan(g)) < Keep
        BY <3>1, NewestHolder
      <3>3. g \in remote'
        BY <2>1, <3>2, KeptIfNewest
      <3>4. QED
        BY <1>2, <3>2, <3>3, OldVersionHolds
    <2>3. CASE Put(d) /\ \E s \in op[d].snap : a = s[r].ts
      <3>1. ~overtaken'
        BY <1>2 DEF Undisturbed
      <3>2. QED
        BY <2>3, <3>1, NewVersionHolds
    <2>4. QED
      BY <1>2, <2>1, <2>2, <2>3, GivenNext
  <1>3. QED
    BY <1>1, <1>2 DEF Next, DeviceStep, StoredInv

LEMMA StoredIsStored == TypeOK /\ StoredInv => AcknowledgedIsStored
  <1> SUFFICES ASSUME TypeOK, StoredInv, Undisturbed, NEW r \in Rec, acked[r] # 0
               PROVE  \E v \in remote : v.snap[r].ts >= acked[r]
    BY DEF AcknowledgedIsStored
  <1>1. acked[r] \in Nat \ {0}
    BY DEF TypeOK
  <1>2. PICK v \in remote : Holds(v, r, acked[r])
    BY <1>1 DEF StoredInv, Given
  <1>3. v.snap[r].ts \in Nat
    BY RowIsRow DEF TypeOK, Version
  <1>4. QED
    BY <1>1, <1>2, <1>3 DEF Holds, Lacks

(* What a successful sync reported as backed up stays in the store, in     *)
(* that form or a later one, whatever pushes race with it, fail half-way   *)
(* or are pruned: Keep newer versions cannot all do without it.            *)
THEOREM BackupsStay == Spec => []AcknowledgedIsStored
  <1>1. QED
    BY InitType, NextType, LockInit, LockNext, BoundedInit, BoundedNext, NamesInit, NamesNext,
       LockedInit, LockedNext, AbsorbInit, AbsorbNext, KeysInit, KeysNext, OneInit, OneNext,
       StoredInit, StoredNext, StoredIsStored, PTL DEF Spec

=============================================================================
