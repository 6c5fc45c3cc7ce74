--------------------------- MODULE VaultSyncLive ----------------------------
(***************************************************************************)
(* Vault sync in the long run: the devices' periodic tasks sync for ever,  *)
(* calls fail a limited number of times.                                   *)
(***************************************************************************)
EXTENDS VaultSync

CONSTANT MaxFailures        \* bound: failing calls and shutdowns

FailureAssumption == MaxFailures \in Nat

VARIABLE failures           \* how many operations failed so far

LiveInit == Init /\ failures = 0

LiveNext ==
  \E d \in Device :
     \/ (Edit(d) \/ Sync(d) \/ Command(d)) /\ UNCHANGED failures
     \/ failures < MaxFailures /\ Failure(d) /\ failures' = failures + 1

(* run_periodic syncs every connected device again and again, whatever the *)
(* last outcome was, and calls time out: an operation that holds the lock  *)
(* gets on.  Nobody is obliged to edit, restore or connect.                *)
GetOn(d) == Sync(d) \/ RestoreApply(d) \/ ConnectClear(d) \/ ConnectSave(d)

(* The connected devices hold the same rows.                               *)
Agree == \A d, e \in Device : conn[d].on /\ conn[e].on => db[d] = db[e]

=============================================================================
