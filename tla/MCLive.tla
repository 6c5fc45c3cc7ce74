------------------------------- MODULE MCLive -------------------------------
(***************************************************************************)
(* What must happen in the end: two components side by side.  They share   *)
(* no state; part says which of them moves in a behavior of this module,   *)
(* the other stays as it starts.  Fairness is that of the component.       *)
(***************************************************************************)
EXTENDS Integers, FiniteSets

CONSTANTS
  Device, Key, Group, Host, Keep, Shared, Legacy, MaxClock, MaxNames, MaxResets, MaxFailures,
  Caller, MaxGenerations, MaxEdits, MaxReloads

VARIABLES
  part,
  (* VaultSyncLive *)
  db, minted, conn, op, remote, named, file, clock, resets, acked, skipped, overtaken,
  restoredAt, failures,
  (* ForwardManager *)
  row, edits, active, retiring, generations, task, runtime, lifecycle, reload, drained,
  call, raced

Vault == INSTANCE VaultSyncLive
Forward == INSTANCE ForwardManager

ASSUME LiveAssumption ==
  Vault!SyncAssumption /\ Vault!FailureAssumption /\ Forward!ForwardAssumption

vault == <<db, minted, conn, op, remote, named, file, clock, resets, acked, skipped,
           overtaken, restoredAt, failures>>
forward == <<row, edits, active, retiring, generations, task, runtime, lifecycle,
             reload, drained, call, raced>>
vars == <<part, vault, forward>>

Of(name) == part = name /\ UNCHANGED part

Init == part \in {"vault", "forward"} /\ Vault!LiveInit /\ Forward!Init

Next ==
  \/ Of("vault") /\ Vault!LiveNext /\ UNCHANGED forward
  \/ Of("forward") /\ Forward!Next /\ UNCHANGED vault

(* VaultSyncLive says why the devices get on.  Every await of a call on a  *)
(* forward and of its task ends: connection attempts, prompts (15 minutes) *)
(* and channel requests have timeouts, and select! does not starve the     *)
(* shutdown signal.  Nobody has to give commands.                          *)
GetOn(d) == Of("vault") /\ Vault!GetOn(d) /\ UNCHANGED <<failures, forward>>
GoOn(c) == Of("forward") /\ Forward!GoOn(c) /\ UNCHANGED vault
Connected(g) ==
  /\ Of("forward") /\ (Forward!Established(g) \/ Forward!CannotStart(g))
  /\ UNCHANGED vault
Halted(g) == Of("forward") /\ task[g].told /\ Forward!Halt(g) /\ UNCHANGED vault
Finished(g) == Of("forward") /\ Forward!Finish(g) /\ UNCHANGED vault

FairSpec ==
  /\ Init /\ [][Next]_vars
  /\ \A d \in Device : WF_vars(GetOn(d))
  /\ \A c \in Caller : WF_vars(GoOn(c))
  /\ \A g \in Forward!Generation :
       WF_vars(Connected(g)) /\ WF_vars(Halted(g)) /\ WF_vars(Finished(g))

(* The connected devices come to hold the same rows for good once the      *)
(* edits end, although pushes race, versions are pruned and calls fail.    *)
Convergence == <>[](part = "vault" => Vault!Agree)

(* No call on a forward waits for ever for a task that is shutting down,   *)
(* or goes round in circles.                                               *)
CallsReturn ==
  \A c \in Caller :
    (part = "forward" /\ ~Forward!At(c, "idle")) ~> Forward!At(c, "idle")
=============================================================================
