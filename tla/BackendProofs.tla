---------------------------- MODULE BackendProofs ----------------------------
(***************************************************************************)
(* What is proved of each component of the backend holds of it in          *)
(* MCBackend too, where it is one of many: a component that moves keeps    *)
(* its inductive invariant, and one that does not has nothing to keep.     *)
(***************************************************************************)
EXTENDS MCBackend, TLAPS

-----------------------------------------------------------------------------
(* The inductive invariant of the component that moves.                    *)
FilesInv ==
  /\ part = "transfers" => Work!TransferInv
  /\ part = "folder" => Work!DeletionInv
  /\ part = "deletions" => Overlap!DeletionInv
  /\ part = "local deletions" => DiskOverlap!DeletionInv

VaultInv ==
  /\ part = "records" => Records!Inv
  /\ part = "shared records" => SharedRecords!Inv
  /\ part = "login" => Talk!ShakeInv
  /\ part = "remembering" => Meeting!ShakeInv
  /\ part = "stores" => Stores!Inv
  /\ part = "own store" => OwnStore!Inv

WorkInv ==
  /\ part = "tasks" => Work!TaskInv
  /\ part = "run" => Work!StepInv
  /\ part = "asking" => Talk!AskInv
  /\ part = "terminals" => Talk!PaneInv

PagesInv ==
  /\ part = "account" => Talk!AccountInv
  /\ part = "updates" => Talk!UpdateInv
  /\ part = "update views" => Meeting!UpdateInv
  /\ part = "batch" => Work!BatchInv
  /\ part = "batches" => Overlap!BatchInv
  /\ part = "chat" => Talk!ChatInv

BackendInv == part \in Parts /\ FilesInv /\ VaultInv /\ WorkInv /\ PagesInv

-----------------------------------------------------------------------------
(* Every component starts in its invariant, keeps it, and promises what    *)
(* follows from it.                                                        *)

LEMMA PartStays ==
  ASSUME [Next]_vars
  PROVE  part' = part
  BY DEF Next, FilesMove, VaultMoves, WorkMoves, PagesMove, Moves, vars

LEMMA FilesStart ==
  ASSUME Init
  PROVE  FilesInv
  <1>1. /\ part = "transfers" => Work!Move!Init
        /\ part = "folder" => Work!Del!Init
        /\ part = "deletions" => Overlap!Del!Init
        /\ part = "local deletions" => DiskOverlap!Del!Init
    BY DEF Init, OverlapParts, Overlap!Del!Init, DiskOverlap!Del!Init
  <1>2. QED
    BY <1>1, BackendAssumption, Work!TransferInitOK, Work!DeletionInitOK,
       Overlap!DeletionInitOK, DiskOverlap!DeletionInitOK
    DEF FilesInv

LEMMA FilesStep ==
  ASSUME FilesInv, [Next]_vars
  PROVE  FilesInv'
  <1>1. /\ part = "transfers" => Work!Move!Next \/ UNCHANGED transfers
        /\ part = "folder" => Work!Del!Next \/ UNCHANGED deletions
        /\ part = "deletions" => Overlap!Del!Next \/ UNCHANGED deletions
        /\ part = "local deletions" => DiskOverlap!Del!Next \/ UNCHANGED deletions
    BY DEF Next, FilesMove, VaultMoves, WorkMoves, PagesMove, Moves, vars, Files
  <1>2. /\ UNCHANGED transfers => UNCHANGED Work!Move!vars
        /\ UNCHANGED deletions => UNCHANGED Work!Del!vars
        /\ UNCHANGED deletions => UNCHANGED Overlap!Del!vars
        /\ UNCHANGED deletions => UNCHANGED DiskOverlap!Del!vars
    BY DEF transfers, Work!Move!vars, deletions, Work!Del!vars, Overlap!Del!vars,
           DiskOverlap!Del!vars
  <1>3. QED
    BY PartStays, <1>1, <1>2, BackendAssumption, Work!TransferNextOK, Work!DeletionNextOK,
       Overlap!DeletionNextOK, DiskOverlap!DeletionNextOK
    DEF FilesInv

LEMMA FilesSay ==
  ASSUME FilesInv
  PROVE  /\ part = "transfers" =>
              /\ Work!Move!TypeOK /\ Work!Move!NothingIsLost /\ Work!Move!LeavesNothing
              /\ Work!Move!RowsAreTrue
         /\ part = "folder" =>
              /\ Work!Del!TypeOK /\ Work!Del!DoneMeansGone /\ Work!Del!NothingElse
              /\ Work!Del!ErrorHasCause /\ Work!Del!SlotsComeBack
         /\ part = "deletions" =>
              /\ Overlap!Del!TypeOK /\ Overlap!Del!DoneMeansGone
              /\ Overlap!Del!NothingElse /\ Overlap!Del!ErrorHasCause
              /\ Overlap!Del!SlotsComeBack
         /\ part = "local deletions" =>
              /\ DiskOverlap!Del!TypeOK /\ DiskOverlap!Del!DoneMeansGone
              /\ DiskOverlap!Del!NothingElse /\ DiskOverlap!Del!ErrorHasCause
              /\ DiskOverlap!Del!SlotsComeBack
  BY BackendAssumption, Work!TransferInvSays, Work!DeletionInvSays,
     Overlap!DeletionInvSays, DiskOverlap!DeletionInvSays
  DEF FilesInv

LEMMA VaultStart ==
  ASSUME Init
  PROVE  VaultInv
  <1>1. /\ part = "records" => Records!Init
        /\ part = "shared records" => SharedRecords!Init
        /\ part = "login" => Talk!Shake!Init
        /\ part = "remembering" => Meeting!Shake!Init
        /\ part = "stores" => Stores!Init
        /\ part = "own store" => OwnStore!Init
    BY DEF Init
  <1>2. QED
    BY <1>1, BackendAssumption, Records!InitOK, SharedRecords!InitOK, Talk!ShakeInitInv,
       Meeting!ShakeInitInv, Stores!InitOK, OwnStore!InitOK
    DEF VaultInv

LEMMA VaultStep ==
  ASSUME VaultInv, [Next]_vars
  PROVE  VaultInv'
  <1>1. /\ part = "records" => Records!Next \/ UNCHANGED records
        /\ part = "shared records" => SharedRecords!Next \/ UNCHANGED records
        /\ part = "login" => Talk!Shake!Next \/ UNCHANGED handshake
        /\ part = "remembering" => Meeting!Shake!Next \/ UNCHANGED handshake
        /\ part = "stores" => Stores!Next \/ UNCHANGED stores
        /\ part = "own store" => OwnStore!Next \/ UNCHANGED stores
    BY DEF Next, FilesMove, VaultMoves, WorkMoves, PagesMove, Moves, vars, Vault
  <1>2. /\ UNCHANGED records => UNCHANGED Records!vars
        /\ UNCHANGED records => UNCHANGED SharedRecords!vars
        /\ UNCHANGED handshake => UNCHANGED Talk!Shake!vars
        /\ UNCHANGED handshake => UNCHANGED Meeting!Shake!vars
        /\ UNCHANGED stores => UNCHANGED Stores!vars
        /\ UNCHANGED stores => UNCHANGED OwnStore!vars
    BY DEF records, Records!vars, SharedRecords!vars, handshake, Talk!Shake!vars,
           Talk!Shake!files, Talk!Shake!talk, Talk!Shake!history, Meeting!Shake!vars,
           Meeting!Shake!files, Meeting!Shake!talk, Meeting!Shake!history, stores,
           Stores!vars, OwnStore!vars
  <1>3. QED
    BY PartStays, <1>1, <1>2, BackendAssumption, Records!NextOK, SharedRecords!NextOK,
       Talk!ShakeNextInv, Meeting!ShakeNextInv, Stores!NextOK, OwnStore!NextOK
    DEF VaultInv

LEMMA VaultSay ==
  ASSUME VaultInv
  PROVE  /\ part = "records" =>
              /\ Records!TypeOK /\ Records!ReferencesHold /\ Records!NoJumpLoops
         /\ part = "shared records" =>
              /\ SharedRecords!TypeOK /\ SharedRecords!ReferencesHold
              /\ SharedRecords!NoJumpLoops
         /\ part = "login" =>
              /\ Talk!Shake!TypeOK /\ Talk!Shake!SecretsAreGuarded
              /\ Talk!Shake!PasswordIsSpared /\ Talk!Shake!RememberedStays
         /\ part = "remembering" =>
              /\ Meeting!Shake!TypeOK /\ Meeting!Shake!SecretsAreGuarded
              /\ Meeting!Shake!PasswordIsSpared /\ Meeting!Shake!RememberedStays
         /\ part = "stores" =>
              /\ Stores!TypeOK /\ Stores!NewestAreKept /\ Stores!OthersStay
              /\ Stores!ListsAreComplete /\ Stores!TokensAreKept
         /\ part = "own store" =>
              /\ OwnStore!TypeOK /\ OwnStore!NewestAreKept /\ OwnStore!OthersStay
              /\ OwnStore!ListsAreComplete /\ OwnStore!TokensAreKept
  BY BackendAssumption, Records!InvNoLoops, SharedRecords!InvNoLoops, Talk!ShakeInvSays,
     Meeting!ShakeInvSays, Stores!InvTypes, Stores!InvNewest, Stores!InvOthers,
     Stores!InvLists, Stores!InvTokens, OwnStore!InvTypes, OwnStore!InvNewest,
     OwnStore!InvOthers, OwnStore!InvLists, OwnStore!InvTokens
  DEF VaultInv, Records!Inv, SharedRecords!Inv

LEMMA WorkStart ==
  ASSUME Init
  PROVE  WorkInv
  <1>1. /\ part = "tasks" => Work!Tasks!Init
        /\ part = "run" => Work!Path!Init
        /\ part = "asking" => Talk!Asking!Init
        /\ part = "terminals" => Talk!Panes!Init
    BY DEF Init
  <1>2. QED
    BY <1>1, BackendAssumption, Work!TaskInitOK, Work!StepInitOK, Talk!AskInitOK,
       Talk!PaneInitOK
    DEF WorkInv

LEMMA WorkStep ==
  ASSUME WorkInv, [Next]_vars
  PROVE  WorkInv'
  <1>1. /\ part = "tasks" => Work!Tasks!Next \/ UNCHANGED tasks
        /\ part = "run" => Work!Path!Next \/ UNCHANGED steps
        /\ part = "asking" => Talk!Asking!Next \/ UNCHANGED asking
        /\ part = "terminals" => Talk!Panes!Next \/ UNCHANGED terminals
    BY DEF Next, FilesMove, VaultMoves, WorkMoves, PagesMove, Moves, vars, Runs
  <1>2. /\ UNCHANGED tasks => UNCHANGED Work!Tasks!vars
        /\ UNCHANGED steps => UNCHANGED Work!Path!vars
        /\ UNCHANGED asking => UNCHANGED Talk!Asking!vars
        /\ UNCHANGED terminals => UNCHANGED Talk!Panes!vars
    BY DEF tasks, Work!Tasks!vars, steps, Work!Path!vars, asking, Talk!Asking!vars,
           terminals, Talk!Panes!vars
  <1>3. QED
    BY PartStays, <1>1, <1>2, BackendAssumption, Work!TaskNextOK, Work!StepNextOK,
       Talk!AskNextOK, Talk!PaneNextOK
    DEF WorkInv

LEMMA WorkSay ==
  ASSUME WorkInv
  PROVE  /\ part = "tasks" =>
              /\ Work!Tasks!TypeOK /\ Work!Tasks!ScheduleIsKept /\ Work!Tasks!RunsAreTrue
         /\ part = "run" =>
              /\ Work!Path!TypeOK /\ Work!Path!StepsAreTrue /\ Work!Path!StepsInOrder
              /\ Work!Path!NothingIsLeft
         /\ part = "asking" =>
              /\ Talk!Asking!TypeOK /\ Talk!Asking!PromptsAreTrue
         /\ part = "terminals" =>
              /\ Talk!Panes!TypeOK /\ Talk!Panes!ShellsAreKept /\ Talk!Panes!PanesAreTrue
  BY BackendAssumption, Work!TaskInvSays, Work!StepInvSays, Talk!AskInvSays,
     Talk!PaneInvSays
  DEF WorkInv

LEMMA PagesStart ==
  ASSUME Init
  PROVE  PagesInv
  <1>1. /\ part = "account" => Talk!Account!Init
        /\ part = "updates" => Talk!Updates!Init
        /\ part = "update views" => Meeting!Updates!Init
        /\ part = "batch" => Work!Batch!Init
        /\ part = "batches" => Overlap!Batch!Init
        /\ part = "chat" => Talk!Chat!Init
    BY DEF Init
  <1>2. QED
    BY <1>1, BackendAssumption, Talk!AccountInitOK, Talk!UpdateInitOK,
       Meeting!UpdateInitOK, Work!BatchInitOK, Overlap!BatchInitOK, Talk!ChatInitOK
    DEF PagesInv

LEMMA PagesStep ==
  ASSUME PagesInv, [Next]_vars
  PROVE  PagesInv'
  <1>1. /\ part = "account" => Talk!Account!Next \/ UNCHANGED account
        /\ part = "updates" => Talk!Updates!Next \/ UNCHANGED updates
        /\ part = "update views" => Meeting!Updates!Next \/ UNCHANGED updates
        /\ part = "batch" => Work!Batch!Next \/ UNCHANGED batches
        /\ part = "batches" => Overlap!Batch!Next \/ UNCHANGED batches
        /\ part = "chat" => Talk!Chat!Next \/ UNCHANGED chats
    BY DEF Next, FilesMove, VaultMoves, WorkMoves, PagesMove, Moves, vars, Pages
  <1>2. /\ UNCHANGED account => UNCHANGED Talk!Account!vars
        /\ UNCHANGED updates => UNCHANGED Talk!Updates!vars
        /\ UNCHANGED updates => UNCHANGED Meeting!Updates!vars
        /\ UNCHANGED batches => UNCHANGED Work!Batch!vars
        /\ UNCHANGED batches => UNCHANGED Overlap!Batch!vars
        /\ UNCHANGED chats => UNCHANGED Talk!Chat!vars
    BY DEF account, Talk!Account!vars, updates, Talk!Updates!vars, Meeting!Updates!vars,
           batches, Work!Batch!vars, Overlap!Batch!vars, chats, Talk!Chat!vars,
           Talk!Chat!page, Talk!Chat!registry, Talk!Chat!deltas
  <1>3. QED
    BY PartStays, <1>1, <1>2, BackendAssumption, Talk!AccountNextOK, Talk!UpdateNextOK,
       Meeting!UpdateNextOK, Work!BatchNextOK, Overlap!BatchNextOK, Talk!ChatNextOK
    DEF PagesInv

LEMMA PagesSay ==
  ASSUME PagesInv
  PROVE  /\ part = "account" =>
              /\ Talk!Account!TypeOK /\ Talk!Account!ConnectsAsShown
              /\ Talk!Account!PhaseIsTrue
         /\ part = "updates" =>
              /\ Talk!Updates!TypeOK /\ Talk!Updates!BusyHasOwner
              /\ Talk!Updates!ViewIsTrue
         /\ part = "update views" =>
              /\ Meeting!Updates!TypeOK /\ Meeting!Updates!BusyHasOwner
              /\ Meeting!Updates!ViewIsTrue
         /\ part = "batch" =>
              /\ Work!Batch!TypeOK /\ Work!Batch!ResultsAreTrue /\ Work!Batch!NoOrphanRun
         /\ part = "batches" =>
              /\ Overlap!Batch!TypeOK /\ Overlap!Batch!ResultsAreTrue
              /\ Overlap!Batch!NoOrphanRun
         /\ part = "chat" =>
              /\ Talk!Chat!TypeOK /\ Talk!Chat!ShownInOrder /\ Talk!Chat!KeptAsShown
              /\ Talk!Chat!RunningIsRegistered
  BY BackendAssumption, Talk!AccountInvSays, Talk!UpdateInvSays, Meeting!UpdateInvSays,
     Work!BatchInvSays, Overlap!BatchInvSays, Talk!ChatInvSays
  DEF PagesInv

LEMMA BackendInvHolds == Spec => []BackendInv
  <1>1. Init => BackendInv
    BY FilesStart, VaultStart, WorkStart, PagesStart DEF Init, BackendInv
  <1>2. BackendInv /\ [Next]_vars => BackendInv'
    BY PartStays, FilesStep, VaultStep, WorkStep, PagesStep DEF BackendInv, Parts
  <1>3. QED
    BY <1>1, <1>2, PTL DEF Spec

-----------------------------------------------------------------------------
(* Whatever component moves, its variables keep the values the code gives  *)
(* them.                                                                   *)
THEOREM TypeCorrect == Spec => []TypeOK
  <1>1. BackendInv => TypeOK
    BY FilesSay, VaultSay, WorkSay, PagesSay DEF BackendInv, TypeOK
  <1>2. QED
    BY <1>1, BackendInvHolds, PTL

(* What was under the name of a transfer or was committed last stays, and  *)
(* a transfer that went well leaves no litter; deletions that cross each   *)
(* other, by a server or on the disk, remove nothing but what was marked.  *)
THEOREM FilesAreSafe == Spec => []NothingIsLost
  <1>1. BackendInv => NothingIsLost
    BY FilesSay DEF BackendInv, NothingIsLost
  <1>2. QED
    BY <1>1, BackendInvHolds, PTL

(* The rows of transfers, of task runs, of their steps and of a chat say   *)
(* what happened, and the end of a deletion what became of what was        *)
(* marked, whatever is cancelled, lost or crossed on the way.              *)
THEOREM EveryRecordIsTrue == Spec => []RecordsAreTrue
  <1>1. BackendInv => RecordsAreTrue
    BY FilesSay, WorkSay, PagesSay DEF BackendInv, RecordsAreTrue
  <1>2. QED
    BY <1>1, BackendInvHolds, PTL

(* No record refers to a deleted one and no jump host to itself, whatever  *)
(* users save, delete and import on devices that merge.                    *)
THEOREM NoReferenceDangles == Spec => []ReferencesHold
  <1>1. BackendInv => ReferencesHold
    BY VaultSay DEF BackendInv, ReferencesHold
  <1>2. QED
    BY <1>1, BackendInvHolds, PTL

(* A server is told a password or an answer only once its key is trusted,  *)
(* a saved password once, and a key that is remembered stays in the file,  *)
(* whatever connections do side by side.                                   *)
THEOREM TrustComesFirst == Spec => []TrustBeforeSecrets
  <1>1. BackendInv => TrustBeforeSecrets
    BY VaultSay DEF BackendInv, TrustBeforeSecrets
  <1>2. QED
    BY <1>1, BackendInvHolds, PTL

(* A schedule starts each due time once and never beside a run that this   *)
(* page knows of, whatever is reloaded, restarted or edited.               *)
THEOREM SchedulesStartOnce == Spec => []ScheduleIsKept
  <1>1. BackendInv => ScheduleIsKept
    BY WorkSay DEF BackendInv, ScheduleIsKept
  <1>2. QED
    BY <1>1, BackendInvHolds, PTL

(* The store keeps the newest versions and all that is none of them, a     *)
(* listing misses none and a device keeps its newest refresh token,        *)
(* however devices list, upload, prune and clear across each other.        *)
THEOREM StoresServe == Spec => []StoreServes
  <1>1. BackendInv => StoreServes
    BY VaultSay DEF BackendInv, StoreServes
  <1>2. QED
    BY <1>1, BackendInvHolds, PTL

(* A shell has its pane, a command its step, a run on many hosts its       *)
(* dialog, a busy updater its check or installation, an account its        *)
(* sign-in and a request its chat, whatever is closed, cancelled or        *)
(* reloaded meanwhile.                                                     *)
THEOREM NothingRunsUnowned == Spec => []OwnersAreTrue
  <1>1. BackendInv => OwnersAreTrue
    BY WorkSay, PagesSay DEF BackendInv, OwnersAreTrue
  <1>2. QED
    BY <1>1, BackendInvHolds, PTL

(* Once nothing is on its way, the pages show what the backend has, in     *)
(* whichever order events, answers and questions came.                     *)
THEOREM PagesShowTheBackend == Spec => []ViewIsTrue
  <1>1. BackendInv => ViewIsTrue
    BY WorkSay, PagesSay DEF BackendInv, ViewIsTrue
  <1>2. QED
    BY <1>1, BackendInvHolds, PTL
=============================================================================
