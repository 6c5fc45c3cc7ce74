---------------------------- MODULE FileTransfer ----------------------------
(***************************************************************************)
(* What a transfer does to the files (sftp/transfer.rs), from fs_transfer  *)
(* (commands/sftp.rs) to its row in the history (transfer_repo.rs).        *)
(*                                                                         *)
(* Several transfers go to one name in one directory.  Each copies into a  *)
(* hidden name of its own, its stage, and commits by renaming: straight to *)
(* the name if it is free, otherwise what is there goes to a hidden backup *)
(* first.  Folders that cross the network are packed, sent and unpacked    *)
(* where both ends have tar.  A call may fail at any step, the user may    *)
(* cancel, the application may die.  What is copied is left out: a content *)
(* is known by the transfer that copied it.                                *)
(***************************************************************************)
CONSTANTS
  Transfer,
  Old,        \* the content the name held before
  None,
  Worlds,     \* bound: where the transfers may go and what may be there
  Jobs        \* bound: what they may be asked for

VARIABLES
  world,      \* where the transfers go and what is there: it stays as it is
  job,        \* job[t]: what the transfer is asked for
  pc,         \* pc[t]: the await the transfer stands at
  cancel,     \* cancel[t]: its flag
  result,     \* result[t]: how it ended
  row,        \* row[t]: its status in the history
  names,      \* names[t]: the temporary names it has made
  whole,      \* whole[t]: its stage holds all of the source
  target,     \* the content under the name
  backup,     \* backup[t]: the content t put aside
  last,       \* history: the content committed last
  committed,  \* history: the transfers that committed
  hit,        \* history: transfers one of whose calls failed
  undone      \* history: a local rollback replaced what another committed

vars == <<world, job, pc, cancel, result, row, names, whole, target, backup, last,
          committed, hit, undone>>

Temporary == {"source archive", "local archive", "target archive", "stage"}
Place == {"local", "remote"}
Job == [from : Place, dir : BOOLEAN, overwrite : BOOLEAN]

FileTransferAssumption ==
  /\ Old \notin Transfer /\ None \notin Transfer \cup {Old}
  /\ Worlds \subseteq [to : Place, old : {"nothing", "file", "dir"}]
  /\ Jobs \subseteq [Transfer -> Job]

IsDir(c) == IF c = Old THEN world.old = "dir" ELSE job[c].dir

Init ==
  /\ world \in Worlds /\ job \in Jobs
  /\ pc = [t \in Transfer |-> "idle"]
  /\ cancel = [t \in Transfer |-> FALSE]
  /\ result = [t \in Transfer |-> "none"]
  /\ row = [t \in Transfer |-> "none"]
  /\ names = [t \in Transfer |-> {}]
  /\ whole = [t \in Transfer |-> FALSE]
  /\ target = (IF world.old = "nothing" THEN None ELSE Old)
  /\ backup = [t \in Transfer |-> None]
  /\ last = target /\ committed = {}
  /\ hit = {} /\ undone = FALSE

-----------------------------------------------------------------------------
(* Steps of a transfer.                                                    *)

disk == <<names, whole, target, backup, last, committed>>
Goto(t, next) == pc' = [pc EXCEPT ![t] = next]
Running(t) == pc[t] \notin {"idle", "ended"}

(* Ends with a result, with or without a cleanup on the way.               *)
EndsAt(t, next, how) == Goto(t, next) /\ result' = [result EXCEPT ![t] = how]

(* Where a transfer goes that fails or is cancelled: those that have not   *)
(* made anything, and those that pack, return at once; the other ones      *)
(* clean up.                                                               *)
AfterFailure(t) == IF pc[t] \in {"validate", "probe", "pack"} THEN "report" ELSE "clean"

NeverCleans(t) == "report"               \* a fault: nobody cleans up

(* fs_transfer: registered, with a row, and spawned.                       *)
Start(t) ==
  /\ pc[t] = "idle" /\ Goto(t, "validate")
  /\ row' = [row EXCEPT ![t] = "active"]
  /\ UNCHANGED <<world, job, cancel, result, disk, hit, undone>>

(* fs_transfer_cancel, while the transfer is registered.                   *)
Cancel(t) ==
  /\ Running(t) /\ ~cancel[t] /\ cancel' = [cancel EXCEPT ![t] = TRUE]
  /\ UNCHANGED <<world, job, pc, result, row, disk, hit, undone>>

(* The awaits that listen to the flag.  They poll it first, so none of     *)
(* them ends well once it is set; but the threads that pack and unpack     *)
(* locally look at it between two reads only.                              *)
Listens == {"validate", "probe", "pack", "copy", "download", "upload", "extract"}

HearCancel(t) ==
  /\ pc[t] \in Listens /\ cancel[t]
  /\ EndsAt(t, AfterFailure(t), "cancelled")
  /\ UNCHANGED <<world, job, cancel, row, disk, hit, undone>>

Fail(t) ==
  /\ \/ pc[t] \in Listens /\ ~cancel[t]
     \/ pc[t] \in {"look", "kind"}
  /\ EndsAt(t, AfterFailure(t), "error") /\ hit' = hit \cup {t}
  /\ UNCHANGED <<world, job, cancel, row, disk, undone>>

InThread(t) ==
  \/ pc[t] = "pack" /\ job[t].from = "local"
  \/ pc[t] = "extract" /\ world.to = "local"

Works(t, at) == pc[t] = at /\ (cancel[t] => InThread(t))
Makes(t, name) == names' = [names EXCEPT ![t] = @ \cup {name}]

(* validate_transfer_target: the name is free or may be replaced.          *)
MayTake(t) == target = None \/ job[t].overwrite

Validate(t) ==
  /\ Works(t, "validate")
  /\ IF MayTake(t) THEN Goto(t, "probe") /\ UNCHANGED <<result, hit>>
     ELSE EndsAt(t, "report", "error") /\ hit' = hit \cup {t}
  /\ UNCHANGED <<world, job, cancel, row, disk, undone>>

(* Whether to pack: only a folder that crosses the network.                *)
Probe(t) ==
  /\ Works(t, "probe")
  /\ \/ Goto(t, "copy")
     \/ job[t].dir /\ "remote" \in {job[t].from, world.to} /\ Goto(t, "pack")
  /\ UNCHANGED <<world, job, cancel, result, row, disk, hit, undone>>

(* transfer_node writes to the stage, bit by bit; transfer looks at the    *)
(* flag once more when it is done.                                         *)
Copy(t) ==
  /\ Works(t, "copy") /\ Makes(t, "stage")
  /\ \/ whole' = [whole EXCEPT ![t] = TRUE] /\ Goto(t, "look")
     \/ "stage" \notin names[t] /\ UNCHANGED <<whole, pc>>
  /\ UNCHANGED <<world, job, cancel, result, row, target, backup, last, committed, hit, undone>>

(* create_local_archive, or tar on the source's host.                      *)
Packed(t) == IF job[t].from = "local" THEN "local archive" ELSE "source archive"

Pack(t) ==
  /\ Works(t, "pack") /\ Makes(t, Packed(t))
  /\ \/ Goto(t, IF job[t].from = "local" THEN "upload" ELSE "download")
     \/ names[t] = {} /\ UNCHANGED pc
  /\ UNCHANGED <<world, job, cancel, result, row, whole, target, backup, last, committed, hit, undone>>

(* download_archive and upload_archive.                                    *)
Send(t, at, name, next) ==
  /\ Works(t, at) /\ Makes(t, name)
  /\ \/ Goto(t, next)
     \/ name \notin names[t] /\ UNCHANGED pc
  /\ UNCHANGED <<world, job, cancel, result, row, whole, target, backup, last, committed, hit, undone>>

Download(t) == Send(t, "download", "local archive", IF world.to = "local" THEN "extract" ELSE "upload")
Upload(t) == Send(t, "upload", "target archive", "extract")

Extract(t) ==
  /\ Works(t, "extract") /\ Makes(t, "stage")
  /\ \/ whole' = [whole EXCEPT ![t] = TRUE] /\ Goto(t, "look")
     \/ "stage" \notin names[t] /\ UNCHANGED <<whole, pc>>
  /\ UNCHANGED <<world, job, cancel, result, row, target, backup, last, committed, hit, undone>>

-----------------------------------------------------------------------------
(* commit_staged, commit_local_stage and commit_remote_stage: they do not  *)
(* listen to the flag.                                                     *)

IsPacked(t) == names[t] \cap {"local archive", "source archive"} # {}

(* A rename over something that exists replaces a file by a file if it is  *)
(* local, and fails otherwise.                                             *)
CanRename(content) ==
  IF target = None THEN TRUE
  ELSE world.to = "local" /\ ~IsDir(target) /\ ~IsDir(content)

Look(t) ==
  /\ pc[t] = "look"
  /\ CASE target = None -> Goto(t, "place") /\ UNCHANGED <<result, hit>>
       [] target # None /\ job[t].overwrite -> Goto(t, "kind") /\ UNCHANGED <<result, hit>>
       [] OTHER -> EndsAt(t, "clean", "error") /\ hit' = hit \cup {t}
  /\ UNCHANGED <<world, job, cancel, row, disk, undone>>

(* is_dir of the target: a local one that has gone is an error, a remote   *)
(* one is taken for a file.                                                *)
Kind(t) ==
  /\ pc[t] = "kind" /\ (target = None => world.to = "remote") /\ Goto(t, "aside")
  /\ UNCHANGED <<world, job, cancel, result, row, disk, hit, undone>>

Aside(t) ==
  /\ pc[t] = "aside" /\ target # None /\ Goto(t, "swap")
  /\ target' = None /\ backup' = [backup EXCEPT ![t] = target]
  /\ UNCHANGED <<world, job, cancel, result, row, names, whole, last, committed, hit, undone>>

(* The stage gets the name.  A stage that was unpacked into is a folder    *)
(* around the content and stays.                                           *)
Committed(t) ==
  /\ target' = t /\ last' = t /\ committed' = committed \cup {t}
  /\ names' = [names EXCEPT ![t] = IF IsPacked(t) THEN @ ELSE @ \ {"stage"}]
  /\ whole' = [whole EXCEPT ![t] = FALSE]

Swap(t) ==
  /\ pc[t] \in {"place", "swap"} /\ CanRename(t) /\ Committed(t)
  /\ IF pc[t] = "swap" THEN Goto(t, "drop") /\ UNCHANGED result
     ELSE EndsAt(t, IF IsPacked(t) THEN "clean" ELSE "report", "done")
  /\ UNCHANGED <<world, job, cancel, row, backup, hit, undone>>

GoesOn(t) == IF pc[t] = "swap" THEN "drop" ELSE "clean"    \* a fault: nothing is put back

(* Where a rename leads that fails: what was put aside is put back.        *)
AfterRename(t) == IF pc[t] = "swap" THEN "restore" ELSE "clean"

(* A rename fails, or is carried out by the server and its answer is lost. *)
RenameFails(t) ==
  /\ pc[t] \in {"aside", "place", "swap"}
  /\ EndsAt(t, AfterRename(t), "error") /\ hit' = hit \cup {t}
  /\ \/ UNCHANGED disk
     \/ world.to = "remote" /\ pc[t] = "aside" /\ target # None
        /\ target' = None /\ backup' = [backup EXCEPT ![t] = target]
        /\ UNCHANGED <<names, whole, last, committed>>
     \/ world.to = "remote" /\ pc[t] # "aside" /\ CanRename(t) /\ Committed(t)
        /\ UNCHANGED backup
  /\ UNCHANGED <<world, job, cancel, row, undone>>

(* Whatever comes of it, the transfer goes on to its cleanup.              *)
Restore(t) ==
  /\ pc[t] = "restore" /\ Goto(t, "clean")
  /\ \/ /\ CanRename(backup[t])
        /\ target' = backup[t] /\ backup' = [backup EXCEPT ![t] = None]
        /\ undone' = (undone \/ target # None)
     \/ UNCHANGED <<target, backup, undone>>
  /\ UNCHANGED <<world, job, cancel, result, row, names, whole, last, committed, hit>>

(* cleanup_staged of the backup.                                           *)
Drop(t) ==
  /\ pc[t] = "drop" /\ EndsAt(t, IF IsPacked(t) THEN "clean" ELSE "report", "done")
  /\ \/ backup' = [backup EXCEPT ![t] = None] /\ UNCHANGED hit
     \/ UNCHANGED backup /\ hit' = hit \cup {t}
  /\ UNCHANGED <<world, job, cancel, row, names, whole, target, last, committed, undone>>

(* Every temporary name is removed, one failure does not stop the others.  *)
Clean(t) ==
  /\ pc[t] = "clean" /\ Goto(t, "report")
  /\ \E kept \in SUBSET names[t] :
       /\ names' = [names EXCEPT ![t] = kept]
       /\ whole' = [whole EXCEPT ![t] = @ /\ "stage" \in kept]
       /\ hit' = IF kept = {} THEN hit ELSE hit \cup {t}
  /\ UNCHANGED <<world, job, cancel, result, row, target, backup, last, committed, undone>>

-----------------------------------------------------------------------------
(* The history.                                                            *)

Finish(t) ==
  /\ pc[t] = "report" /\ Goto(t, "ended")
  /\ row' = [row EXCEPT ![t] = result[t]]
  /\ UNCHANGED <<world, job, cancel, result, disk, hit, undone>>

DeleteRow(t) ==
  /\ row[t] \notin {"none", "active"} /\ row' = [row EXCEPT ![t] = "none"]
  /\ UNCHANGED <<world, job, pc, cancel, result, disk, hit, undone>>

(* The application dies and is started again: mark_interrupted.            *)
Interrupted(status) == IF status = "active" THEN "error" ELSE status

AsItWas(status) == status                \* a fault: nobody looks after the rows

Restart ==
  /\ \E t \in Transfer : Running(t)
  /\ pc' = [t \in Transfer |-> IF Running(t) THEN "ended" ELSE pc[t]]
  /\ row' = [t \in Transfer |-> Interrupted(row[t])]
  /\ hit' = hit \cup {t \in Transfer : Running(t)}
  /\ UNCHANGED <<world, job, cancel, result, disk, undone>>

Next ==
  \/ \E t \in Transfer :
       \/ Start(t) \/ Cancel(t) \/ HearCancel(t) \/ Fail(t)
       \/ Validate(t) \/ Probe(t) \/ Copy(t)
       \/ Pack(t) \/ Download(t) \/ Upload(t) \/ Extract(t)
       \/ Look(t) \/ Kind(t) \/ Aside(t) \/ Swap(t) \/ RenameFails(t)
       \/ Restore(t) \/ Drop(t) \/ Clean(t) \/ Finish(t) \/ DeleteRow(t)
  \/ Restart

Spec == Init /\ [][Next]_vars

-----------------------------------------------------------------------------
Content == Transfer \cup {Old, None}

TypeOK ==
  /\ names \in [Transfer -> SUBSET Temporary] /\ whole \in [Transfer -> BOOLEAN]
  /\ target \in Content /\ backup \in [Transfer -> Content] /\ last \in Content
  /\ cancel \in [Transfer -> BOOLEAN]
  /\ result \in [Transfer -> {"none", "done", "error", "cancelled"}]
  /\ row \in [Transfer -> {"none", "active", "done", "error", "cancelled"}]
  /\ committed \subseteq Transfer /\ hit \subseteq Transfer /\ undone \in BOOLEAN

(* What was committed last, or was there before, is under the name or in a *)
(* backup, whatever fails and whenever the application dies, and two       *)
(* transfers to one name leave one of the two (commit_staged).  Exempt is  *)
(* a local transfer that rolls back over what another has just committed:  *)
(* the code has no guard.                                                  *)
NothingIsLost ==
  last # None /\ ~undone => last = target \/ \E t \in Transfer : backup[t] = last

(* A transfer none of whose calls failed, done or cancelled, leaves none   *)
(* of its hidden names behind.  Exempt is a cancel while it packs: the     *)
(* code returns before it has set up the cleanup (:850, :939).             *)
LeavesNothing ==
  \A t \in Transfer : pc[t] \in {"report", "ended"} /\ t \notin hit =>
    /\ backup[t] = None
    /\ names[t] \subseteq (IF result[t] = "cancelled" THEN {Packed(t)} ELSE {})

(* The history says "active" of the transfers that go on, "done" only of   *)
(* those that committed and "cancelled" only of those that did not.        *)
RowsAreTrue ==
  \A t \in Transfer :
    /\ row[t] = "active" <=> Running(t)
    /\ row[t] = "done" => t \in committed
    /\ row[t] = "cancelled" => t \notin committed
=============================================================================
