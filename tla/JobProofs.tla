----------------------------- MODULE JobProofs ------------------------------
(***************************************************************************)
(* Theorems about the work that goes on in the background: transfers and   *)
(* deletions of files, the runs of tasks and their steps, and commands on  *)
(* many hosts.                                                             *)
(***************************************************************************)
EXTENDS Integers, FiniteSets, Sequences, SequencesExt, FiniteSetTheorems, SequenceTheorems,
        TLAPS

CONSTANTS
  None,
  Transfer, Old, Worlds, Jobs,
  Op, OpRemote, Chosen, Node, Kind, Parent, Target, Late, Concurrent, MaxEntries,
  Task, NeedsHost, Schedule, DueAt, Steps, MaxTime, MaxRuns, MaxChanges,
  Plans, ConnectAttempts,
  RunHost, RunHosts, Limit, MaxDialogLoads

VARIABLES
  (* FileTransfer *)
  world, job, pc, cancel, result, row, names, whole, target, backup, last, committed,
  hit, undone,
  (* Deletions *)
  there, deletion, deleteCancel, todo, found, files, dirs, round, flight, failures, ended,
  slots, up, stray, gone, disturbed,
  (* TaskRuns *)
  now, task, baseline, runs, dialog, cancels, edits, reloads,
  (* TaskSteps *)
  plan, runAt, stop, link, tries, index, attempts, alive, abandoned, stepEnds, runRow,
  channel, runAnswer, stepView, runShown, runOvertaken,
  (* BatchRuns *)
  open, followed, results, begun, commands, batch, hostEvents, outcomes, dialogLoads,
  lost, overtaken

Move == INSTANCE FileTransfer
Del == INSTANCE Deletions WITH
  pc <- deletion, cancel <- deleteCancel, batch <- round, status <- ended
Tasks == INSTANCE TaskRuns
Path == INSTANCE TaskSteps WITH
  pc <- runAt, cancel <- stop, conn <- link, outcomes <- stepEnds, row <- runRow,
  answer <- runAnswer, view <- stepView, shown <- runShown, overtaken <- runOvertaken
Batch == INSTANCE BatchRuns WITH
  Host <- RunHost, Chosen <- RunHosts, MaxLoads <- MaxDialogLoads,
  current <- followed, shown <- results, calls <- commands, run <- batch,
  events <- hostEvents, answers <- outcomes, loads <- dialogLoads, late <- overtaken

-----------------------------------------------------------------------------

Before == {"idle", "validate", "probe", "pack", "download", "upload", "copy", "extract",
           "look", "kind", "aside", "place", "swap"}
After == {"drop", "restore", "clean", "report", "ended"}

-----------------------------------------------------------------------------
(* A transfer commits once, in the middle of its way, and puts something   *)
(* aside shortly before; what it throws away is older than what was        *)
(* committed last.                                                         *)
CommitOK(t) ==
  /\ t \in committed => pc[t] \in After
  /\ backup[t] # None => pc[t] \in {"swap"} \cup After
  /\ pc[t] = "drop" => t \in committed /\ last # backup[t]
  /\ backup[t] \in committed \cup {Old, None}

(* What it made and left, as long as no call of it fails.                  *)
LitterOK(t) ==
  /\ pc[t] \in {"idle", "validate", "probe"} => names[t] = {}
  /\ pc[t] = "pack" => names[t] \subseteq {Move!Packed(t)}
  /\ pc[t] \in Before \cup {"drop"} /\ "target archive" \in names[t] => Move!IsPacked(t)
  /\ pc[t] = "upload" => Move!IsPacked(t)
  /\ pc[t] = "download" => Move!IsPacked(t)
  /\ pc[t] = "drop" => Move!IsPacked(t) \/ names[t] = {}
  /\ t \notin hit => pc[t] # "restore" /\ (backup[t] = None \/ pc[t] \in {"swap", "drop"})
  /\ pc[t] \in {"report", "ended"} /\ t \notin hit =>
       names[t] \subseteq (IF result[t] = "cancelled" THEN {Move!Packed(t)} ELSE {})

RowOK(t) ==
  /\ row[t] = "active" <=> Move!Running(t)
  /\ row[t] = "done" => t \in committed
  /\ row[t] = "cancelled" => t \notin committed /\ pc[t] = "ended"
  /\ result[t] = "done" => t \in committed
  /\ result[t] = "cancelled" => t \notin committed /\ pc[t] \in {"clean", "report", "ended"}

ContentOK == {target, last} \subseteq committed \cup {Old, None}

TransferOK(t) == CommitOK(t) /\ LitterOK(t) /\ RowOK(t)

TransferInv ==
  /\ Move!TypeOK /\ ContentOK
  /\ pc \in [Transfer -> Before \cup After]
  /\ \A t \in Transfer : TransferOK(t)
  /\ Move!NothingIsLost

-----------------------------------------------------------------------------
LEMMA TransferInitOK ==
  ASSUME Move!FileTransferAssumption, Move!Init
  PROVE  TransferInv
  <1>1. Move!TypeOK /\ ContentOK /\ pc \in [Transfer -> Before \cup After]
    BY DEF Before, After, Move!FileTransferAssumption, Move!Init, Move!TypeOK, ContentOK,
           Move!Content
  <1>2. ASSUME NEW t \in Transfer
        PROVE  TransferOK(t)
    BY DEF Move!Init, TransferOK, CommitOK, LitterOK, RowOK, Move!Running, Before, After
  <1>3. Move!NothingIsLost
    BY DEF Move!Init, Move!NothingIsLost
  <1>4. QED
    BY <1>1, <1>2, <1>3 DEF TransferInv

(* What a step of t leaves of the other transfers.                         *)
Still(t) ==
  /\ \A u \in Transfer \ {t} :
       /\ pc'[u] = pc[u] /\ names'[u] = names[u] /\ backup'[u] = backup[u]
       /\ row'[u] = row[u] /\ result'[u] = result[u]
  /\ hit' \in {hit, hit \cup {t}} /\ job' = job
  /\ \/ committed' = committed /\ last' = last
     \/ committed' = committed \cup {t} /\ last' = t /\ t \notin committed

LEMMA OthersOK ==
  ASSUME Move!FileTransferAssumption, TransferInv, NEW t \in Transfer,
         NEW u \in Transfer \ {t}, Still(t)
  PROVE  TransferOK(u)'
  <1>1. TransferOK(u)
    BY DEF TransferInv
  <1>2. CommitOK(u)'
    BY <1>1 DEF Still, TransferOK, CommitOK, Move!FileTransferAssumption
  <1>3. LitterOK(u)'
    BY <1>1 DEF Still, TransferOK, LitterOK, Move!Packed, Move!IsPacked
  <1>4. RowOK(u)'
    BY <1>1 DEF Still, TransferOK, RowOK, Move!Running
  <1>5. QED
    BY <1>2, <1>3, <1>4 DEF TransferOK

(* A step that neither renames anything nor commits.                       *)
LEMMA SameFiles ==
  ASSUME TransferInv, UNCHANGED <<target, backup, last, committed, undone>>
  PROVE  ContentOK' /\ Move!NothingIsLost'
  BY DEF TransferInv, ContentOK, Move!NothingIsLost

LEMMA StartOK ==
  ASSUME Move!FileTransferAssumption, TransferInv, NEW t \in Transfer, Move!Start(t)
  PROVE  TransferInv'
  <1>1. Move!TypeOK' /\ (pc \in [Transfer -> Before \cup After])'
    BY DEF Before, After, TransferInv, Move!TypeOK, Move!Content, Move!Start, Move!Goto,
           Move!EndsAt, Move!disk, CommitOK, TransferOK
  <1>2. Still(t)
    BY DEF TransferInv, Move!TypeOK, Still, TransferOK, CommitOK, Before, After, Move!Start,
           Move!Goto, Move!EndsAt, Move!disk
  <1>3. TransferOK(t)'
    <2>1. CommitOK(t)'
      BY DEF Move!FileTransferAssumption, TransferInv, Move!TypeOK, ContentOK, TransferOK,
             CommitOK, LitterOK, Before, After, Move!Start, Move!Goto, Move!EndsAt,
             Move!disk
    <2>2. LitterOK(t)'
      BY DEF TransferInv, Move!TypeOK, TransferOK, LitterOK, CommitOK, RowOK, Move!Packed,
             Move!IsPacked, Before, After, Move!Start, Move!Goto, Move!EndsAt, Move!disk
    <2>3. RowOK(t)'
      BY DEF TransferInv, Move!TypeOK, TransferOK, CommitOK, RowOK, Move!Running, Before,
             After, Move!Start, Move!Goto, Move!EndsAt, Move!disk
    <2>4. QED
      BY <2>1, <2>2, <2>3 DEF TransferOK
  <1>4. ContentOK' /\ Move!NothingIsLost'
    BY SameFiles DEF Move!disk, Move!Start, Move!Goto, Move!EndsAt
  <1>5. QED
    BY <1>1, <1>2, <1>3, <1>4, OthersOK DEF TransferInv

LEMMA TransferCancelOK ==
  ASSUME Move!FileTransferAssumption, TransferInv, NEW t \in Transfer, Move!Cancel(t)
  PROVE  TransferInv'
  <1>1. Move!TypeOK' /\ (pc \in [Transfer -> Before \cup After])'
    BY DEF Before, After, TransferInv, Move!TypeOK, Move!Content, Move!Cancel, Move!disk,
           Move!Running, CommitOK, TransferOK
  <1>2. Still(t)
    BY DEF TransferInv, Move!TypeOK, Still, TransferOK, CommitOK, Before, After,
           Move!Cancel, Move!disk, Move!Running
  <1>3. TransferOK(t)'
    <2>1. CommitOK(t)'
      BY DEF Move!FileTransferAssumption, TransferInv, Move!TypeOK, ContentOK, TransferOK,
             CommitOK, LitterOK, Before, After, Move!Cancel, Move!disk, Move!Running
    <2>2. LitterOK(t)'
      BY DEF TransferInv, Move!TypeOK, TransferOK, LitterOK, CommitOK, RowOK, Move!Packed,
             Move!IsPacked, Before, After, Move!Cancel, Move!disk, Move!Running
    <2>3. RowOK(t)'
      BY DEF TransferInv, Move!TypeOK, TransferOK, CommitOK, RowOK, Move!Running, Before,
             After, Move!Cancel, Move!disk
    <2>4. QED
      BY <2>1, <2>2, <2>3 DEF TransferOK
  <1>4. ContentOK' /\ Move!NothingIsLost'
    BY SameFiles DEF Move!disk, Move!Cancel, Move!Running
  <1>5. QED
    BY <1>1, <1>2, <1>3, <1>4, OthersOK DEF TransferInv

LEMMA HearCancelOK ==
  ASSUME Move!FileTransferAssumption, TransferInv, NEW t \in Transfer, Move!HearCancel(t)
  PROVE  TransferInv'
  <1>1. Move!TypeOK' /\ (pc \in [Transfer -> Before \cup After])'
    BY DEF Before, After, TransferInv, Move!TypeOK, Move!Content, Move!HearCancel,
           Move!Goto, Move!EndsAt, Move!disk, Move!AfterFailure, Move!Listens, CommitOK,
           TransferOK
  <1>2. Still(t)
    BY DEF TransferInv, Move!TypeOK, Still, TransferOK, CommitOK, Before, After,
           Move!HearCancel, Move!Goto, Move!EndsAt, Move!disk, Move!AfterFailure,
           Move!Listens
  <1>3. TransferOK(t)'
    <2>1. CommitOK(t)'
      BY DEF Move!FileTransferAssumption, TransferInv, Move!TypeOK, ContentOK, TransferOK,
             CommitOK, LitterOK, Before, After, Move!HearCancel, Move!Goto, Move!EndsAt,
             Move!disk, Move!AfterFailure, Move!Listens
    <2>2. LitterOK(t)'
      BY DEF TransferInv, Move!TypeOK, TransferOK, LitterOK, CommitOK, RowOK, Move!Packed,
             Move!IsPacked, Before, After, Move!HearCancel, Move!Goto, Move!EndsAt,
             Move!disk, Move!AfterFailure, Move!Listens
    <2>3. RowOK(t)'
      BY DEF TransferInv, Move!TypeOK, TransferOK, CommitOK, RowOK, Move!Running, Before,
             After, Move!HearCancel, Move!Goto, Move!EndsAt, Move!disk, Move!AfterFailure,
             Move!Listens
    <2>4. QED
      BY <2>1, <2>2, <2>3 DEF TransferOK
  <1>4. ContentOK' /\ Move!NothingIsLost'
    BY SameFiles DEF Move!disk, Move!HearCancel, Move!Goto, Move!EndsAt, Move!AfterFailure,
                     Move!Listens
  <1>5. QED
    BY <1>1, <1>2, <1>3, <1>4, OthersOK DEF TransferInv

LEMMA FailOK ==
  ASSUME Move!FileTransferAssumption, TransferInv, NEW t \in Transfer, Move!Fail(t)
  PROVE  TransferInv'
  <1>1. Move!TypeOK' /\ (pc \in [Transfer -> Before \cup After])'
    BY DEF Before, After, TransferInv, Move!TypeOK, Move!Content, Move!Fail, Move!Goto,
           Move!EndsAt, Move!disk, Move!AfterFailure, Move!Listens, CommitOK, TransferOK
  <1>2. Still(t)
    BY DEF TransferInv, Move!TypeOK, Still, TransferOK, CommitOK, Before, After, Move!Fail,
           Move!Goto, Move!EndsAt, Move!disk, Move!AfterFailure, Move!Listens
  <1>3. TransferOK(t)'
    <2>1. CommitOK(t)'
      BY DEF Move!FileTransferAssumption, TransferInv, Move!TypeOK, ContentOK, TransferOK,
             CommitOK, LitterOK, Before, After, Move!Fail, Move!Goto, Move!EndsAt,
             Move!disk, Move!AfterFailure, Move!Listens
    <2>2. LitterOK(t)'
      BY DEF TransferInv, Move!TypeOK, TransferOK, LitterOK, CommitOK, RowOK, Move!Packed,
             Move!IsPacked, Before, After, Move!Fail, Move!Goto, Move!EndsAt, Move!disk,
             Move!AfterFailure, Move!Listens
    <2>3. RowOK(t)'
      BY DEF TransferInv, Move!TypeOK, TransferOK, CommitOK, RowOK, Move!Running, Before,
             After, Move!Fail, Move!Goto, Move!EndsAt, Move!disk, Move!AfterFailure,
             Move!Listens
    <2>4. QED
      BY <2>1, <2>2, <2>3 DEF TransferOK
  <1>4. ContentOK' /\ Move!NothingIsLost'
    BY SameFiles DEF Move!disk, Move!Fail, Move!Goto, Move!EndsAt, Move!AfterFailure,
                     Move!Listens
  <1>5. QED
    BY <1>1, <1>2, <1>3, <1>4, OthersOK DEF TransferInv

LEMMA ValidateOK ==
  ASSUME Move!FileTransferAssumption, TransferInv, NEW t \in Transfer, Move!Validate(t)
  PROVE  TransferInv'
  <1>1. Move!TypeOK' /\ (pc \in [Transfer -> Before \cup After])'
    BY DEF Before, After, TransferInv, Move!TypeOK, Move!Content, Move!Validate, Move!Goto,
           Move!EndsAt, Move!disk, Move!Works, Move!InThread, CommitOK, TransferOK
  <1>2. Still(t)
    BY DEF TransferInv, Move!TypeOK, Still, TransferOK, CommitOK, Before, After,
           Move!Validate, Move!Goto, Move!EndsAt, Move!disk, Move!Works, Move!InThread
  <1>3. TransferOK(t)'
    <2>1. CommitOK(t)'
      BY DEF Move!FileTransferAssumption, TransferInv, Move!TypeOK, ContentOK, TransferOK,
             CommitOK, LitterOK, Before, After, Move!Validate, Move!Goto, Move!EndsAt,
             Move!disk, Move!Works, Move!InThread
    <2>2. LitterOK(t)'
      BY DEF TransferInv, Move!TypeOK, TransferOK, LitterOK, CommitOK, RowOK, Move!Packed,
             Move!IsPacked, Before, After, Move!Validate, Move!Goto, Move!EndsAt, Move!disk,
             Move!Works, Move!InThread
    <2>3. RowOK(t)'
      BY DEF TransferInv, Move!TypeOK, TransferOK, CommitOK, RowOK, Move!Running, Before,
             After, Move!Validate, Move!Goto, Move!EndsAt, Move!disk, Move!Works,
             Move!InThread
    <2>4. QED
      BY <2>1, <2>2, <2>3 DEF TransferOK
  <1>4. ContentOK' /\ Move!NothingIsLost'
    BY SameFiles DEF Move!disk, Move!Validate, Move!Goto, Move!EndsAt, Move!Works,
                     Move!InThread
  <1>5. QED
    BY <1>1, <1>2, <1>3, <1>4, OthersOK DEF TransferInv

LEMMA ProbeOK ==
  ASSUME Move!FileTransferAssumption, TransferInv, NEW t \in Transfer, Move!Probe(t)
  PROVE  TransferInv'
  <1>1. Move!TypeOK' /\ (pc \in [Transfer -> Before \cup After])'
    BY DEF Before, After, TransferInv, Move!TypeOK, Move!Content, Move!Probe, Move!Goto,
           Move!EndsAt, Move!disk, Move!Works, Move!InThread, CommitOK, TransferOK
  <1>2. Still(t)
    BY DEF TransferInv, Move!TypeOK, Still, TransferOK, CommitOK, Before, After, Move!Probe,
           Move!Goto, Move!EndsAt, Move!disk, Move!Works, Move!InThread
  <1>3. TransferOK(t)'
    <2>1. CommitOK(t)'
      BY DEF Move!FileTransferAssumption, TransferInv, Move!TypeOK, ContentOK, TransferOK,
             CommitOK, LitterOK, Before, After, Move!Probe, Move!Goto, Move!EndsAt,
             Move!disk, Move!Works, Move!InThread
    <2>2. LitterOK(t)'
      BY DEF TransferInv, Move!TypeOK, TransferOK, LitterOK, CommitOK, RowOK, Move!Packed,
             Move!IsPacked, Before, After, Move!Probe, Move!Goto, Move!EndsAt, Move!disk,
             Move!Works, Move!InThread
    <2>3. RowOK(t)'
      BY DEF TransferInv, Move!TypeOK, TransferOK, CommitOK, RowOK, Move!Running, Before,
             After, Move!Probe, Move!Goto, Move!EndsAt, Move!disk, Move!Works, Move!InThread
    <2>4. QED
      BY <2>1, <2>2, <2>3 DEF TransferOK
  <1>4. ContentOK' /\ Move!NothingIsLost'
    BY SameFiles DEF Move!disk, Move!Probe, Move!Goto, Move!EndsAt, Move!Works,
                     Move!InThread
  <1>5. QED
    BY <1>1, <1>2, <1>3, <1>4, OthersOK DEF TransferInv

LEMMA CopyOK ==
  ASSUME Move!FileTransferAssumption, TransferInv, NEW t \in Transfer, Move!Copy(t)
  PROVE  TransferInv'
  <1>1. Move!TypeOK' /\ (pc \in [Transfer -> Before \cup After])'
    BY DEF Before, After, TransferInv, Move!TypeOK, Move!Content, Move!Copy, Move!Goto,
           Move!EndsAt, Move!disk, Move!Works, Move!InThread, Move!Makes, Move!Temporary,
           CommitOK, TransferOK
  <1>2. Still(t)
    BY DEF TransferInv, Move!TypeOK, Still, TransferOK, CommitOK, Before, After, Move!Copy,
           Move!Goto, Move!EndsAt, Move!disk, Move!Works, Move!InThread, Move!Makes,
           Move!Temporary
  <1>3. TransferOK(t)'
    <2>1. CommitOK(t)'
      BY DEF Move!FileTransferAssumption, TransferInv, Move!TypeOK, ContentOK, TransferOK,
             CommitOK, LitterOK, Before, After, Move!Copy, Move!Goto, Move!EndsAt,
             Move!disk, Move!Works, Move!InThread, Move!Makes, Move!Temporary
    <2>2. LitterOK(t)'
      BY DEF TransferInv, Move!TypeOK, TransferOK, LitterOK, CommitOK, RowOK, Move!Packed,
             Move!IsPacked, Before, After, Move!Copy, Move!Goto, Move!EndsAt, Move!disk,
             Move!Works, Move!InThread, Move!Makes, Move!Temporary
    <2>3. RowOK(t)'
      BY DEF TransferInv, Move!TypeOK, TransferOK, CommitOK, RowOK, Move!Running, Before,
             After, Move!Copy, Move!Goto, Move!EndsAt, Move!disk, Move!Works, Move!InThread,
             Move!Makes, Move!Temporary
    <2>4. QED
      BY <2>1, <2>2, <2>3 DEF TransferOK
  <1>4. ContentOK' /\ Move!NothingIsLost'
    BY SameFiles DEF Move!disk, Move!Copy, Move!Goto, Move!EndsAt, Move!Works,
                     Move!InThread, Move!Makes, Move!Temporary
  <1>5. QED
    BY <1>1, <1>2, <1>3, <1>4, OthersOK DEF TransferInv

LEMMA PackOK ==
  ASSUME Move!FileTransferAssumption, TransferInv, NEW t \in Transfer, Move!Pack(t)
  PROVE  TransferInv'
  <1>1. Move!TypeOK' /\ (pc \in [Transfer -> Before \cup After])'
    BY DEF Before, After, TransferInv, Move!TypeOK, Move!Content, Move!Pack, Move!Goto,
           Move!EndsAt, Move!disk, Move!Works, Move!InThread, Move!Makes, Move!Packed,
           Move!Temporary, CommitOK, TransferOK
  <1>2. Still(t)
    BY DEF TransferInv, Move!TypeOK, Still, TransferOK, CommitOK, Before, After, Move!Pack,
           Move!Goto, Move!EndsAt, Move!disk, Move!Works, Move!InThread, Move!Makes,
           Move!Packed, Move!Temporary
  <1>3. TransferOK(t)'
    <2>1. CommitOK(t)'
      BY DEF TransferInv, TransferOK, CommitOK, Before, After, Move!Pack, Move!Goto,
             Move!Works
    <2>2. LitterOK(t)'
      BY DEF TransferInv, Move!TypeOK, TransferOK, LitterOK, CommitOK, RowOK, Move!Packed,
             Move!IsPacked, Before, After, Move!Pack, Move!Goto, Move!EndsAt, Move!disk,
             Move!Works, Move!InThread, Move!Makes, Move!Temporary
    <2>3. RowOK(t)'
      BY DEF TransferInv, Move!TypeOK, TransferOK, CommitOK, RowOK, Move!Running, Before,
             After, Move!Pack, Move!Goto, Move!EndsAt, Move!disk, Move!Works, Move!InThread,
             Move!Makes, Move!Packed, Move!Temporary
    <2>4. QED
      BY <2>1, <2>2, <2>3 DEF TransferOK
  <1>4. ContentOK' /\ Move!NothingIsLost'
    BY SameFiles DEF Move!disk, Move!Pack, Move!Goto, Move!EndsAt, Move!Works,
                     Move!InThread, Move!Makes, Move!Packed, Move!Temporary
  <1>5. QED
    BY <1>1, <1>2, <1>3, <1>4, OthersOK DEF TransferInv

LEMMA DownloadOK ==
  ASSUME Move!FileTransferAssumption, TransferInv, NEW t \in Transfer, Move!Download(t)
  PROVE  TransferInv'
  <1>1. Move!TypeOK' /\ (pc \in [Transfer -> Before \cup After])'
    BY DEF Before, After, TransferInv, Move!TypeOK, Move!Content, Move!Download, Move!Send,
           Move!Goto, Move!EndsAt, Move!disk, Move!Works, Move!InThread, Move!Makes,
           Move!Temporary, CommitOK, TransferOK
  <1>2. Still(t)
    BY DEF TransferInv, Move!TypeOK, Still, TransferOK, CommitOK, Before, After,
           Move!Download, Move!Send, Move!Goto, Move!EndsAt, Move!disk, Move!Works,
           Move!InThread, Move!Makes, Move!Temporary
  <1>3. TransferOK(t)'
    <2>1. CommitOK(t)'
      BY DEF Move!FileTransferAssumption, TransferInv, Move!TypeOK, ContentOK, TransferOK,
             CommitOK, LitterOK, Before, After, Move!Download, Move!Send, Move!Goto,
             Move!EndsAt, Move!disk, Move!Works, Move!InThread, Move!Makes, Move!Temporary
    <2>2. LitterOK(t)'
      BY DEF TransferInv, Move!TypeOK, TransferOK, LitterOK, CommitOK, RowOK, Move!Packed,
             Move!IsPacked, Before, After, Move!Download, Move!Send, Move!Goto, Move!EndsAt,
             Move!disk, Move!Works, Move!InThread, Move!Makes, Move!Temporary
    <2>3. RowOK(t)'
      BY DEF TransferInv, Move!TypeOK, TransferOK, CommitOK, RowOK, Move!Running, Before,
             After, Move!Download, Move!Send, Move!Goto, Move!EndsAt, Move!disk, Move!Works,
             Move!InThread, Move!Makes, Move!Temporary
    <2>4. QED
      BY <2>1, <2>2, <2>3 DEF TransferOK
  <1>4. ContentOK' /\ Move!NothingIsLost'
    BY SameFiles DEF Move!disk, Move!Download, Move!Send, Move!Goto, Move!EndsAt,
                     Move!Works, Move!InThread, Move!Makes, Move!Temporary
  <1>5. QED
    BY <1>1, <1>2, <1>3, <1>4, OthersOK DEF TransferInv

LEMMA UploadOK ==
  ASSUME Move!FileTransferAssumption, TransferInv, NEW t \in Transfer, Move!Upload(t)
  PROVE  TransferInv'
  <1>1. Move!TypeOK' /\ (pc \in [Transfer -> Before \cup After])'
    BY DEF Before, After, TransferInv, Move!TypeOK, Move!Content, Move!Upload, Move!Send,
           Move!Goto, Move!EndsAt, Move!disk, Move!Works, Move!InThread, Move!Makes,
           Move!Temporary, CommitOK, TransferOK
  <1>2. Still(t)
    BY DEF TransferInv, Move!TypeOK, Still, TransferOK, CommitOK, Before, After,
           Move!Upload, Move!Send, Move!Goto, Move!EndsAt, Move!disk, Move!Works,
           Move!InThread, Move!Makes, Move!Temporary
  <1>3. TransferOK(t)'
    <2>1. CommitOK(t)'
      BY DEF Move!FileTransferAssumption, TransferInv, Move!TypeOK, ContentOK, TransferOK,
             CommitOK, LitterOK, Before, After, Move!Upload, Move!Send, Move!Goto,
             Move!EndsAt, Move!disk, Move!Works, Move!InThread, Move!Makes, Move!Temporary
    <2>2. LitterOK(t)'
      BY DEF TransferInv, Move!TypeOK, TransferOK, LitterOK, CommitOK, RowOK, Move!Packed,
             Move!IsPacked, Before, After, Move!Upload, Move!Send, Move!Goto, Move!EndsAt,
             Move!disk, Move!Works, Move!InThread, Move!Makes, Move!Temporary
    <2>3. RowOK(t)'
      BY DEF TransferInv, Move!TypeOK, TransferOK, CommitOK, RowOK, Move!Running, Before,
             After, Move!Upload, Move!Send, Move!Goto, Move!EndsAt, Move!disk, Move!Works,
             Move!InThread, Move!Makes, Move!Temporary
    <2>4. QED
      BY <2>1, <2>2, <2>3 DEF TransferOK
  <1>4. ContentOK' /\ Move!NothingIsLost'
    BY SameFiles DEF Move!disk, Move!Upload, Move!Send, Move!Goto, Move!EndsAt, Move!Works,
                     Move!InThread, Move!Makes, Move!Temporary
  <1>5. QED
    BY <1>1, <1>2, <1>3, <1>4, OthersOK DEF TransferInv

LEMMA ExtractOK ==
  ASSUME Move!FileTransferAssumption, TransferInv, NEW t \in Transfer, Move!Extract(t)
  PROVE  TransferInv'
  <1>1. Move!TypeOK' /\ (pc \in [Transfer -> Before \cup After])'
    BY DEF Before, After, TransferInv, Move!TypeOK, Move!Content, Move!Extract, Move!Goto,
           Move!EndsAt, Move!disk, Move!Works, Move!InThread, Move!Makes, Move!Temporary,
           CommitOK, TransferOK
  <1>2. Still(t)
    BY DEF TransferInv, Move!TypeOK, Still, TransferOK, CommitOK, Before, After,
           Move!Extract, Move!Goto, Move!EndsAt, Move!disk, Move!Works, Move!InThread,
           Move!Makes, Move!Temporary
  <1>3. TransferOK(t)'
    <2>1. CommitOK(t)'
      BY DEF Move!FileTransferAssumption, TransferInv, Move!TypeOK, ContentOK, TransferOK,
             CommitOK, LitterOK, Before, After, Move!Extract, Move!Goto, Move!EndsAt,
             Move!disk, Move!Works, Move!InThread, Move!Makes, Move!Temporary
    <2>2. LitterOK(t)'
      BY DEF TransferInv, Move!TypeOK, TransferOK, LitterOK, CommitOK, RowOK, Move!Packed,
             Move!IsPacked, Before, After, Move!Extract, Move!Goto, Move!EndsAt, Move!disk,
             Move!Works, Move!InThread, Move!Makes, Move!Temporary
    <2>3. RowOK(t)'
      BY DEF TransferInv, Move!TypeOK, TransferOK, CommitOK, RowOK, Move!Running, Before,
             After, Move!Extract, Move!Goto, Move!EndsAt, Move!disk, Move!Works,
             Move!InThread, Move!Makes, Move!Temporary
    <2>4. QED
      BY <2>1, <2>2, <2>3 DEF TransferOK
  <1>4. ContentOK' /\ Move!NothingIsLost'
    BY SameFiles DEF Move!disk, Move!Extract, Move!Goto, Move!EndsAt, Move!Works,
                     Move!InThread, Move!Makes, Move!Temporary
  <1>5. QED
    BY <1>1, <1>2, <1>3, <1>4, OthersOK DEF TransferInv

LEMMA LookOK ==
  ASSUME Move!FileTransferAssumption, TransferInv, NEW t \in Transfer, Move!Look(t)
  PROVE  TransferInv'
  <1>1. Move!TypeOK' /\ (pc \in [Transfer -> Before \cup After])'
    BY DEF Before, After, TransferInv, Move!TypeOK, Move!Content, Move!Look, Move!Goto,
           Move!EndsAt, Move!disk, CommitOK, TransferOK
  <1>2. Still(t)
    BY DEF TransferInv, Move!TypeOK, Still, TransferOK, CommitOK, Before, After, Move!Look,
           Move!Goto, Move!EndsAt, Move!disk
  <1>3. TransferOK(t)'
    <2>1. CommitOK(t)'
      BY DEF Move!FileTransferAssumption, TransferInv, Move!TypeOK, ContentOK, TransferOK,
             CommitOK, LitterOK, Before, After, Move!Look, Move!Goto, Move!EndsAt, Move!disk
    <2>2. LitterOK(t)'
      <3>1. \/ pc'[t] \in {"place", "kind"} /\ UNCHANGED hit
            \/ pc'[t] = "clean" /\ hit' = hit \cup {t}
        BY DEF TransferInv, Move!Look, Move!Goto, Move!EndsAt
      <3>2. UNCHANGED <<names, backup, job>> /\ pc[t] = "look"
        BY DEF Move!Look, Move!disk
      <3>3. QED
        BY <3>1, <3>2 DEF TransferInv, TransferOK, LitterOK, Move!Packed, Move!IsPacked,
                          Before, After
    <2>3. RowOK(t)'
      BY DEF TransferInv, Move!TypeOK, TransferOK, CommitOK, RowOK, Move!Running, Before,
             After, Move!Look, Move!Goto, Move!EndsAt, Move!disk
    <2>4. QED
      BY <2>1, <2>2, <2>3 DEF TransferOK
  <1>4. ContentOK' /\ Move!NothingIsLost'
    BY SameFiles DEF Move!disk, Move!Look, Move!Goto, Move!EndsAt
  <1>5. QED
    BY <1>1, <1>2, <1>3, <1>4, OthersOK DEF TransferInv

LEMMA KindOK ==
  ASSUME Move!FileTransferAssumption, TransferInv, NEW t \in Transfer, Move!Kind(t)
  PROVE  TransferInv'
  <1>1. Move!TypeOK' /\ (pc \in [Transfer -> Before \cup After])'
    BY DEF Before, After, TransferInv, Move!TypeOK, Move!Content, Move!Kind, Move!Goto,
           Move!EndsAt, Move!disk, CommitOK, TransferOK
  <1>2. Still(t)
    BY DEF TransferInv, Move!TypeOK, Still, TransferOK, CommitOK, Before, After, Move!Kind,
           Move!Goto, Move!EndsAt, Move!disk
  <1>3. TransferOK(t)'
    <2>1. CommitOK(t)'
      BY DEF Move!FileTransferAssumption, TransferInv, Move!TypeOK, ContentOK, TransferOK,
             CommitOK, LitterOK, Before, After, Move!Kind, Move!Goto, Move!EndsAt, Move!disk
    <2>2. LitterOK(t)'
      BY DEF TransferInv, Move!TypeOK, TransferOK, LitterOK, CommitOK, RowOK, Move!Packed,
             Move!IsPacked, Before, After, Move!Kind, Move!Goto, Move!EndsAt, Move!disk
    <2>3. RowOK(t)'
      BY DEF TransferInv, Move!TypeOK, TransferOK, CommitOK, RowOK, Move!Running, Before,
             After, Move!Kind, Move!Goto, Move!EndsAt, Move!disk
    <2>4. QED
      BY <2>1, <2>2, <2>3 DEF TransferOK
  <1>4. ContentOK' /\ Move!NothingIsLost'
    BY SameFiles DEF Move!disk, Move!Kind, Move!Goto, Move!EndsAt
  <1>5. QED
    BY <1>1, <1>2, <1>3, <1>4, OthersOK DEF TransferInv

LEMMA CleanOK ==
  ASSUME Move!FileTransferAssumption, TransferInv, NEW t \in Transfer, Move!Clean(t)
  PROVE  TransferInv'
  <1>1. Move!TypeOK' /\ (pc \in [Transfer -> Before \cup After])'
    BY DEF Before, After, TransferInv, Move!TypeOK, Move!Content, Move!Clean, Move!Goto,
           Move!EndsAt, Move!disk, CommitOK, TransferOK
  <1>2. Still(t)
    BY DEF TransferInv, Move!TypeOK, Still, TransferOK, CommitOK, Before, After, Move!Clean,
           Move!Goto, Move!EndsAt, Move!disk
  <1>3. TransferOK(t)'
    <2>1. CommitOK(t)'
      BY DEF Move!FileTransferAssumption, TransferInv, Move!TypeOK, ContentOK, TransferOK,
             CommitOK, LitterOK, Before, After, Move!Clean, Move!Goto, Move!EndsAt,
             Move!disk
    <2>2. LitterOK(t)'
      <3>1. /\ pc'[t] = "report" /\ UNCHANGED <<backup, job, result>>
            /\ (names'[t] = {} /\ hit' = hit) \/ t \in hit'
        BY DEF TransferInv, Move!TypeOK, Move!Clean, Move!Goto
      <3>2. pc[t] = "clean"
        BY DEF Move!Clean
      <3>3. QED
        BY <3>1, <3>2 DEF TransferInv, TransferOK, LitterOK, Move!Packed, Move!IsPacked,
                          Before, After
    <2>3. RowOK(t)'
      BY DEF TransferInv, Move!TypeOK, TransferOK, CommitOK, RowOK, Move!Running, Before,
             After, Move!Clean, Move!Goto, Move!EndsAt, Move!disk
    <2>4. QED
      BY <2>1, <2>2, <2>3 DEF TransferOK
  <1>4. ContentOK' /\ Move!NothingIsLost'
    BY SameFiles DEF Move!disk, Move!Clean, Move!Goto, Move!EndsAt
  <1>5. QED
    BY <1>1, <1>2, <1>3, <1>4, OthersOK DEF TransferInv

LEMMA TransferFinishOK ==
  ASSUME Move!FileTransferAssumption, TransferInv, NEW t \in Transfer, Move!Finish(t)
  PROVE  TransferInv'
  <1>1. Move!TypeOK' /\ (pc \in [Transfer -> Before \cup After])'
    BY DEF Before, After, TransferInv, Move!TypeOK, Move!Content, Move!Finish, Move!Goto,
           Move!EndsAt, Move!disk, CommitOK, TransferOK
  <1>2. Still(t)
    BY DEF TransferInv, Move!TypeOK, Still, TransferOK, CommitOK, Before, After,
           Move!Finish, Move!Goto, Move!EndsAt, Move!disk
  <1>3. TransferOK(t)'
    <2>1. CommitOK(t)'
      BY DEF Move!FileTransferAssumption, TransferInv, Move!TypeOK, ContentOK, TransferOK,
             CommitOK, LitterOK, Before, After, Move!Finish, Move!Goto, Move!EndsAt,
             Move!disk
    <2>2. LitterOK(t)'
      BY DEF TransferInv, Move!TypeOK, TransferOK, LitterOK, CommitOK, RowOK, Move!Packed,
             Move!IsPacked, Before, After, Move!Finish, Move!Goto, Move!EndsAt, Move!disk
    <2>3. RowOK(t)'
      BY DEF TransferInv, Move!TypeOK, TransferOK, CommitOK, RowOK, Move!Running, Before,
             After, Move!Finish, Move!Goto, Move!EndsAt, Move!disk
    <2>4. QED
      BY <2>1, <2>2, <2>3 DEF TransferOK
  <1>4. ContentOK' /\ Move!NothingIsLost'
    BY SameFiles DEF Move!disk, Move!Finish, Move!Goto, Move!EndsAt
  <1>5. QED
    BY <1>1, <1>2, <1>3, <1>4, OthersOK DEF TransferInv

LEMMA DeleteRowOK ==
  ASSUME Move!FileTransferAssumption, TransferInv, NEW t \in Transfer, Move!DeleteRow(t)
  PROVE  TransferInv'
  <1>1. Move!TypeOK' /\ (pc \in [Transfer -> Before \cup After])'
    BY DEF Before, After, TransferInv, Move!TypeOK, Move!Content, Move!DeleteRow, Move!disk,
           CommitOK, TransferOK
  <1>2. Still(t)
    BY DEF TransferInv, Move!TypeOK, Still, TransferOK, CommitOK, Before, After,
           Move!DeleteRow, Move!disk
  <1>3. TransferOK(t)'
    <2>1. CommitOK(t)'
      BY DEF Move!FileTransferAssumption, TransferInv, Move!TypeOK, ContentOK, TransferOK,
             CommitOK, LitterOK, Before, After, Move!DeleteRow, Move!disk
    <2>2. LitterOK(t)'
      BY DEF TransferInv, Move!TypeOK, TransferOK, LitterOK, CommitOK, RowOK, Move!Packed,
             Move!IsPacked, Before, After, Move!DeleteRow, Move!disk
    <2>3. RowOK(t)'
      BY DEF TransferInv, Move!TypeOK, TransferOK, CommitOK, RowOK, Move!Running, Before,
             After, Move!DeleteRow, Move!disk
    <2>4. QED
      BY <2>1, <2>2, <2>3 DEF TransferOK
  <1>4. ContentOK' /\ Move!NothingIsLost'
    BY SameFiles DEF Move!disk, Move!DeleteRow
  <1>5. QED
    BY <1>1, <1>2, <1>3, <1>4, OthersOK DEF TransferInv

LEMMA AsideOK ==
  ASSUME Move!FileTransferAssumption, TransferInv, NEW t \in Transfer, Move!Aside(t)
  PROVE  TransferInv'
  <1>1. Move!TypeOK' /\ (pc \in [Transfer -> Before \cup After])'
    BY DEF Before, After, TransferInv, Move!TypeOK, Move!Content, Move!Aside, Move!Goto,
           Move!EndsAt, Move!disk, CommitOK, TransferOK
  <1>2. Still(t)
    BY DEF TransferInv, Move!TypeOK, Still, TransferOK, CommitOK, Before, After, Move!Aside,
           Move!Goto, Move!EndsAt, Move!disk
  <1>3. TransferOK(t)'
    <2>1. CommitOK(t)'
      BY DEF Move!FileTransferAssumption, TransferInv, Move!TypeOK, ContentOK, TransferOK,
             CommitOK, LitterOK, Before, After, Move!Aside, Move!Goto, Move!EndsAt,
             Move!disk
    <2>2. LitterOK(t)'
      BY DEF TransferInv, Move!TypeOK, TransferOK, LitterOK, CommitOK, RowOK, Move!Packed,
             Move!IsPacked, Before, After, Move!Aside, Move!Goto, Move!EndsAt, Move!disk
    <2>3. RowOK(t)'
      BY DEF TransferInv, Move!TypeOK, TransferOK, CommitOK, RowOK, Move!Running, Before,
             After, Move!Aside, Move!Goto, Move!EndsAt, Move!disk
    <2>4. QED
      BY <2>1, <2>2, <2>3 DEF TransferOK
  <1>4. ContentOK' /\ Move!NothingIsLost'
    <2>1. ContentOK'
      BY DEF TransferInv, Move!TypeOK, ContentOK, TransferOK, CommitOK, Move!Aside,
             Move!Goto, Move!EndsAt, Move!disk
    <2>2. Move!NothingIsLost'
      BY DEF Move!FileTransferAssumption, TransferInv, Move!TypeOK, Move!NothingIsLost,
             TransferOK, CommitOK, Before, After, Move!Aside, Move!Goto, Move!EndsAt,
             Move!disk
    <2>3. QED
      BY <2>1, <2>2
  <1>5. QED
    BY <1>1, <1>2, <1>3, <1>4, OthersOK DEF TransferInv

LEMMA SwapOK ==
  ASSUME Move!FileTransferAssumption, TransferInv, NEW t \in Transfer, Move!Swap(t)
  PROVE  TransferInv'
  <1>1. Move!TypeOK' /\ (pc \in [Transfer -> Before \cup After])'
    BY DEF Before, After, TransferInv, Move!TypeOK, Move!Content, Move!Swap, Move!Goto,
           Move!EndsAt, Move!disk, Move!Committed, Move!IsPacked, CommitOK, TransferOK
  <1>2. Still(t)
    BY DEF TransferInv, Move!TypeOK, Still, TransferOK, CommitOK, Before, After, Move!Swap,
           Move!Goto, Move!EndsAt, Move!disk, Move!Committed, Move!IsPacked
  <1>3. TransferOK(t)'
    <2>1. CommitOK(t)'
      <3>1. pc'[t] \in {"drop", "clean", "report"} /\ UNCHANGED backup
        BY DEF TransferInv, Move!Swap, Move!Goto, Move!EndsAt
      <3>2. committed' = committed \cup {t} /\ last' = t /\ pc[t] \in {"place", "swap"}
        BY DEF Move!Swap, Move!Committed
      <3>3. t # backup[t]
        BY <3>2 DEF TransferInv, TransferOK, CommitOK, After, Move!FileTransferAssumption
      <3>4. QED
        BY <3>1, <3>2, <3>3 DEF TransferInv, TransferOK, CommitOK, After
    <2>2. LitterOK(t)'
      <3>1. /\ UNCHANGED <<backup, job, hit>>
            /\ names'[t] = IF Move!IsPacked(t) THEN names[t] ELSE names[t] \ {"stage"}
        BY DEF TransferInv, Move!TypeOK, Move!Swap, Move!Committed
      <3>2. CASE pc[t] = "swap"
        <4>1. pc'[t] = "drop"
          BY <3>2 DEF TransferInv, Move!Swap, Move!Goto
        <4>2. Move!IsPacked(t)' \/ names'[t] = {}
          BY <3>1, <3>2
          DEF TransferInv, Move!TypeOK, TransferOK, LitterOK, Move!IsPacked, Move!Temporary,
              Before
        <4>3. QED
          BY <3>1, <3>2, <4>1, <4>2 DEF TransferInv, TransferOK, LitterOK, Move!IsPacked,
                 Move!Packed, Before
      <3>3. CASE pc[t] = "place"
        <4>1. pc'[t] = IF Move!IsPacked(t) THEN "clean" ELSE "report"
          BY <3>3 DEF TransferInv, Move!Swap, Move!Goto, Move!EndsAt
        <4>2. backup[t] = None
          BY <3>3 DEF TransferInv, TransferOK, CommitOK, After
        <4>3. ~Move!IsPacked(t) => names'[t] = {}
          <5>1. ~Move!IsPacked(t) => "target archive" \notin names[t]
            BY <3>3 DEF TransferInv, TransferOK, LitterOK, Before
          <5>2. ~Move!IsPacked(t) => names[t] \subseteq {"stage"}
            BY <5>1 DEF TransferInv, Move!TypeOK, Move!IsPacked, Move!Temporary
          <5>3. QED
            BY <3>1, <5>2
        <4>4. QED
          BY <3>1, <4>1, <4>2, <4>3 DEF LitterOK, Before
      <3>4. QED
        BY <3>2, <3>3 DEF Move!Swap
    <2>3. RowOK(t)'
      BY DEF TransferInv, Move!TypeOK, TransferOK, CommitOK, RowOK, Move!Running, Before,
             After, Move!Swap, Move!Goto, Move!EndsAt, Move!disk, Move!Committed,
             Move!IsPacked
    <2>4. QED
      BY <2>1, <2>2, <2>3 DEF TransferOK
  <1>4. ContentOK' /\ Move!NothingIsLost'
    <2>1. ContentOK'
      BY DEF TransferInv, Move!TypeOK, ContentOK, TransferOK, CommitOK, Move!Swap,
             Move!Goto, Move!EndsAt, Move!disk, Move!Committed, Move!IsPacked
    <2>2. Move!NothingIsLost'
      BY DEF Move!FileTransferAssumption, TransferInv, Move!TypeOK, Move!NothingIsLost,
             TransferOK, CommitOK, Before, After, Move!Swap, Move!Goto, Move!EndsAt,
             Move!disk, Move!Committed, Move!IsPacked
    <2>3. QED
      BY <2>1, <2>2
  <1>5. QED
    BY <1>1, <1>2, <1>3, <1>4, OthersOK DEF TransferInv

LEMMA RenameFailsOK ==
  ASSUME Move!FileTransferAssumption, TransferInv, NEW t \in Transfer, Move!RenameFails(t)
  PROVE  TransferInv'
  <1> DEFINE Nothing == UNCHANGED Move!disk
             PutAside == /\ pc[t] = "aside" /\ target' = None
                         /\ backup' = [backup EXCEPT ![t] = target]
                         /\ UNCHANGED <<names, whole, last, committed>>
             Renamed == /\ pc[t] # "aside" /\ Move!Committed(t) /\ UNCHANGED backup
  <1>1. /\ pc[t] \in {"aside", "place", "swap"}
        /\ pc' = [pc EXCEPT ![t] = Move!AfterRename(t)]
        /\ Move!AfterRename(t) = (IF pc[t] = "swap" THEN "restore" ELSE "clean")
        /\ result' = [result EXCEPT ![t] = "error"] /\ hit' = hit \cup {t}
        /\ UNCHANGED <<world, job, cancel, row, undone>>
    BY DEF Move!RenameFails, Move!EndsAt, Move!Goto, Move!AfterRename
  <1>2. Nothing \/ PutAside \/ Renamed
    BY DEF Move!RenameFails
  <1>3. pc'[t] = (IF pc[t] = "swap" THEN "restore" ELSE "clean") /\ result'[t] = "error"
    BY <1>1 DEF TransferInv, Move!TypeOK
  <1>4. t \notin committed /\ (pc[t] # "swap" => backup[t] = None)
    BY <1>1 DEF TransferInv, TransferOK, CommitOK, After
  <1> HIDE DEF Nothing, PutAside, Renamed
  <1>5. Move!TypeOK' /\ (pc \in [Transfer -> Before \cup After])'
    <2>1. /\ cancel' \in [Transfer -> BOOLEAN]
          /\ result' \in [Transfer -> {"none", "done", "error", "cancelled"}]
          /\ row' \in [Transfer -> {"none", "active", "done", "error", "cancelled"}]
          /\ hit' \subseteq Transfer /\ undone' \in BOOLEAN
          /\ pc' \in [Transfer -> Before \cup After]
      BY <1>1 DEF TransferInv, Move!TypeOK, Before, After
    <2>2. /\ names' \in [Transfer -> SUBSET Move!Temporary]
          /\ whole' \in [Transfer -> BOOLEAN]
          /\ target' \in Move!Content /\ backup' \in [Transfer -> Move!Content]
          /\ last' \in Move!Content
          /\ committed' \subseteq Transfer
      BY <1>2 DEF TransferInv, Move!TypeOK, Nothing, PutAside, Renamed, Move!disk,
                  Move!Committed, Move!Content
    <2>3. QED
      BY <2>1, <2>2 DEF Move!TypeOK, Move!Content
  <1>6. Still(t)
    BY <1>1, <1>2, <1>4
    DEF TransferInv, Move!TypeOK, Still, Nothing, PutAside, Renamed, Move!disk,
        Move!Committed
  <1>7. CommitOK(t)'
    <2>1. backup'[t] \in committed \cup {Old, None} /\ committed \subseteq committed'
      BY <1>2 DEF TransferInv, Move!TypeOK, ContentOK, TransferOK, CommitOK, Nothing,
                  PutAside, Renamed, Move!disk, Move!Committed
    <2>2. QED
      BY <1>3, <2>1 DEF CommitOK, After
  <1>8. LitterOK(t)'
    BY <1>1, <1>3 DEF LitterOK, Before
  <1>9. RowOK(t)'
    BY <1>1, <1>3 DEF TransferInv, TransferOK, CommitOK, RowOK, Move!Running, After
  <1>10. ContentOK'
    BY <1>2 DEF TransferInv, ContentOK, Nothing, PutAside, Renamed, Move!disk,
                Move!Committed
  <1>11. Move!NothingIsLost'
    <2>1. CASE Nothing
      BY <2>1, SameFiles, <1>1 DEF Nothing, Move!disk
    <2>2. CASE PutAside
      <3>1. /\ last' = last /\ undone' = undone /\ backup[t] = None /\ backup'[t] = target
            /\ \A u \in Transfer \ {t} : backup'[u] = backup[u]
        BY <1>1, <1>4, <2>2 DEF PutAside, TransferInv, Move!TypeOK
      <3>2. QED
        BY <3>1 DEF TransferInv, Move!NothingIsLost
    <2>3. CASE Renamed
      BY <2>3 DEF Renamed, Move!Committed, Move!NothingIsLost
    <2>4. QED
      BY <1>2, <2>1, <2>2, <2>3
  <1>12. QED
    BY <1>5, <1>6, <1>7, <1>8, <1>9, <1>10, <1>11, OthersOK DEF TransferInv, TransferOK

LEMMA RestoreOK ==
  ASSUME Move!FileTransferAssumption, TransferInv, NEW t \in Transfer, Move!Restore(t)
  PROVE  TransferInv'
  <1>1. Move!TypeOK' /\ (pc \in [Transfer -> Before \cup After])'
    BY DEF Before, After, TransferInv, Move!TypeOK, Move!Content, Move!Restore, Move!Goto,
           Move!EndsAt, Move!disk, CommitOK, TransferOK
  <1>2. Still(t)
    BY DEF TransferInv, Move!TypeOK, Still, TransferOK, CommitOK, Before, After,
           Move!Restore, Move!Goto, Move!EndsAt, Move!disk
  <1>3. TransferOK(t)'
    <2>1. CommitOK(t)'
      BY DEF Move!FileTransferAssumption, TransferInv, Move!TypeOK, ContentOK, TransferOK,
             CommitOK, LitterOK, Before, After, Move!Restore, Move!Goto, Move!EndsAt,
             Move!disk
    <2>2. LitterOK(t)'
      BY DEF TransferInv, Move!TypeOK, TransferOK, LitterOK, CommitOK, RowOK, Move!Packed,
             Move!IsPacked, Before, After, Move!Restore, Move!Goto, Move!EndsAt, Move!disk
    <2>3. RowOK(t)'
      BY DEF TransferInv, Move!TypeOK, TransferOK, CommitOK, RowOK, Move!Running, Before,
             After, Move!Restore, Move!Goto, Move!EndsAt, Move!disk
    <2>4. QED
      BY <2>1, <2>2, <2>3 DEF TransferOK
  <1>4. ContentOK' /\ Move!NothingIsLost'
    <2>1. ContentOK'
      BY DEF TransferInv, Move!TypeOK, ContentOK, TransferOK, CommitOK, Move!Restore,
             Move!Goto, Move!EndsAt, Move!disk
    <2>2. Move!NothingIsLost'
      BY DEF Move!FileTransferAssumption, TransferInv, Move!TypeOK, Move!NothingIsLost,
             TransferOK, CommitOK, Before, After, Move!Restore, Move!Goto, Move!EndsAt,
             Move!disk
    <2>3. QED
      BY <2>1, <2>2
  <1>5. QED
    BY <1>1, <1>2, <1>3, <1>4, OthersOK DEF TransferInv

LEMMA DropOK ==
  ASSUME Move!FileTransferAssumption, TransferInv, NEW t \in Transfer, Move!Drop(t)
  PROVE  TransferInv'
  <1>1. Move!TypeOK' /\ (pc \in [Transfer -> Before \cup After])'
    BY DEF Before, After, TransferInv, Move!TypeOK, Move!Content, Move!Drop, Move!Goto,
           Move!EndsAt, Move!disk, Move!IsPacked, CommitOK, TransferOK
  <1>2. Still(t)
    BY DEF TransferInv, Move!TypeOK, Still, TransferOK, CommitOK, Before, After, Move!Drop,
           Move!Goto, Move!EndsAt, Move!disk, Move!IsPacked
  <1>3. TransferOK(t)'
    <2>1. CommitOK(t)'
      BY DEF Move!FileTransferAssumption, TransferInv, Move!TypeOK, ContentOK, TransferOK,
             CommitOK, LitterOK, Before, After, Move!Drop, Move!Goto, Move!EndsAt,
             Move!disk, Move!IsPacked
    <2>2. LitterOK(t)'
      BY DEF TransferInv, Move!TypeOK, TransferOK, LitterOK, CommitOK, RowOK, Move!Packed,
             Move!IsPacked, Before, After, Move!Drop, Move!Goto, Move!EndsAt, Move!disk
    <2>3. RowOK(t)'
      BY DEF TransferInv, Move!TypeOK, TransferOK, CommitOK, RowOK, Move!Running, Before,
             After, Move!Drop, Move!Goto, Move!EndsAt, Move!disk, Move!IsPacked
    <2>4. QED
      BY <2>1, <2>2, <2>3 DEF TransferOK
  <1>4. ContentOK' /\ Move!NothingIsLost'
    <2>1. ContentOK'
      BY DEF TransferInv, Move!TypeOK, ContentOK, TransferOK, CommitOK, Move!Drop,
             Move!Goto, Move!EndsAt, Move!disk, Move!IsPacked
    <2>2. Move!NothingIsLost'
      BY DEF Move!FileTransferAssumption, TransferInv, Move!TypeOK, Move!NothingIsLost,
             TransferOK, CommitOK, Before, After, Move!Drop, Move!Goto, Move!EndsAt,
             Move!disk, Move!IsPacked
    <2>3. QED
      BY <2>1, <2>2
  <1>5. QED
    BY <1>1, <1>2, <1>3, <1>4, OthersOK DEF TransferInv

LEMMA RestartOK ==
  ASSUME Move!FileTransferAssumption, TransferInv, Move!Restart
  PROVE  TransferInv'
  <1>1. Move!TypeOK' /\ (pc \in [Transfer -> Before \cup After])'
    BY DEF Before, After, TransferInv, Move!TypeOK, Move!Content, Move!Restart, Move!disk,
           Move!Interrupted
  <1>2. ASSUME NEW t \in Transfer
        PROVE  TransferOK(t)'
    <2>1. CommitOK(t)'
      BY DEF TransferInv, TransferOK, CommitOK, Move!Restart, Move!disk, Move!Running,
             Before, After
    <2>2. LitterOK(t)'
      BY DEF TransferInv, TransferOK, CommitOK, LitterOK, Move!Restart, Move!disk,
             Move!Running, Move!Packed, Move!IsPacked, Before, After
    <2>3. RowOK(t)'
      BY DEF TransferInv, TransferOK, CommitOK, RowOK, Move!Restart, Move!disk,
             Move!Running, Move!Interrupted, Before, After
    <2>4. QED
      BY <2>1, <2>2, <2>3 DEF TransferOK
  <1>3. ContentOK' /\ Move!NothingIsLost'
    BY SameFiles DEF Move!Restart, Move!disk
  <1>4. QED
    BY <1>1, <1>2, <1>3 DEF TransferInv

LEMMA TransferNextOK ==
  ASSUME Move!FileTransferAssumption, TransferInv, [Move!Next]_Move!vars
  PROVE  TransferInv'
  <1>1. CASE UNCHANGED Move!vars
    BY <1>1 DEF Move!vars, TransferInv, Move!TypeOK, Move!Content, ContentOK, TransferOK,
                CommitOK, LitterOK, RowOK, Move!Running, Move!Packed, Move!IsPacked,
                Move!NothingIsLost
  <1>2. CASE Move!Restart
    BY <1>2, RestartOK
  <1>3. ASSUME NEW t \in Transfer,
               \/ Move!Start(t) \/ Move!Cancel(t) \/ Move!HearCancel(t) \/ Move!Fail(t)
               \/ Move!Validate(t) \/ Move!Probe(t) \/ Move!Copy(t)
               \/ Move!Pack(t) \/ Move!Download(t) \/ Move!Upload(t) \/ Move!Extract(t)
        PROVE  TransferInv'
    BY <1>3, StartOK, TransferCancelOK, HearCancelOK, FailOK, ValidateOK, ProbeOK, CopyOK,
       PackOK,
       DownloadOK, UploadOK, ExtractOK
  <1>4. ASSUME NEW t \in Transfer,
               \/ Move!Look(t) \/ Move!Kind(t) \/ Move!Aside(t) \/ Move!Swap(t)
               \/ Move!RenameFails(t)
               \/ Move!Restore(t) \/ Move!Drop(t) \/ Move!Clean(t) \/ Move!Finish(t)
               \/ Move!DeleteRow(t)
        PROVE  TransferInv'
    BY <1>4, LookOK, KindOK, AsideOK, SwapOK, RenameFailsOK, RestoreOK, DropOK, CleanOK,
       TransferFinishOK, DeleteRowOK
  <1>5. QED
    BY <1>1, <1>2, <1>3, <1>4 DEF Move!Next

LEMMA TransferInvSays ==
  ASSUME TransferInv
  PROVE  Move!TypeOK /\ Move!NothingIsLost /\ Move!LeavesNothing /\ Move!RowsAreTrue
  <1>1. Move!LeavesNothing
    BY DEF TransferInv, Move!LeavesNothing, TransferOK, LitterOK
  <1>2. Move!RowsAreTrue
    BY DEF TransferInv, Move!RowsAreTrue, TransferOK, RowOK
  <1>3. QED
    BY <1>1, <1>2 DEF TransferInv

-----------------------------------------------------------------------------

(* What Deletions takes from the community modules is what the lemmas of    *)
(* the library are about.                                                  *)
LEMMA SameOperators ==
  /\ \A S : Del!IsFiniteSet(S) <=> IsFiniteSet(S)
  /\ \A S : Del!Cardinality(S) = Cardinality(S)
  /\ \A s : Del!ToSet(s) = ToSet(s)
  /\ \A S : Del!SetToSeq(S) = SetToSeq(S)
  <1>1. \A S : Del!IsFiniteSet(S) <=> IsFiniteSet(S)
    BY DEF Del!IsFiniteSet, IsFiniteSet
  <1>2. \A S : Del!Cardinality(S) = Cardinality(S)
    BY DEF Del!Cardinality, Cardinality
  <1>3. \A s : Del!ToSet(s) = ToSet(s)
    BY DEF Del!ToSet, ToSet
  <1>4. \A S : Del!SetToSeq(S) = SetToSeq(S)
    BY <1>2 DEF Del!SetToSeq, SetToSeq, Del!IsInjective, IsInjective
  <1>5. QED
    BY <1>1, <1>2, <1>3, <1>4

Phase == {"begin", "stat", "list", "delete", "local", "over"}
Flight == {"waits", "asks", "removed", "not found", "failed", "cancelled", "network"}

PlanType ==
  /\ todo \in [Op -> Seq(Node \X Nat)] /\ found \in [Op -> 0 .. MaxEntries]
  /\ files \in [Op -> SUBSET Node] /\ dirs \in [Op -> SUBSET (Nat \X Node)]

DeletionTypeInv ==
  /\ there \subseteq Node /\ stray \subseteq Op \X Node /\ gone \subseteq Op \X Node
  /\ disturbed \subseteq Node /\ up \in BOOLEAN /\ slots \in Nat
  /\ deletion \in [Op -> Phase] /\ deleteCancel \in [Op -> BOOLEAN]
  /\ PlanType
  /\ round \in [Op -> SUBSET Node] /\ flight \in [Op -> SUBSET (Node \X Flight)]
  /\ failures \in [Op -> Nat] /\ ended \in [Op -> {"active", "done", "error", "cancelled"}]

-----------------------------------------------------------------------------
(* Requests and slots.                                                     *)
Asking == {x \in Op \X Node : <<x[2], "asks">> \in flight[x[1]]}

FlightOK(o) ==
  /\ flight[o] # {} => deletion[o] = "delete"
  /\ IsFiniteSet(flight[o]) /\ Cardinality(flight[o]) <= Concurrent
  /\ \A f, g \in flight[o] : f[1] = g[1] => f = g       \* one request for a node
  /\ \A f \in flight[o] : f[1] \notin round[o]
  /\ deletion[o] # "over" => ended[o] = "active"
  /\ ended[o] = "done" => failures[o] = 0

SlotsOK == IsFiniteSet(Asking) /\ slots + Cardinality(Asking) = Concurrent

-----------------------------------------------------------------------------
(* What an operation works on is marked.                                   *)
Todo(o) == {x[1] : x \in ToSet(todo[o])}
Folders(o) == {d[2] : d \in dirs[o]}
Requested(o) == {f[1] : f \in flight[o]}

MarkedOK ==
  /\ \A o \in Op : Todo(o) \cup files[o] \cup Folders(o) \cup round[o] \cup Requested(o)
                     \subseteq Del!Marked(o)
  /\ \A s \in stray \cup gone : s[2] \in Del!Marked(s[1])

-----------------------------------------------------------------------------
(* What was marked has gone, or is still ahead, or has failed.             *)
Flying(o) == {n \in Node : \E s \in {"waits", "asks", "cancelled", "network"} :
                             <<n, s>> \in flight[o]}
Failing(o) == failures[o] > 0 \/ \E n \in Node : <<n, "failed">> \in flight[o]

AheadOf(o) ==
  CASE deletion[o] = "begin" -> Node
    [] deletion[o] \in {"stat", "list"} -> Todo(o) \cup files[o] \cup Folders(o)
    [] deletion[o] = "local" -> Todo(o)
    [] deletion[o] = "delete" -> round[o] \cup Folders(o) \cup Flying(o)
    [] deletion[o] = "over" -> {}

RootsOK(o) ==
  \A n \in Del!Roots(o) \cap there :
    n \in disturbed \cup AheadOf(o) \/ Failing(o) \/ ended[o] \in {"error", "cancelled"}

-----------------------------------------------------------------------------
(* What fails has a cause.                                                 *)
OthersTook(o) == \E g \in gone : g[1] # o /\ g[2] \in Del!Marked(o)
Cause(o) == disturbed # {} \/ ~up \/ OthersTook(o)

CauseOK(o) ==
  /\ Failing(o) => Cause(o)
  /\ \A n \in Node : <<n, "network">> \in flight[o] => ~up
  /\ ended[o] = "error" => Cause(o) \/ (found[o] = MaxEntries /\ todo[o] # <<>>)

(* While it plans it removes nothing, and what it is about to look at was  *)
(* there.                                                                  *)
SeenOK(o) ==
  deletion[o] \in {"begin", "stat", "list"} =>
          /\ \A g \in gone \cup stray : g[1] # o
          /\ \A n \in Todo(o) \cup Del!Roots(o) : n \in there \/ \E g \in gone : g[2] = n

(* What is in a folder goes before it.                                     *)
Entry(o, m, depth) ==
  \/ <<depth, m>> \in dirs[o]
  \/ deletion[o] \in {"stat", "list"} /\
             (m \in files[o] \/ <<m, depth>> \in ToSet(todo[o]))
  \/ deletion[o] = "delete" /\ m \in round[o] \cup Flying(o)

TreeOK(o) ==
  /\ \A n \in files[o] : Kind[n] # "dir"
  /\ deletion[o] = "begin" => dirs[o] = {}
  /\ deletion[o] = "list" => todo[o] # <<>> /\ Kind[Head(todo[o])[1]] = "dir"
  /\ deletion[o] \in {"stat", "list", "delete"} =>
             \A d \in dirs[o] :
               \A m \in Del!Below(d[2]) \cap there : Entry(o, m, d[1] + 1) \/ Cause(o)
  /\ deletion[o] = "delete" =>
             \A n \in round[o] \cup Flying(o) : Del!Below(n) \cap there = {} \/ Cause(o)

OpOK(o) == FlightOK(o) /\ RootsOK(o) /\ CauseOK(o) /\ SeenOK(o) /\ TreeOK(o)

DeletionInv == DeletionTypeInv /\ SlotsOK /\ MarkedOK /\ \A o \in Op : OpOK(o)

-----------------------------------------------------------------------------
(* Trees and sequences.                                                    *)

LEMMA UnderSelf ==
  ASSUME NEW n \in Node
  PROVE  n \in Del!Under[n] /\ Del!Under[n] \subseteq Node
  BY DEF Del!Under

LEMMA MarkedClosed ==
  ASSUME Del!DeletionsAssumption, NEW o \in Op
  PROVE  /\ Del!Roots(o) \subseteq Node /\ Del!Roots(o) \subseteq Del!Marked(o)
         /\ Del!Marked(o) \subseteq Node
         /\ Del!Closed(Del!Marked(o))
         /\ \A n \in Del!Marked(o) : Del!Under[n] \subseteq Del!Marked(o)
  <1>1. Del!Roots(o) \subseteq Node
    BY SameOperators, LenProperties, ElementOfSeq DEF Del!DeletionsAssumption, Del!Roots,
           ToSet
  <1>2. Del!Roots(o) \subseteq Del!Marked(o) /\ Del!Marked(o) \subseteq Node
    BY <1>1, UnderSelf DEF Del!Marked
  <1>3. ASSUME NEW m \in Del!Marked(o), NEW k \in Del!Below(m)
        PROVE  k \in Del!Marked(o)
    <2>1. PICK n \in Del!Roots(o) : m \in Del!Under[n]
      BY DEF Del!Marked
    <2>2. k \in Node
      BY DEF Del!Below, Del!DeletionsAssumption
    <2>3. k \in Del!Under[n]
      BY <1>1, <2>1, <2>2 DEF Del!Under, Del!Closed
    <2>4. QED
      BY <2>1, <2>3 DEF Del!Marked
  <1>4. Del!Closed(Del!Marked(o))
    BY <1>3 DEF Del!Closed
  <1>5. \A n \in Del!Marked(o) : Del!Under[n] \subseteq Del!Marked(o)
    BY <1>2, <1>4 DEF Del!Under
  <1>6. QED
    BY <1>1, <1>2, <1>4, <1>5

LEMMA HeadOrTail ==
  ASSUME NEW S, NEW s \in Seq(S), s # <<>>
  PROVE  /\ Head(s) \in S /\ Tail(s) \in Seq(S)
         /\ ToSet(s) = {Head(s)} \cup ToSet(Tail(s))
  <1>1. /\ Len(s) \in Nat \ {0} /\ DOMAIN s = 1 .. Len(s)
        /\ Head(s) = s[1] /\ Tail(s) \in Seq(S) /\ DOMAIN Tail(s) = 1 .. Len(s) - 1
        /\ \A i \in 1 .. Len(s) - 1 : Tail(s)[i] = s[i + 1]
    BY EmptySeq, LenProperties, HeadTailProperties
  <1>2. ASSUME NEW i \in DOMAIN s, i # 1
        PROVE  s[i] \in ToSet(Tail(s))
    <2>1. i - 1 \in 1 .. Len(s) - 1 /\ Tail(s)[i - 1] = s[i]
      BY <1>1, <1>2
    <2>2. QED
      BY <1>1, <2>1 DEF ToSet
  <1>3. ASSUME NEW i \in DOMAIN Tail(s)
        PROVE  Tail(s)[i] \in ToSet(s)
    <2>1. i + 1 \in DOMAIN s /\ Tail(s)[i] = s[i + 1]
      BY <1>1
    <2>2. QED
      BY <2>1 DEF ToSet
  <1>4. s[1] \in ToSet(s) /\ s[1] \in S
    BY <1>1, ElementOfSeq DEF ToSet
  <1>5. QED
    BY <1>1, <1>2, <1>3, <1>4 DEF ToSet

LEMMA ElementsOfConcat ==
  ASSUME NEW S, NEW s \in Seq(S), NEW t \in Seq(S)
  PROVE  s \o t \in Seq(S) /\ ToSet(s \o t) = ToSet(s) \cup ToSet(t)
  <1>1. /\ DOMAIN s = 1 .. Len(s) /\ DOMAIN t = 1 .. Len(t) /\ s \o t \in Seq(S)
        /\ Len(s) \in Nat /\ Len(t) \in Nat
        /\ DOMAIN (s \o t) = 1 .. Len(s) + Len(t)
        /\ \A i \in 1 .. Len(s) + Len(t) :
             (s \o t)[i] = IF i <= Len(s) THEN s[i] ELSE t[i - Len(s)]
    BY LenProperties, ConcatProperties
  <1>2. ASSUME NEW i \in DOMAIN t
        PROVE  t[i] \in ToSet(s \o t)
    <2>1. i + Len(s) \in DOMAIN (s \o t) /\ (s \o t)[i + Len(s)] = t[i]
      BY <1>1
    <2>2. QED
      BY <2>1 DEF ToSet
  <1>3. ASSUME NEW i \in DOMAIN s
        PROVE  s[i] \in ToSet(s \o t)
    BY <1>1 DEF ToSet
  <1>4. ASSUME NEW i \in DOMAIN (s \o t)
        PROVE  (s \o t)[i] \in ToSet(s) \cup ToSet(t)
    <2>1. CASE i <= Len(s)
      BY <1>1, <2>1 DEF ToSet
    <2>2. CASE i > Len(s)
      <3>1. i - Len(s) \in DOMAIN t /\ (s \o t)[i] = t[i - Len(s)]
        BY <1>1, <2>2
      <3>2. QED
        BY <3>1 DEF ToSet
    <2>3. QED
      BY <1>1, <2>1, <2>2
  <1>5. QED
    BY <1>1, <1>2, <1>3, <1>4 DEF ToSet

LEMMA SequenceOfSet ==
  ASSUME NEW S, IsFiniteSet(S)
  PROVE  SetToSeq(S) \in Seq(S) /\ ToSet(SetToSeq(S)) = S
  <1> DEFINE n == Cardinality(S)
  <1>1. n \in Nat /\ ExistsBijection(1 .. n, S)
    BY FS_CardinalityType
  <1>2. \E f \in [1 .. n -> S] : IsInjective(f)
    BY <1>1 DEF ExistsBijection, Bijection, Injection, IsInjective
  <1>3. SetToSeq(S) \in [1 .. n -> S] /\ IsInjective(SetToSeq(S))
    BY <1>2 DEF SetToSeq
  <1>4. SetToSeq(S) \in Injection(1 .. n, S)
    BY <1>3 DEF Injection, IsInjective
  <1>5. Cardinality(1 .. n) = n
    BY <1>1, FS_Interval
  <1>6. SetToSeq(S) \in Surjection(1 .. n, S)
    BY <1>4, <1>5, FS_Injection
  <1>7. QED
    BY <1>1, <1>3, <1>6 DEF Surjection, ToSet

-----------------------------------------------------------------------------
(* What an operation that does not move sees of the others.                *)

Kept(p) ==
  /\ deletion'[p] = deletion[p] /\ todo'[p] = todo[p] /\ found'[p] = found[p]
  /\ files'[p] = files[p]
  /\ dirs'[p] = dirs[p] /\ round'[p] = round[p] /\ flight'[p] = flight[p]
  /\ failures'[p] = failures[p] /\ ended'[p] = ended[p]

(* What is there only grows by what is put back or created, what goes is   *)
(* recorded, and no request of p is carried out or left behind.            *)
Outside(p) ==
  /\ there' \subseteq there \cup disturbed'
  /\ \A n \in there \ there' : \E g \in gone' : g[2] = n
  /\ gone \subseteq gone' /\ disturbed \subseteq disturbed' /\ (up' => up)
  /\ \A g \in (gone' \cup stray') \ (gone \cup stray) : g[1] # p

LEMMA CauseStays ==
  ASSUME NEW p \in Op, Outside(p), Cause(p)
  PROVE  Cause(p)'
  BY DEF Outside, Cause, OthersTook, Del!Marked, Del!Roots

LEMMA NewIsDisturbed ==
  ASSUME NEW p \in Op, Outside(p), NEW n \in there', n \notin there
  PROVE  n \in disturbed' /\ Cause(p)'
  BY DEF Outside, Cause

LEMMA KeptOK ==
  ASSUME DeletionTypeInv, NEW p \in Op, OpOK(p), Kept(p), Outside(p)
  PROVE  OpOK(p)'
  <1>1. FlightOK(p)'
    BY DEF OpOK, FlightOK, Kept
  <1>2. RootsOK(p)'
    <2>1. AheadOf(p)' = AheadOf(p) /\ Failing(p)' = Failing(p)
            /\ Del!Roots(p)' = Del!Roots(p)
      BY DEF Kept, AheadOf, Failing, Todo, Folders, Flying, Del!Roots
    <2>2. QED
      BY <2>1 DEF OpOK, RootsOK, Kept, Outside
  <1>3. CauseOK(p)'
    <2>1. Failing(p)' = Failing(p)
      BY DEF Kept, Failing
    <2>2. QED
      BY <2>1, CauseStays DEF OpOK, CauseOK, Kept, Outside
  <1>4. SeenOK(p)'
    <2>1. Todo(p)' = Todo(p) /\ Del!Roots(p)' = Del!Roots(p)
      BY DEF Kept, Todo, Del!Roots
    <2>2. QED
      BY <2>1 DEF OpOK, SeenOK, Kept, Outside
  <1>5. TreeOK(p)'
    <2>1. \A m, d : Entry(p, m, d)' <=> Entry(p, m, d)
      BY DEF Entry, Kept, Flying
    <2>2. Flying(p)' = Flying(p) /\ \A n : Del!Below(n)' = Del!Below(n)
      BY DEF Kept, Flying, Del!Below
    <2>3. ASSUME NEW m \in there', m \in there \/ ~Cause(p)'
          PROVE  m \in there
      BY <2>3, NewIsDisturbed
    <2>4. ASSUME deletion'[p] \in {"stat", "list", "delete"}, NEW d \in dirs'[p],
                 NEW m \in Del!Below(d[2]) \cap there'
          PROVE  Entry(p, m, d[1] + 1)' \/ Cause(p)'
      BY <2>1, <2>3, <2>4, CauseStays DEF OpOK, TreeOK, Kept
    <2>5. ASSUME deletion'[p] = "delete", NEW n \in round'[p] \cup Flying(p)',
                 Del!Below(n) \cap there' # {}
          PROVE  Cause(p)'
      BY <2>2, <2>3, <2>5, CauseStays DEF OpOK, TreeOK, Kept
    <2>6. QED
      BY <2>2, <2>4, <2>5 DEF OpOK, TreeOK, Kept
  <1>6. QED
    BY <1>1, <1>2, <1>3, <1>4, <1>5 DEF OpOK

(* Steps that ask nothing of the server keep the slots.                    *)
LEMMA SameSlots ==
  ASSUME SlotsOK, slots' = slots, Asking' = Asking
  PROVE  SlotsOK'
  BY DEF SlotsOK

-----------------------------------------------------------------------------
(* The steps of a plan ask the server, and change nothing there.           *)

Quiet == UNCHANGED <<there, stray, gone, disturbed, up>>

Alone(o) == \A p \in Op \ {o} : Kept(p)

LEMMA QuietOthers ==
  ASSUME DeletionTypeInv, NEW o \in Op, \A p \in Op : OpOK(p), Quiet, Alone(o), OpOK(o)'
  PROVE  \A p \in Op : OpOK(p)'
  <1>1. \A p \in Op : Outside(p)
    BY DEF Quiet, Outside, DeletionTypeInv
  <1>2. QED
    BY <1>1, KeptOK DEF Alone

LEMMA QuietCause ==
  ASSUME Quiet, NEW o \in Op
  PROVE  /\ Cause(o)' <=> Cause(o)
         /\ Del!Roots(o)' = Del!Roots(o) /\ Del!Marked(o)' = Del!Marked(o)
         /\ \A n : Del!Below(n)' = Del!Below(n)
  BY DEF Quiet, Cause, OthersTook, Del!Marked, Del!Roots, Del!Below

(* What is left when an operation ends early.                              *)
LEMMA EndedOK ==
  ASSUME DeletionTypeInv, NEW o \in Op, OpOK(o), Quiet,
         deletion'[o] = "over", ended'[o] \in {"error", "cancelled"},
         ended'[o] = "error" => Cause(o) \/ (found'[o] = MaxEntries /\ todo'[o] # <<>>),
         flight'[o] = {}, failures'[o] = failures[o], files'[o] = files[o],
         IsFiniteSet({}) /\ Cardinality({}) = 0, Concurrent \in Nat
  PROVE  OpOK(o)'
  <1>1. FlightOK(o)' /\ RootsOK(o)' /\ SeenOK(o)' /\ TreeOK(o)'
    BY DEF FlightOK, RootsOK, SeenOK, TreeOK, OpOK, Del!Below
  <1>2. CauseOK(o)'
    BY QuietCause DEF OpOK, CauseOK, Failing
  <1>3. QED
    BY <1>1, <1>2 DEF OpOK

LEMMA BeginOK ==
  ASSUME Del!DeletionsAssumption, DeletionInv, NEW o \in Op, Del!Begin(o)
  PROVE  DeletionInv'
  <1>1. /\ Chosen[o] \in Seq(Node) /\ Len(Chosen[o]) \in Nat
        /\ DOMAIN Chosen[o] = 1 .. Len(Chosen[o])
        /\ \A i \in DOMAIN Chosen[o] : Chosen[o][i] \in Node
    BY LenProperties, ElementOfSeq DEF Del!DeletionsAssumption
  <1>2. /\ todo'[o] = [i \in DOMAIN Chosen[o] |-> <<Chosen[o][i], 0>>]
        /\ todo' = [todo EXCEPT ![o] = todo'[o]]
        /\ UNCHANGED <<deleteCancel, found, files, dirs, round, flight, failures, slots>>
        /\ Quiet
        /\ deletion[o] = "begin"
    BY DEF DeletionInv, DeletionTypeInv, PlanType, Del!Begin, Del!In, Quiet, Del!server
  <1>3. \/ deletion' = [deletion EXCEPT ![o] = "local"] /\ UNCHANGED ended
        \/ deletion' = [deletion EXCEPT ![o] = "stat"] /\ UNCHANGED ended
        \/ /\ ~up /\ deletion' = [deletion EXCEPT ![o] = "over"]
           /\ ended' = [ended EXCEPT ![o] = "error"]
    BY DEF Del!Begin, Del!Goes, Del!Ends
  <1>4. todo'[o] \in Seq(Node \X Nat) /\ Todo(o)' = Del!Roots(o)
    <2>1. ToSet(todo'[o]) = {<<n, 0>> : n \in Del!Roots(o)}
      <3>1. DOMAIN Chosen[o] = 1 .. Len(Chosen[o]) /\ ToSet(Chosen[o]) = Del!Roots(o)
        BY <1>1, SameOperators, LenProperties DEF Del!DeletionsAssumption, Del!Roots
      <3>2. QED
        BY <1>1, <1>2, <3>1 DEF ToSet
    <2>2. todo'[o] \in [1 .. Len(Chosen[o]) -> Node \X Nat]
      BY <1>1, <1>2
    <2>3. todo'[o] \in Seq(Node \X Nat)
      BY <1>1, <2>2
    <2>4. Todo(o)' = {x[1] : x \in {<<n, 0>> : n \in Del!Roots(o)}}
      BY <2>1 DEF Todo
    <2>5. ASSUME NEW n \in Del!Roots(o)
          PROVE  n \in Todo(o)'
      <3>1. <<n, 0>> \in {<<k, 0>> : k \in Del!Roots(o)} /\ <<n, 0>>[1] = n
        OBVIOUS
      <3>2. QED
        BY <2>4, <3>1
    <2>6. Todo(o)' \subseteq Del!Roots(o)
      BY <2>4
    <2>7. QED
      BY <2>3, <2>5, <2>6
  <1>5. DeletionTypeInv'
    BY <1>2, <1>3, <1>4 DEF DeletionInv, DeletionTypeInv, PlanType, Phase, Quiet
  <1>6. SlotsOK'
    BY <1>2, SameSlots DEF DeletionInv, Asking
  <1>7. Alone(o)
    BY <1>2, <1>3 DEF Alone, Kept, DeletionInv, DeletionTypeInv, PlanType
  <1>8. MarkedOK'
    <2>1. \A p \in Op : Todo(p)' \subseteq Del!Marked(p)
      BY <1>4, <1>7, MarkedClosed DEF Alone, Kept, Todo, DeletionInv, MarkedOK
    <2>2. QED
      BY <1>2, <2>1, QuietCause DEF DeletionInv, MarkedOK, Folders, Requested, Quiet,
             DeletionTypeInv
  <1>9. OpOK(o)'
    <2>1. flight[o] = {} /\ dirs[o] = {}
      BY <1>2 DEF DeletionInv, OpOK, FlightOK, TreeOK
    <2>2. CASE deletion'[o] \in {"local", "stat"} /\ ended' = ended
      <3>1. FlightOK(o)'
        BY <1>2, <2>1, <2>2 DEF DeletionInv, OpOK, FlightOK
      <3>2. RootsOK(o)'
        BY <1>4, <2>2, QuietCause, <1>2 DEF RootsOK, AheadOf
      <3>3. CauseOK(o)'
        BY <1>2, <2>2, QuietCause DEF DeletionInv, OpOK, FlightOK, CauseOK, Failing, Quiet
      <3>4. SeenOK(o)'
        BY <1>2, <1>4, <2>2, QuietCause DEF DeletionInv, OpOK, SeenOK, Quiet
      <3>5. TreeOK(o)'
        BY <1>2, <2>1, <2>2 DEF DeletionInv, OpOK, TreeOK
      <3>6. QED
        BY <3>1, <3>2, <3>3, <3>4, <3>5 DEF OpOK
    <2>3. CASE ~up /\ deletion'[o] = "over" /\ ended'[o] = "error"
      <3>1. Cause(o)
        BY <2>3 DEF Cause
      <3>2. QED
        BY <1>2, <2>1, <2>3, <3>1, EndedOK, FS_EmptySet DEF DeletionInv,
               Del!DeletionsAssumption
    <2>4. QED
      BY <1>3, <2>2, <2>3 DEF DeletionInv, DeletionTypeInv
  <1>10. QED
    BY <1>2, <1>5, <1>6, <1>7, <1>8, <1>9, QuietOthers DEF DeletionInv

(* What a plan is about to look at has only been taken by others.          *)
LEMMA MissingHasCause ==
  ASSUME DeletionInv, NEW o \in Op, deletion[o] \in {"stat", "list"}, NEW n \in Todo(o),
         ~up \/ n \notin there
  PROVE  Cause(o)
  <1>1. n \in Del!Marked(o)
    BY DEF DeletionInv, MarkedOK
  <1>2. CASE n \notin there
    <2>1. PICK g \in gone : g[2] = n
      BY <1>2 DEF DeletionInv, OpOK, SeenOK
    <2>2. g[1] # o
      BY <2>1 DEF DeletionInv, OpOK, SeenOK
    <2>3. QED
      BY <1>1, <2>1, <2>2 DEF Cause, OthersTook
  <1>3. QED
    BY <1>2 DEF Cause

LEMMA NextItem ==
  ASSUME DeletionInv, NEW o \in Op, todo[o] # <<>>
  PROVE  /\ Head(todo[o]) \in Node \X Nat /\ Tail(todo[o]) \in Seq(Node \X Nat)
         /\ Head(todo[o]) = <<Head(todo[o])[1], Head(todo[o])[2]>>
         /\ ToSet(todo[o]) = {Head(todo[o])} \cup ToSet(Tail(todo[o]))
         /\ Head(todo[o])[1] \in Todo(o)
         /\ {x[1] : x \in ToSet(Tail(todo[o]))} \subseteq Todo(o)
  <1>1. todo[o] \in Seq(Node \X Nat)
    BY DEF DeletionInv, DeletionTypeInv, PlanType
  <1>2. /\ Head(todo[o]) \in Node \X Nat /\ Tail(todo[o]) \in Seq(Node \X Nat)
        /\ ToSet(todo[o]) = {Head(todo[o])} \cup ToSet(Tail(todo[o]))
    BY <1>1, HeadOrTail
  <1>3. QED
    BY <1>2 DEF Todo

LEMMA StatOK ==
  ASSUME Del!DeletionsAssumption, DeletionInv, NEW o \in Op, Del!Stat(o)
  PROVE  DeletionInv'
  <1> DEFINE n == Head(todo[o])[1]
             asks == Del!IsFolder(n) \/ Head(todo[o])[2] = 0
             Stops == /\ deletion' = [deletion EXCEPT ![o] = "over"]
                      /\ ended' = [ended EXCEPT ![o] =
                                     IF asks /\ deleteCancel[o] THEN "cancelled" ELSE "error"]
                      /\ \/ asks /\ (deleteCancel[o] \/ ~up \/ n \notin there)
                         \/ found[o] = MaxEntries
                      /\ UNCHANGED Del!plan
             Folder == /\ Del!IsFolder(n) /\ deletion' = [deletion EXCEPT ![o] = "list"]
                       /\ UNCHANGED <<files, todo, dirs, ended>>
             File == /\ ~Del!IsFolder(n) /\ files' = [files EXCEPT ![o] = @ \cup {n}]
                     /\ todo' = [todo EXCEPT ![o] = Tail(@)]
                     /\ UNCHANGED <<deletion, dirs, ended>>
  <1>1. /\ deletion[o] = "stat" /\ todo[o] # <<>> /\ Quiet
        /\ UNCHANGED <<deleteCancel, round, flight, failures, slots>>
    BY DEF Del!Stat, Del!In, Quiet, Del!server
  <1>2. \/ Stops
        \/ /\ Folder \/ File
           /\ found[o] # MaxEntries /\ found' = [found EXCEPT ![o] = @ + 1]
    BY DEF Del!Stat, Del!Goes, Del!Ends
  <1>3. /\ n \in Node /\ Head(todo[o]) = <<n, Head(todo[o])[2]>>
        /\ Tail(todo[o]) \in Seq(Node \X Nat)
        /\ ToSet(todo[o]) = {Head(todo[o])} \cup ToSet(Tail(todo[o]))
        /\ n \in Todo(o) /\ {x[1] : x \in ToSet(Tail(todo[o]))} \subseteq Todo(o)
    BY <1>1, NextItem
  <1>4. flight[o] = {} /\ ended[o] = "active" /\ Concurrent \in Nat
    BY <1>1 DEF DeletionInv, OpOK, FlightOK, Del!DeletionsAssumption
  <1> HIDE DEF n, asks
  <1>5. DeletionTypeInv'
    <2>1. found' \in [Op -> 0 .. MaxEntries]
      BY <1>2 DEF DeletionInv, DeletionTypeInv, PlanType, Del!DeletionsAssumption, Del!plan
    <2>2. CASE Stops
      BY <1>1, <2>1, <2>2 DEF DeletionInv, DeletionTypeInv, PlanType, Phase, Quiet, Del!plan
    <2>3. CASE Folder
      BY <1>1, <2>1, <2>3 DEF DeletionInv, DeletionTypeInv, PlanType, Phase, Quiet
    <2>4. CASE File
      <3>1. todo' \in [Op -> Seq(Node \X Nat)] /\ files' \in [Op -> SUBSET Node]
        BY <1>3, <2>4 DEF DeletionInv, DeletionTypeInv, PlanType
      <3>2. QED
        BY <1>1, <2>1, <2>4, <3>1 DEF DeletionInv, DeletionTypeInv, PlanType, Quiet
    <2>5. QED
      BY <1>2, <2>2, <2>3, <2>4
  <1>6. SlotsOK'
    BY <1>1, SameSlots DEF DeletionInv, Asking
  <1>7. Alone(o)
    BY <1>1, <1>2 DEF Alone, Kept, DeletionInv, DeletionTypeInv, PlanType, Del!plan
  <1>8. MarkedOK'
    <2>1. Todo(o)' \subseteq Todo(o) /\ files'[o] \subseteq files[o] \cup {n}
            /\ UNCHANGED dirs
      BY <1>2, <1>3 DEF Todo, Del!plan, DeletionInv, DeletionTypeInv, PlanType
    <2>2. \A p \in Op : Todo(p)' \cup files'[p] \subseteq Del!Marked(p)
      BY <1>3, <1>7, <2>1 DEF DeletionInv, MarkedOK, Alone, Kept, Todo
    <2>3. QED
      BY <1>1, <2>1, <2>2, QuietCause DEF DeletionInv, MarkedOK, Folders, Requested, Quiet,
             DeletionTypeInv
  <1>9. OpOK(o)'
    <2>1. CASE Stops
      <3>1. (asks /\ deleteCancel[o]) \/ found[o] = MaxEntries \/ Cause(o)
        BY <1>1, <1>3, <2>1, MissingHasCause
      <3>2. QED
        BY <1>1, <1>4, <2>1, <3>1, EndedOK, FS_EmptySet DEF DeletionInv, DeletionTypeInv,
               Del!plan
    <2>2. CASE Folder \/ File
      <3>1. /\ deletion'[o] \in {"stat", "list"}
            /\ UNCHANGED <<ended, dirs, flight, failures>>
            /\ deletion'[o] = "list" => Del!IsFolder(n) /\ todo' = todo
        BY <1>1, <2>2 DEF DeletionInv, DeletionTypeInv
      <3>2. \A x \in ToSet(todo[o]) : x \in ToSet(todo'[o]) \/ x[1] \in files'[o]
        <4>1. CASE Folder
          BY <4>1
        <4>2. CASE File
          <5>1. todo'[o] = Tail(todo[o]) /\ files'[o] = files[o] \cup {n}
            BY <4>2 DEF DeletionInv, DeletionTypeInv, PlanType
          <5>2. Head(todo[o])[1] = n
            BY <1>3
          <5>3. QED
            BY <1>3, <5>1, <5>2
        <4>3. QED
          BY <2>2, <4>1, <4>2
      <3>3. files[o] \subseteq files'[o] /\ Todo(o)' \subseteq Todo(o)
        BY <1>3, <2>2 DEF DeletionInv, DeletionTypeInv, PlanType, Todo
      <3>4. FlightOK(o)'
        BY <1>1, <1>4, <3>1 DEF DeletionInv, OpOK, FlightOK
      <3>5. RootsOK(o)'
        <4>1. Todo(o) \cup files[o] \subseteq Todo(o)' \cup files'[o]
          BY <3>2, <3>3 DEF Todo
        <4>2. Folders(o)' = Folders(o) /\ (Failing(o)' <=> Failing(o))
          BY <3>1 DEF Folders, Failing
        <4>3. QED
          BY <1>1, <3>1, <4>1, <4>2, QuietCause
          DEF DeletionInv, OpOK, RootsOK, AheadOf, Quiet
      <3>6. CauseOK(o)'
        BY <1>1, <1>4, <3>1, QuietCause DEF DeletionInv, OpOK, CauseOK, Failing, Quiet
      <3>7. SeenOK(o)'
        BY <1>1, <3>1, <3>3, QuietCause DEF DeletionInv, OpOK, SeenOK, Quiet
      <3>8. TreeOK(o)'
        <4>1. \A m \in files'[o] : Kind[m] # "dir"
          BY <2>2 DEF DeletionInv, OpOK, TreeOK, DeletionTypeInv, PlanType, Del!IsFolder
        <4>2. deletion'[o] = "list" => todo'[o] # <<>> /\ Kind[Head(todo'[o])[1]] = "dir"
          BY <1>1, <3>1 DEF Del!IsFolder, n
        <4>3. \A m, d : Entry(o, m, d) => Entry(o, m, d)'
          BY <1>1, <3>1, <3>2, <3>3 DEF Entry
        <4>4. QED
          BY <1>1, <3>1, <4>1, <4>2, <4>3, QuietCause DEF DeletionInv, OpOK, TreeOK, Quiet
      <3>9. QED
        BY <3>4, <3>5, <3>6, <3>7, <3>8 DEF OpOK
    <2>3. QED
      BY <1>2, <2>1, <2>2
  <1>10. QED
    BY <1>1, <1>5, <1>6, <1>7, <1>8, <1>9, QuietOthers DEF DeletionInv

LEMMA FolderItems ==
  ASSUME Del!DeletionsAssumption, NEW T \in SUBSET Node, NEW depth \in Nat
  PROVE  LET S == {<<m, depth>> : m \in T}
         IN  SetToSeq(S) \in Seq(Node \X Nat) /\ ToSet(SetToSeq(S)) = S
  <1> DEFINE S == {<<m, depth>> : m \in T}
             f == [m \in T |-> <<m, depth>>]
  <1>1. IsFiniteSet(T)
    BY FS_Subset, SameOperators DEF Del!DeletionsAssumption
  <1>2. f \in Surjection(T, S)
    BY DEF Surjection
  <1>3. IsFiniteSet(S)
    BY <1>1, <1>2, FS_Surjection
  <1>4. SetToSeq(S) \in Seq(S) /\ ToSet(SetToSeq(S)) = S
    BY <1>3, SequenceOfSet
  <1>5. S \subseteq Node \X Nat
    OBVIOUS
  <1>6. QED
    BY <1>4, <1>5, SeqMonotonic

LEMMA ReadDirOK ==
  ASSUME Del!DeletionsAssumption, DeletionInv, NEW o \in Op, Del!ReadDir(o)
  PROVE  DeletionInv'
  <1> DEFINE n == Head(todo[o])[1]
             depth == Head(todo[o])[2]
             items == {<<m, depth + 1>> : m \in Del!Inside(n) \cap there}
             Stops == /\ deletion' = [deletion EXCEPT ![o] = "over"]
                      /\ ended' = [ended EXCEPT ![o] = IF deleteCancel[o] THEN "cancelled"
                                     ELSE "error"]
                      /\ deleteCancel[o] \/ ~up \/ n \notin there
                      /\ UNCHANGED <<todo, dirs>>
             Lists == /\ deletion' = [deletion EXCEPT ![o] = "stat"] /\ UNCHANGED ended
                      /\ dirs' = [dirs EXCEPT ![o] = @ \cup {<<depth, n>>}]
                      /\ todo' = [todo EXCEPT ![o] = SetToSeq(items) \o Tail(@)]
  <1>1. /\ deletion[o] = "list" /\ Quiet
        /\ UNCHANGED <<deleteCancel, round, flight, failures, slots, found, files>>
    BY DEF Del!ReadDir, Del!In, Quiet, Del!server
  <1>2. Stops \/ Lists
    BY SameOperators DEF Del!ReadDir, Del!Goes, Del!Ends
  <1>3. todo[o] # <<>> /\ Kind[n] = "dir" /\ Del!Inside(n) = Del!Below(n)
    BY <1>1 DEF DeletionInv, OpOK, TreeOK, Del!Inside
  <1>4. /\ n \in Node /\ depth \in Nat /\ Head(todo[o]) = <<n, depth>>
        /\ Tail(todo[o]) \in Seq(Node \X Nat)
        /\ ToSet(todo[o]) = {Head(todo[o])} \cup ToSet(Tail(todo[o]))
        /\ n \in Todo(o) /\ {x[1] : x \in ToSet(Tail(todo[o]))} \subseteq Todo(o)
    BY <1>3, NextItem
  <1>5. flight[o] = {} /\ ended[o] = "active" /\ Concurrent \in Nat
    BY <1>1 DEF DeletionInv, OpOK, FlightOK, Del!DeletionsAssumption
  <1>6. SetToSeq(items) \in Seq(Node \X Nat) /\ ToSet(SetToSeq(items)) = items
    <2>1. Del!Inside(n) \cap there \in SUBSET Node /\ depth + 1 \in Nat
      BY <1>4 DEF DeletionInv, DeletionTypeInv
    <2>2. QED
      BY <2>1, FolderItems
  <1>7. Lists => /\ todo'[o] \in Seq(Node \X Nat)
                 /\ ToSet(todo'[o]) = items \cup ToSet(Tail(todo[o]))
                 /\ dirs'[o] = dirs[o] \cup {<<depth, n>>}
    <2> HIDE DEF items
    <2>1. /\ SetToSeq(items) \o Tail(todo[o]) \in Seq(Node \X Nat)
          /\ ToSet(SetToSeq(items) \o Tail(todo[o])) = items \cup ToSet(Tail(todo[o]))
      <3>1. \A s, t \in Seq(Node \X Nat) :
              s \o t \in Seq(Node \X Nat) /\ ToSet(s \o t) = ToSet(s) \cup ToSet(t)
        BY ElementsOfConcat
      <3>2. QED
        BY <1>4, <1>6, <3>1
    <2>2. Lists => /\ todo'[o] = SetToSeq(items) \o Tail(todo[o])
                   /\ dirs'[o] = dirs[o] \cup {<<depth, n>>}
      BY DEF DeletionInv, DeletionTypeInv, PlanType
    <2>3. QED
      BY <2>1, <2>2
  <1>8. /\ \A x \in items : x[1] \in Del!Below(n) \cap there
        /\ \A m \in Del!Below(n) \cap there : <<m, depth + 1>> \in items
    BY <1>3
  <1> HIDE DEF n, depth, items
  <1>9. Lists => /\ \A x \in ToSet(todo[o]) : x \in ToSet(todo'[o]) \/ x = <<n, depth>>
                 /\ Todo(o)' \subseteq Todo(o) \cup (Del!Below(n) \cap there)
                 /\ Folders(o)' = Folders(o) \cup {n}
    <2> SUFFICES ASSUME Lists
                 PROVE  /\ \A x \in ToSet(todo[o]) :
                             x \in ToSet(todo'[o]) \/ x = <<n, depth>>
                        /\ Todo(o)' \subseteq Todo(o) \cup (Del!Below(n) \cap there)
                        /\ Folders(o)' = Folders(o) \cup {n}
      OBVIOUS
    <2>1. \A x \in ToSet(todo[o]) : x \in ToSet(todo'[o]) \/ x = <<n, depth>>
      BY <1>4, <1>7
    <2>2. Todo(o)' \subseteq Todo(o) \cup (Del!Below(n) \cap there)
      BY <1>4, <1>7, <1>8 DEF Todo
    <2>3. Folders(o)' = Folders(o) \cup {n}
      <3>1. <<depth, n>> \in dirs'[o] /\ <<depth, n>>[2] = n
        BY <1>7
      <3>2. QED
        BY <1>7, <3>1 DEF Folders
    <2>4. QED
      BY <2>1, <2>2, <2>3
  <1>10. DeletionTypeInv'
    <2>1. CASE Stops
      BY <1>1, <2>1 DEF DeletionInv, DeletionTypeInv, PlanType, Phase, Quiet
    <2>2. CASE Lists
      <3>1. todo' \in [Op -> Seq(Node \X Nat)] /\ dirs' \in [Op -> SUBSET (Nat \X Node)]
        BY <1>4, <1>7, <2>2 DEF DeletionInv, DeletionTypeInv, PlanType
      <3>2. QED
        BY <1>1, <2>2, <3>1 DEF DeletionInv, DeletionTypeInv, PlanType, Phase, Quiet
    <2>3. QED
      BY <1>2, <2>1, <2>2
  <1>11. SlotsOK'
    BY <1>1, SameSlots DEF DeletionInv, Asking
  <1>12. Alone(o)
    BY <1>1, <1>2 DEF Alone, Kept, DeletionInv, DeletionTypeInv, PlanType
  <1>13. MarkedOK'
    <2>1. n \in Del!Marked(o) /\ Del!Below(n) \subseteq Del!Marked(o)
      BY <1>4, MarkedClosed DEF DeletionInv, MarkedOK, Del!Closed
    <2>2. Todo(o)' \cup Folders(o)' \subseteq Del!Marked(o)
      <3>1. CASE Stops
        BY <3>1 DEF DeletionInv, MarkedOK, Todo, Folders
      <3>2. CASE Lists
        BY <1>9, <2>1, <3>2 DEF DeletionInv, MarkedOK
      <3>3. QED
        BY <1>2, <3>1, <3>2
    <2>3. \A p \in Op : Todo(p)' \cup Folders(p)' \subseteq Del!Marked(p)
      BY <1>12, <2>2 DEF DeletionInv, MarkedOK, Alone, Kept, Todo, Folders
    <2>4. QED
      BY <1>1, <2>3, QuietCause DEF DeletionInv, MarkedOK, Requested, Quiet
  <1>14. OpOK(o)'
    <2>1. CASE Stops
      <3>1. deleteCancel[o] \/ Cause(o)
        BY <1>1, <1>4, <2>1, MissingHasCause
      <3>2. QED
        BY <1>1, <1>5, <2>1, <3>1, EndedOK, FS_EmptySet DEF DeletionInv, DeletionTypeInv
    <2>2. CASE Lists
      <3>1. deletion'[o] = "stat" /\ UNCHANGED <<ended, files, flight, failures>>
        BY <1>1, <2>2 DEF DeletionInv, DeletionTypeInv
      <3>2. FlightOK(o)'
        BY <1>1, <1>5, <3>1 DEF DeletionInv, OpOK, FlightOK
      <3>3. RootsOK(o)'
        <4>1. Todo(o) \cup Folders(o) \subseteq Todo(o)' \cup Folders(o)'
          BY <1>9, <2>2 DEF Todo
        <4>2. Failing(o)' <=> Failing(o)
          BY <3>1 DEF Failing
        <4>3. QED
          BY <1>1, <3>1, <4>1, <4>2, QuietCause DEF DeletionInv, OpOK, RootsOK, AheadOf,
                 Quiet
      <3>4. CauseOK(o)'
        BY <1>1, <1>5, <3>1, QuietCause DEF DeletionInv, OpOK, CauseOK, Failing, Quiet
      <3>5. SeenOK(o)'
        BY <1>1, <1>9, <2>2, QuietCause DEF DeletionInv, OpOK, SeenOK, Quiet
      <3>6. TreeOK(o)'
        <4>1. \A m, d : Entry(o, m, d) => Entry(o, m, d)'
          BY <1>1, <1>7, <1>9, <2>2, <3>1 DEF Entry
        <4>2. \A m \in Del!Below(n) \cap there, k \in Nat : k = depth + 1 => Entry(o, m, k)'
          BY <1>7, <1>8, <2>2, <3>1 DEF Entry
        <4>3. ASSUME NEW d \in dirs'[o], NEW m \in Del!Below(d[2]) \cap there
              PROVE  Entry(o, m, d[1] + 1)' \/ Cause(o)
          <5>1. CASE d = <<depth, n>>
            <6>1. d[1] + 1 = depth + 1 /\ d[1] + 1 \in Nat /\ m \in Del!Below(n) \cap there
              BY <1>4, <4>3, <5>1
            <6>2. QED
              BY <4>2, <6>1
          <5>2. CASE d \in dirs[o]
            BY <1>1, <4>1, <5>2 DEF DeletionInv, OpOK, TreeOK
          <5>3. QED
            BY <1>7, <2>2, <5>1, <5>2
        <4>4. QED
          BY <1>1, <3>1, <4>3, QuietCause DEF DeletionInv, OpOK, TreeOK, Quiet
      <3>7. QED
        BY <3>2, <3>3, <3>4, <3>5, <3>6 DEF OpOK
    <2>3. QED
      BY <1>2, <2>1, <2>2
  <1>15. QED
    BY <1>1, <1>10, <1>11, <1>12, <1>13, <1>14, QuietOthers DEF DeletionInv

LEMMA NextRoundOK ==
  ASSUME Del!DeletionsAssumption, DeletionInv, NEW o \in Op, Del!NextRound(o)
  PROVE  DeletionInv'
  <1> DEFINE Files == /\ deletion[o] = "stat" /\ todo[o] = <<>> /\ UNCHANGED dirs
                      /\ round' = [round EXCEPT ![o] = files[o]]
             Round == /\ deletion[o] = "delete" /\ round[o] = {} /\ flight[o] = {}
                      /\ round' = [round EXCEPT ![o] = {d[2] : d \in Del!Deepest(o)}]
                      /\ dirs' = [dirs EXCEPT ![o] = @ \ Del!Deepest(o)]
  <1>1. /\ Files \/ Round
        /\ deletion' = [deletion EXCEPT ![o] = "delete"] /\ Quiet
        /\ UNCHANGED <<deleteCancel, todo, found, files, flight, failures, ended, slots>>
    BY DEF Del!NextRound, Del!Goes, Del!In, Quiet, Del!server
  <1>2. flight[o] = {} /\ ended[o] = "active" /\ deletion'[o] = "delete" /\ Flying(o) = {}
        /\ Flying(o)' = {}
    BY <1>1 DEF DeletionInv, OpOK, FlightOK, DeletionTypeInv, Flying
  <1>3. /\ Files => round'[o] = files[o] /\ dirs'[o] = dirs[o]
        /\ Round => /\ round'[o] = {d[2] : d \in Del!Deepest(o)}
                    /\ dirs'[o] = dirs[o] \ Del!Deepest(o)
    BY DEF DeletionInv, DeletionTypeInv, PlanType
  <1>4. round'[o] \subseteq files[o] \cup Folders(o) /\ dirs'[o] \subseteq dirs[o]
    BY <1>1, <1>3 DEF Folders, Del!Deepest
  <1>5. DeletionTypeInv'
    <2>1. dirs' \in [Op -> SUBSET (Nat \X Node)]
      BY <1>1, <1>4 DEF DeletionInv, DeletionTypeInv, PlanType
    <2>2. round'[o] \in SUBSET Node
      BY <1>4 DEF DeletionInv, DeletionTypeInv, PlanType, Folders
    <2>3. round' \in [Op -> SUBSET Node]
      BY <1>1, <2>2 DEF DeletionInv, DeletionTypeInv
    <2>4. QED
      BY <1>1, <2>1, <2>3 DEF DeletionInv, DeletionTypeInv, PlanType, Phase, Quiet
  <1>6. SlotsOK'
    BY <1>1, SameSlots DEF DeletionInv, Asking
  <1>7. Alone(o)
    BY <1>1 DEF Alone, Kept, DeletionInv, DeletionTypeInv, PlanType
  <1>8. MarkedOK'
    <2>1. round'[o] \cup Folders(o)' \subseteq Del!Marked(o)
      BY <1>4 DEF DeletionInv, MarkedOK, Folders
    <2>2. \A p \in Op : round'[p] \cup Folders(p)' \subseteq Del!Marked(p)
      BY <1>7, <2>1 DEF DeletionInv, MarkedOK, Alone, Kept, Folders
    <2>3. QED
      BY <1>1, <2>2, QuietCause DEF DeletionInv, MarkedOK, Todo, Requested, Quiet
  <1>9. OpOK(o)'
    <2>1. FlightOK(o)'
      BY <1>1, <1>2 DEF DeletionInv, OpOK, FlightOK
    <2>2. RootsOK(o)'
      <3>1. AheadOf(o) \subseteq round'[o] \cup Folders(o)'
        <4>1. CASE Files
          BY <1>3, <4>1 DEF AheadOf, Todo, Folders, ToSet
        <4>2. CASE Round
          <5>1. \A d \in dirs[o] : d[2] \in round'[o] \/ d \in dirs'[o]
            BY <1>3, <4>2
          <5>2. QED
            BY <1>2, <4>2, <5>1 DEF AheadOf, Folders
        <4>3. QED
          BY <1>1, <4>1, <4>2
      <3>2. Failing(o)' <=> Failing(o)
        BY <1>1 DEF Failing
      <3>3. AheadOf(o)' = round'[o] \cup Folders(o)' \cup Flying(o)'
        BY <1>2 DEF AheadOf
      <3>4. QED
        BY <1>1, <3>1, <3>2, <3>3, QuietCause DEF DeletionInv, OpOK, RootsOK, Quiet
    <2>3. CauseOK(o)'
      BY <1>1, <1>2, QuietCause DEF DeletionInv, OpOK, CauseOK, Failing, Quiet
    <2>4. SeenOK(o)'
      BY <1>2 DEF SeenOK
    <2>5. TreeOK(o)'
      <3>1. ASSUME NEW d \in dirs'[o], NEW m \in Del!Below(d[2]) \cap there
            PROVE  Entry(o, m, d[1] + 1)' \/ Cause(o)
        <4>1. Entry(o, m, d[1] + 1) \/ Cause(o)
          BY <1>1, <1>4, <3>1 DEF DeletionInv, OpOK, TreeOK
        <4>2. CASE Files
          BY <1>2, <1>3, <4>1, <4>2 DEF Entry, ToSet
        <4>3. CASE Round
          <5>1. <<d[1] + 1, m>> \in Del!Deepest(o) => m \in round'[o]
            <6>1. <<d[1] + 1, m>>[2] = m
              OBVIOUS
            <6>2. QED
              BY <1>3, <4>3, <6>1
          <5>2. QED
            BY <1>2, <1>3, <4>1, <4>3, <5>1 DEF Entry
        <4>4. QED
          BY <1>1, <4>2, <4>3
      <3>2. ASSUME NEW k \in round'[o], NEW m \in Del!Below(k) \cap there
            PROVE  Cause(o)
        <4>1. CASE Files
          BY <1>3, <4>1, <3>2 DEF DeletionInv, OpOK, TreeOK, Del!Below,
                 Del!DeletionsAssumption
        <4>2. CASE Round
          <5>1. PICK d \in Del!Deepest(o) : k = d[2]
            BY <1>3, <4>2, <3>2
          <5>2. d \in dirs[o] /\ d[1] \in Nat
            BY <5>1 DEF Del!Deepest, DeletionInv, DeletionTypeInv, PlanType
          <5>3. Entry(o, m, d[1] + 1) \/ Cause(o)
            BY <1>1, <3>2, <5>1, <5>2 DEF DeletionInv, OpOK, TreeOK
          <5>4. <<d[1] + 1, m>> \notin dirs[o]
            BY <5>1, <5>2 DEF Del!Deepest
          <5>5. QED
            BY <1>2, <4>2, <5>3, <5>4 DEF Entry
        <4>3. QED
          BY <1>1, <4>1, <4>2
      <3>3. QED
        BY <1>1, <1>2, <3>1, <3>2, QuietCause DEF DeletionInv, OpOK, TreeOK, Quiet
    <2>6. QED
      BY <2>1, <2>2, <2>3, <2>4, <2>5 DEF OpOK
  <1>10. QED
    BY <1>1, <1>5, <1>6, <1>7, <1>8, <1>9, QuietOthers DEF DeletionInv

-----------------------------------------------------------------------------
(* Requests.                                                               *)

LEMMA AskMore ==
  ASSUME SlotsOK, slots \in Nat, slots > 0, slots' = slots - 1, NEW x, x \notin Asking,
         Asking' = Asking \cup {x}
  PROVE  SlotsOK' /\ slots' \in Nat
  <1>1. IsFiniteSet(Asking) /\ Cardinality(Asking) \in Nat
    BY FS_CardinalityType DEF SlotsOK
  <1>2. /\ IsFiniteSet(Asking \cup {x})
        /\ Cardinality(Asking \cup {x}) = Cardinality(Asking) + 1
    BY <1>1, FS_AddElement
  <1>3. QED
    BY <1>1, <1>2 DEF SlotsOK

LEMMA AskLess ==
  ASSUME SlotsOK, slots \in Nat, slots' = slots + 1, NEW x \in Asking,
         Asking' = Asking \ {x}
  PROVE  SlotsOK' /\ slots' \in Nat
  <1>1. IsFiniteSet(Asking) /\ Cardinality(Asking) \in Nat
    BY FS_CardinalityType DEF SlotsOK
  <1>2. /\ IsFiniteSet(Asking \ {x})
        /\ Cardinality(Asking \ {x}) = Cardinality(Asking) - 1
    BY <1>1, FS_RemoveElement
  <1>3. QED
    BY <1>1, <1>2 DEF SlotsOK

(* A request of an operation takes another state.                          *)
Moves(o, f, s) ==
  /\ f \in flight[o] /\ s \in Flight /\ f[2] # s
  /\ flight' = [flight EXCEPT ![o] = (@ \ {f}) \cup {<<f[1], s>>}]

LEMMA MovesOK ==
  ASSUME DeletionTypeInv, Concurrent \in Nat, NEW o \in Op, FlightOK(o), NEW f, NEW s,
         Moves(o, f, s)
  PROVE  /\ flight' \in [Op -> SUBSET (Node \X Flight)]
         /\ f \in Node \X Flight /\ f = <<f[1], f[2]>> /\ f[1] \in Node
         /\ flight'[o] = (flight[o] \ {f}) \cup {<<f[1], s>>}
         /\ IsFiniteSet(flight'[o]) /\ Cardinality(flight'[o]) <= Concurrent
         /\ \A g, h \in flight'[o] : g[1] = h[1] => g = h
         /\ Requested(o)' = Requested(o)
         /\ \A p \in Op \ {o} : flight'[p] = flight[p]
         /\ \A n \in Node, t \in Flight :
              <<n, t>> \in flight'[o] <=> IF n = f[1] THEN t = s ELSE <<n, t>> \in flight[o]
  <1>1. /\ f \in Node \X Flight /\ f = <<f[1], f[2]>> /\ f[1] \in Node
        /\ flight'[o] = (flight[o] \ {f}) \cup {<<f[1], s>>}
        /\ flight[o] \subseteq Node \X Flight
        /\ \A p \in Op \ {o} : flight'[p] = flight[p]
    BY DEF Moves, DeletionTypeInv
  <1>2. flight' \in [Op -> SUBSET (Node \X Flight)]
    <2>1. flight'[o] \in SUBSET (Node \X Flight)
      BY <1>1 DEF Moves
    <2>2. QED
      BY <2>1 DEF Moves, DeletionTypeInv
  <1>3. IsFiniteSet(flight'[o]) /\ Cardinality(flight'[o]) <= Concurrent
    <2> DEFINE F == flight[o] \ {f}
    <2>1. /\ IsFiniteSet(F) /\ Cardinality(F) = Cardinality(flight[o]) - 1
          /\ Cardinality(flight[o]) \in Nat
      BY FS_RemoveElement, FS_CardinalityType DEF FlightOK, Moves
    <2>2. /\ IsFiniteSet(F \cup {<<f[1], s>>})
          /\ Cardinality(F \cup {<<f[1], s>>}) <= Cardinality(F) + 1
          /\ Cardinality(F \cup {<<f[1], s>>}) \in Nat
      <3> DEFINE x == <<f[1], s>>
      <3> HIDE DEF F, x
      <3>1. /\ IsFiniteSet(F \cup {x}) /\ Cardinality(F) \in Nat
            /\ Cardinality(F \cup {x}) = IF x \in F THEN Cardinality(F)
                   ELSE Cardinality(F) + 1
        BY <2>1, FS_AddElement, FS_CardinalityType
      <3>2. Cardinality(F \cup {x}) <= Cardinality(F) + 1 /\ Cardinality(F \cup {x}) \in Nat
        BY <3>1, FS_CardinalityType
      <3>3. QED
        BY <3>1, <3>2 DEF x
    <2>3. Cardinality(F) + 1 <= Concurrent /\ Cardinality(F) \in Nat
      BY <2>1, FS_CardinalityType DEF FlightOK
    <2>4. flight'[o] = F \cup {<<f[1], s>>}
      BY <1>1
    <2> HIDE DEF F
    <2>5. QED
      BY <2>2, <2>3, <2>4
  <1>4. \A g, h \in flight'[o] : g[1] = h[1] => g = h
    BY <1>1 DEF FlightOK, Moves
  <1>5. Requested(o)' = Requested(o)
    <2>1. Requested(o)' = {g[1] : g \in (flight[o] \ {f}) \cup {<<f[1], s>>}}
      BY <1>1 DEF Requested
    <2>2. <<f[1], s>>[1] = f[1] /\ f \in flight[o]
      BY DEF Moves
    <2>3. QED
      BY <2>1, <2>2 DEF Requested
  <1>6. ASSUME NEW n \in Node, NEW t \in Flight
        PROVE  <<n, t>> \in flight'[o] <=>
                 IF n = f[1] THEN t = s ELSE <<n, t>> \in flight[o]
    BY <1>1 DEF FlightOK, Moves
  <1>7. QED
    BY <1>1, <1>2, <1>3, <1>4, <1>5, <1>6


LEMMA SpawnOK ==
  ASSUME Del!DeletionsAssumption, DeletionInv, NEW o \in Op, Del!Spawn(o)
  PROVE  DeletionInv'
  <1>1. PICK n \in round[o] :
          /\ round' = [round EXCEPT ![o] = @ \ {n}]
          /\ flight' = [flight EXCEPT ![o] = @ \cup {<<n, "waits">>}]
    BY DEF Del!Spawn, Del!Flies, DeletionInv, DeletionTypeInv
  <1>2. /\ UNCHANGED <<deletion, deleteCancel, todo, found, files, dirs, failures, ended,
                       slots>> /\ Quiet
        /\ deletion[o] = "delete" /\ Cardinality(flight[o]) < Concurrent
    BY SameOperators DEF Del!Spawn, Del!In, Del!plan, Del!server, Quiet
  <1>3. /\ n \in Node /\ round'[o] = round[o] \ {n} /\ flight[o] \subseteq Node \X Flight
        /\ flight'[o] = flight[o] \cup {<<n, "waits">>}
        /\ \A s : <<n, s>> \notin flight[o]
    BY <1>1 DEF DeletionInv, DeletionTypeInv, OpOK, FlightOK
  <1>4. Flying(o)' = Flying(o) \cup {n} /\ (Failing(o)' <=> Failing(o))
    BY <1>2, <1>3 DEF Flying, Failing
  <1>5. DeletionTypeInv'
    <2>1. flight'[o] \in SUBSET (Node \X Flight)
      <3>1. <<n, "waits">> \in Node \X Flight
        BY <1>3 DEF Flight
      <3>2. QED
        BY <1>3, <3>1
    <2>2. round'[o] \in SUBSET Node
      BY <1>3 DEF DeletionInv, DeletionTypeInv
    <2>3. flight' \in [Op -> SUBSET (Node \X Flight)] /\ round' \in [Op -> SUBSET Node]
      BY <1>1, <2>1, <2>2 DEF DeletionInv, DeletionTypeInv
    <2>4. QED
      BY <1>2, <2>3 DEF DeletionInv, DeletionTypeInv, PlanType, Quiet
  <1>6. SlotsOK'
    <2>1. Asking' = Asking
      BY <1>1, <1>3 DEF Asking, DeletionInv, DeletionTypeInv
    <2>2. QED
      BY <1>2, <2>1, SameSlots DEF DeletionInv
  <1>7. Alone(o)
    BY <1>1, <1>2 DEF Alone, Kept, DeletionInv, DeletionTypeInv
  <1>8. MarkedOK'
    <2>1. Requested(o)' \cup round'[o] \subseteq Del!Marked(o)
      BY <1>3 DEF DeletionInv, MarkedOK, Requested
    <2>2. \A p \in Op : Requested(p)' \cup round'[p] \subseteq Del!Marked(p)
      BY <1>7, <2>1 DEF DeletionInv, MarkedOK, Alone, Kept, Requested
    <2>3. QED
      BY <1>2, <2>2, QuietCause DEF DeletionInv, MarkedOK, Todo, Folders, Quiet
  <1>9. OpOK(o)'
    <2>1. FlightOK(o)'
      <3>1. IsFiniteSet(flight'[o]) /\ Cardinality(flight'[o]) <= Concurrent
        <4>1. IsFiniteSet(flight[o]) /\ Cardinality(flight[o]) \in Nat /\ Concurrent \in Nat
          BY FS_CardinalityType DEF DeletionInv, OpOK, FlightOK, Del!DeletionsAssumption
        <4> DEFINE x == <<n, "waits">>
        <4> HIDE DEF x
        <4>2. /\ IsFiniteSet(flight[o] \cup {x})
              /\ Cardinality(flight[o] \cup {x}) <= Cardinality(flight[o]) + 1
              /\ Cardinality(flight[o] \cup {x}) \in Nat
          BY <4>1, FS_AddElement, FS_CardinalityType
        <4>3. Cardinality(flight[o] \cup {x}) <= Concurrent
          BY <1>2, <4>1, <4>2
        <4>4. QED
          BY <1>3, <4>2, <4>3 DEF x
      <3>2. \A f, g \in flight'[o] : f[1] = g[1] => f = g
        BY <1>1, <1>3 DEF DeletionInv, OpOK, FlightOK
      <3>3. \A f \in flight'[o] : f[1] \notin round'[o]
        BY <1>3 DEF DeletionInv, OpOK, FlightOK
      <3>4. QED
        BY <1>2, <3>1, <3>2, <3>3 DEF DeletionInv, OpOK, FlightOK
    <2>2. RootsOK(o)'
      BY <1>2, <1>3, <1>4, QuietCause DEF DeletionInv, OpOK, RootsOK, AheadOf, Folders,
             Quiet
    <2>3. CauseOK(o)'
      BY <1>2, <1>3, <1>4, QuietCause DEF DeletionInv, OpOK, CauseOK, Quiet
    <2>4. SeenOK(o)'
      BY <1>2 DEF SeenOK
    <2>5. TreeOK(o)'
      <3>1. \A m, d : Entry(o, m, d) => Entry(o, m, d)'
        BY <1>2, <1>3, <1>4 DEF Entry
      <3>2. round'[o] \cup Flying(o)' = round[o] \cup Flying(o)
        BY <1>3, <1>4
      <3>3. QED
        BY <1>2, <3>1, <3>2, QuietCause DEF DeletionInv, OpOK, TreeOK, Quiet
    <2>6. QED
      BY <2>1, <2>2, <2>3, <2>4, <2>5 DEF OpOK
  <1>10. QED
    BY <1>2, <1>5, <1>6, <1>7, <1>8, <1>9, QuietOthers DEF DeletionInv

LEMMA AcquireOK ==
  ASSUME Del!DeletionsAssumption, DeletionInv, NEW o \in Op, Del!Acquire(o)
  PROVE  DeletionInv'
  <1>1. PICK n \in Node :
          /\ <<n, "waits">> \in flight[o]
          /\ flight' = [flight EXCEPT ![o] = (@ \ {<<n, "waits">>}) \cup {<<n, "asks">>}]
    BY DEF Del!Acquire, Del!Flies, DeletionInv, DeletionTypeInv
  <1>2. /\ UNCHANGED <<deletion, deleteCancel, todo, found, files, dirs, round, failures,
                       ended>> /\ Quiet
        /\ slots > 0 /\ slots' = slots - 1
    BY DEF Del!Acquire, Del!plan, Del!server, Quiet
  <1>3. deletion[o] = "delete"
    BY <1>1 DEF DeletionInv, OpOK, FlightOK
  <1>4. /\ flight' \in [Op -> SUBSET (Node \X Flight)]
        /\ IsFiniteSet(flight'[o]) /\ Cardinality(flight'[o]) <= Concurrent
        /\ \A g, h \in flight'[o] : g[1] = h[1] => g = h
        /\ Requested(o)' = Requested(o)
        /\ \A p \in Op \ {o} : flight'[p] = flight[p]
        /\ \A k \in Node, t \in Flight :
             <<k, t>> \in flight'[o] <=>
               IF k = n THEN t = "asks" ELSE <<k, t>> \in flight[o]
    <2>1. Moves(o, <<n, "waits">>, "asks")
      BY <1>1 DEF Moves, Flight
    <2>2. QED
      BY <2>1, MovesOK DEF DeletionInv, OpOK, Del!DeletionsAssumption
  <1>5. <<n, "asks">> \notin flight[o] /\ <<n, "failed">> \notin flight[o]
    BY <1>1 DEF DeletionInv, OpOK, FlightOK
  <1>6. Flying(o)' = Flying(o) /\ (Failing(o)' <=> Failing(o))
    BY <1>1, <1>2, <1>4, <1>5 DEF Flying, Failing, Flight
  <1>7. SlotsOK' /\ slots' \in Nat
    <2>1. <<o, n>> \notin Asking
      BY <1>5 DEF Asking
    <2>2. Asking' = Asking \cup {<<o, n>>}
      <3>1. \A p \in Op, k \in Node : <<k, "asks">> \in flight'[p] <=>
                                        <<k, "asks">> \in flight[p] \/ (p = o /\ k = n)
        BY <1>4 DEF Flight
      <3>2. QED
        BY <3>1 DEF Asking
    <2>3. QED
      BY <1>2, <2>1, <2>2, AskMore DEF DeletionInv, DeletionTypeInv
  <1>8. DeletionTypeInv'
    BY <1>2, <1>4, <1>7 DEF DeletionInv, DeletionTypeInv, PlanType, Quiet
  <1>9. Alone(o)
    BY <1>2, <1>4 DEF Alone, Kept, DeletionInv, DeletionTypeInv
  <1>10. MarkedOK'
    <2>1. \A p \in Op : Requested(p)' \subseteq Del!Marked(p)
      BY <1>4, <1>9 DEF DeletionInv, MarkedOK, Alone, Kept, Requested
    <2>2. QED
      BY <1>2, <2>1, QuietCause DEF DeletionInv, MarkedOK, Todo, Folders, Quiet
  <1>11. OpOK(o)'
    <2>1. FlightOK(o)'
      <3>1. \A g \in flight'[o] : g[1] \in Requested(o)
        BY <1>4 DEF Requested
      <3>2. \A g \in flight'[o] : g[1] \notin round'[o]
        BY <1>2, <3>1 DEF DeletionInv, OpOK, FlightOK, Requested
      <3>3. QED
        BY <1>2, <1>3, <1>4, <3>2 DEF DeletionInv, OpOK, FlightOK
    <2>2. RootsOK(o)'
      BY <1>2, <1>6, QuietCause DEF DeletionInv, OpOK, RootsOK, AheadOf, Todo, Folders,
             Quiet
    <2>3. CauseOK(o)'
      BY <1>2, <1>4, <1>6, QuietCause DEF DeletionInv, OpOK, CauseOK, Quiet, Flight
    <2>4. SeenOK(o)'
      BY <1>2, <1>3 DEF SeenOK
    <2>5. TreeOK(o)'
      <3>1. \A m, d : Entry(o, m, d) => Entry(o, m, d)'
        BY <1>2, <1>6 DEF Entry
      <3>2. QED
        BY <1>2, <1>3, <1>6, <3>1, QuietCause DEF DeletionInv, OpOK, TreeOK, Quiet
    <2>6. QED
      BY <2>1, <2>2, <2>3, <2>4, <2>5 DEF OpOK
  <1>12. QED
    BY <1>2, <1>7, <1>8, <1>9, <1>10, <1>11, QuietOthers DEF DeletionInv

LEMMA CauseGrows ==
  ASSUME NEW o \in Op, gone \subseteq gone', disturbed \subseteq disturbed', up' => up
  PROVE  /\ Cause(o) => Cause(o)'
         /\ Del!Roots(o)' = Del!Roots(o) /\ Del!Marked(o)' = Del!Marked(o)
         /\ \A n : Del!Below(n)' = Del!Below(n)
  BY DEF Cause, OthersTook, Del!Marked, Del!Roots, Del!Below

(* What an answer or an interruption does to the slots and the types.      *)
LEMMA FreedOK ==
  ASSUME Del!DeletionsAssumption, DeletionInv, NEW o \in Op, NEW f, NEW s, Moves(o, f, s),
         s \notin {"waits", "asks"},
         slots' = IF f[2] = "asks" THEN slots + 1 ELSE slots
  PROVE  SlotsOK' /\ slots' \in Nat
  <1>1. /\ f \in Node \X Flight /\ f = <<f[1], f[2]>> /\ f[1] \in Node
        /\ \A p \in Op \ {o} : flight'[p] = flight[p]
        /\ \A n \in Node, t \in Flight :
             <<n, t>> \in flight'[o] <=> IF n = f[1] THEN t = s ELSE <<n, t>> \in flight[o]
    BY MovesOK DEF DeletionInv, OpOK, Del!DeletionsAssumption
  <1>2. \A k \in Node :
          <<k, "asks">> \in flight'[o] <=> <<k, "asks">> \in flight[o] /\ k # f[1]
    BY <1>1 DEF Flight
  <1>3. CASE f[2] = "asks"
    <2>1. <<o, f[1]>> \in Asking
      BY <1>1, <1>3 DEF Asking, Moves
    <2>2. Asking' = Asking \ {<<o, f[1]>>}
      BY <1>1, <1>2 DEF Asking
    <2>3. QED
      BY <1>3, <2>1, <2>2, AskLess DEF DeletionInv, DeletionTypeInv
  <1>4. CASE f[2] # "asks"
    <2>1. <<f[1], "asks">> \notin flight[o]
      BY <1>1, <1>4 DEF DeletionInv, OpOK, FlightOK, Moves
    <2>2. Asking' = Asking
      BY <1>1, <1>2, <2>1 DEF Asking
    <2>3. QED
      BY <1>4, <2>2, SameSlots DEF DeletionInv, DeletionTypeInv
  <1>5. QED
    BY <1>3, <1>4

LEMMA RequestOK ==
  ASSUME Del!DeletionsAssumption, DeletionInv, NEW o \in Op, Del!Request(o)
  PROVE  DeletionInv'
  <1> DEFINE Removes(n) == /\ n \in there /\ Del!Below(n) \cap there = {}
                           /\ there' = there \ {n} /\ gone' = gone \cup {<<o, n>>}
                           /\ UNCHANGED disturbed
             Stays == UNCHANGED <<there, gone>>
  <1>1. PICK n \in Node, how \in {"removed", "not found", "failed"} :
          /\ <<n, "asks">> \in flight[o] /\ Moves(o, <<n, "asks">>, how)
          /\ slots' = slots + 1
          /\ \/ how = "removed" /\ Removes(n)
             \/ how = "not found" /\ n \notin there /\ Stays /\ UNCHANGED disturbed
             \/ how = "failed" /\ Del!Below(n) \cap there # {} /\ Stays
                                  /\ UNCHANGED disturbed
             \/ how = "failed" /\ Stays /\ disturbed' = disturbed \cup {n}
    <2>1. PICK n \in Node :
            /\ <<n, "asks">> \in flight[o]
            /\ \/ /\ Del!Answered(o, n, Del!Outcome(n)) /\ UNCHANGED disturbed
                  /\ IF Del!Outcome(n) = "removed"
                       THEN there' = there \ {n} /\ gone' = gone \cup {<<o, n>>}
                     ELSE UNCHANGED <<there, gone>>
               \/ /\ Del!Answered(o, n, "failed") /\ disturbed' = disturbed \cup {n}
                  /\ UNCHANGED <<there, gone>>
      BY DEF Del!Request
    <2>2. \A how \in {"removed", "not found", "failed"} :
            Del!Answered(o, n, how) => Moves(o, <<n, "asks">>, how) /\ slots' = slots + 1
      BY <2>1 DEF Del!Answered, Del!Flies, Moves, Flight, DeletionInv, DeletionTypeInv
    <2>3. CASE Del!Outcome(n) = "removed" /\ Del!Answered(o, n, Del!Outcome(n))
               /\ UNCHANGED disturbed
               /\ there' = there \ {n} /\ gone' = gone \cup {<<o, n>>}
      BY <2>1, <2>2, <2>3 DEF Del!Outcome
    <2>4. CASE Del!Outcome(n) # "removed" /\ Del!Answered(o, n, Del!Outcome(n))
               /\ UNCHANGED disturbed /\ Stays
      BY <2>1, <2>2, <2>4 DEF Del!Outcome
    <2>5. CASE Del!Answered(o, n, "failed") /\ disturbed' = disturbed \cup {n} /\ Stays
      BY <2>1, <2>2, <2>5
    <2>6. QED
      BY <2>1, <2>3, <2>4, <2>5
  <1>2. /\ UNCHANGED <<deletion, deleteCancel, todo, found, files, dirs, round, failures,
                       ended, up, stray>>
        /\ up
    BY DEF Del!Request, Del!plan
  <1>3. deletion[o] = "delete" /\ n \in Flying(o)
    BY <1>1 DEF DeletionInv, OpOK, FlightOK, Flying
  <1>4. /\ flight' \in [Op -> SUBSET (Node \X Flight)]
        /\ IsFiniteSet(flight'[o]) /\ Cardinality(flight'[o]) <= Concurrent
        /\ \A g, h \in flight'[o] : g[1] = h[1] => g = h
        /\ Requested(o)' = Requested(o)
        /\ \A p \in Op \ {o} : flight'[p] = flight[p]
        /\ \A k \in Node, t \in Flight :
             <<k, t>> \in flight'[o] <=> IF k = n THEN t = how ELSE <<k, t>> \in flight[o]
    <2>1. Moves(o, <<n, "asks">>, how) /\ FlightOK(o) /\ Concurrent \in Nat
            /\ DeletionTypeInv
      BY <1>1 DEF DeletionInv, OpOK, Del!DeletionsAssumption
    <2>2. <<n, "asks">>[1] = n
      OBVIOUS
    <2>3. /\ flight' \in [Op -> SUBSET (Node \X Flight)]
          /\ IsFiniteSet(flight'[o]) /\ Cardinality(flight'[o]) <= Concurrent
          /\ \A g, h \in flight'[o] : g[1] = h[1] => g = h
          /\ Requested(o)' = Requested(o)
          /\ \A p \in Op \ {o} : flight'[p] = flight[p]
          /\ \A k \in Node, t \in Flight :
               <<k, t>> \in flight'[o]
                 <=> IF k = <<n, "asks">>[1] THEN t = how ELSE <<k, t>> \in flight[o]
      BY <2>1, MovesOK
    <2>4. QED
      BY <2>2, <2>3
  <1>5. /\ there' \subseteq there /\ gone \subseteq gone' /\ disturbed \subseteq disturbed'
        /\ \A g \in gone' : g \in gone \/ g = <<o, n>>
        /\ \A k \in there \ there' : k = n /\ <<o, n>> \in gone'
        /\ disturbed' \subseteq disturbed \cup {n}
    BY <1>1
  <1>6. Flying(o)' = Flying(o) \ {n}
    BY <1>4 DEF Flying, Flight
  <1>7. \A k \in Node :
          <<k, "failed">> \in flight'[o] => <<k, "failed">> \in flight[o] \/ how = "failed"
    BY <1>4 DEF Flight
  <1>8. /\ Cause(o) => Cause(o)'
        /\ Del!Roots(o)' = Del!Roots(o) /\ Del!Marked(o)' = Del!Marked(o)
        /\ \A k : Del!Below(k)' = Del!Below(k)
        /\ \A p \in Op : Del!Marked(p)' = Del!Marked(p)
    <2>1. up' => up
      BY <1>2
    <2>2. QED
      BY <1>5, <2>1, CauseGrows
  <1>9. how = "failed" => Cause(o)'
    <2>1. CASE Del!Below(n) \cap there # {}
      BY <1>3, <1>8, <2>1 DEF DeletionInv, OpOK, TreeOK
    <2>2. CASE disturbed' = disturbed \cup {n}
      BY <2>2 DEF Cause
    <2>3. QED
      BY <1>1, <2>1, <2>2
  <1>10. SlotsOK' /\ slots' \in Nat
    BY <1>1, FreedOK
  <1>11. DeletionTypeInv'
    <2>1. gone' \subseteq Op \X Node /\ there' \subseteq Node /\ disturbed' \subseteq Node
      <3>1. <<o, n>> \in Op \X Node
        OBVIOUS
      <3>2. QED
        BY <1>5, <3>1 DEF DeletionInv, DeletionTypeInv
    <2>2. QED
      BY <1>2, <1>4, <1>10, <2>1 DEF DeletionInv, DeletionTypeInv, PlanType
  <1>12. ASSUME NEW p \in Op \ {o}
         PROVE  OpOK(p)'
    <2>1. Kept(p)
      BY <1>2, <1>4 DEF Kept, DeletionInv, DeletionTypeInv
    <2>2. Outside(p)
      <3>1. <<o, n>>[1] = o /\ <<o, n>>[2] = n
        OBVIOUS
      <3>2. \A g \in (gone' \cup stray') \ (gone \cup stray) : g[1] # p
        BY <1>2, <1>5, <3>1
      <3>3. \A k \in there \ there' : \E g \in gone' : g[2] = k
        BY <1>5, <3>1
      <3>4. QED
        BY <1>2, <1>5, <3>2, <3>3 DEF Outside
    <2>3. QED
      BY <2>1, <2>2, KeptOK DEF DeletionInv
  <1>13. MarkedOK'
    <2>1. n \in Del!Marked(o)
      <3>1. n \in Requested(o)
        <4>1. <<n, "asks">>[1] = n
          OBVIOUS
        <4>2. QED
          BY <1>1, <4>1 DEF Requested
      <3>2. QED
        BY <3>1 DEF DeletionInv, MarkedOK
    <2>2. \A p \in Op : Requested(p)' \subseteq Del!Marked(p)
      <3>1. \A p \in Op \ {o} : Requested(p)' = Requested(p)
        BY <1>4 DEF Requested
      <3>2. QED
        BY <1>4, <3>1 DEF DeletionInv, MarkedOK, Requested
    <2>3. \A s \in stray' \cup gone' : s[2] \in Del!Marked(s[1])
      <3>1. <<o, n>>[1] = o /\ <<o, n>>[2] = n
        OBVIOUS
      <3>2. QED
        BY <1>2, <1>5, <2>1, <3>1 DEF DeletionInv, MarkedOK
    <2>4. stray' \cup gone' \subseteq Op \X Node
      BY <1>11 DEF DeletionTypeInv
    <2>5. QED
      BY <1>2, <1>8, <2>2, <2>3, <2>4 DEF DeletionInv, MarkedOK, Todo, Folders
  <1>14. OpOK(o)'
    <2>1. FlightOK(o)'
      <3>1. \A g \in flight'[o] : g[1] \in Requested(o)
        BY <1>4 DEF Requested
      <3>2. \A g \in flight'[o] : g[1] \notin round'[o]
        BY <1>2, <3>1 DEF DeletionInv, OpOK, FlightOK, Requested
      <3>3. QED
        BY <1>2, <1>3, <1>4, <3>2 DEF DeletionInv, OpOK, FlightOK
    <2>2. RootsOK(o)'
      <3>1. Failing(o) => Failing(o)'
        <4>1. \A k \in Node : <<k, "failed">> \in flight[o] => k # n
          BY <1>1 DEF DeletionInv, OpOK, FlightOK
        <4>2. QED
          BY <1>2, <1>4, <4>1 DEF Failing, Flight
      <3>2. how = "failed" => Failing(o)'
        BY <1>4 DEF Failing, Flight
      <3>3. AheadOf(o) \subseteq AheadOf(o)' \cup {n}
        BY <1>2, <1>3, <1>6 DEF AheadOf, Folders
      <3>4. how = "failed" \/ n \notin there'
        BY <1>1
      <3>5. QED
        BY <1>2, <1>5, <1>8, <3>1, <3>2, <3>3, <3>4 DEF DeletionInv, OpOK, RootsOK
    <2>3. CauseOK(o)'
      <3>1. Failing(o)' => Failing(o) \/ how = "failed"
        BY <1>2, <1>7 DEF Failing
      <3>2. \A k \in Node :
              <<k, "network">> \in flight'[o] => <<k, "network">> \in flight[o]
        BY <1>4 DEF Flight
      <3>3. QED
        BY <1>2, <1>8, <1>9, <3>1, <3>2 DEF DeletionInv, OpOK, CauseOK
    <2>4. SeenOK(o)'
      BY <1>2, <1>3 DEF SeenOK
    <2>5. TreeOK(o)'
      <3>1. ASSUME NEW m, NEW k, Entry(o, m, k), m # n \/ m \notin there'
            PROVE  Entry(o, m, k)' \/ m \notin there'
        BY <1>2, <1>6, <3>1 DEF Entry
      <3>2. n \notin there' \/ Cause(o)'
        BY <1>1, <1>9
      <3>3. ASSUME NEW d \in dirs'[o], NEW m \in Del!Below(d[2])' \cap there'
            PROVE  Entry(o, m, d[1] + 1)' \/ Cause(o)'
        <4>1. Entry(o, m, d[1] + 1) \/ Cause(o)
          BY <1>2, <1>3, <1>5, <1>8, <3>3 DEF DeletionInv, OpOK, TreeOK
        <4>2. QED
          BY <1>8, <3>1, <3>2, <3>3, <4>1
      <3>4. \A k \in round'[o] \cup Flying(o)' : Del!Below(k)' \cap there' = {} \/ Cause(o)'
        BY <1>2, <1>3, <1>5, <1>6, <1>8 DEF DeletionInv, OpOK, TreeOK
      <3>5. QED
        BY <1>2, <1>3, <3>3, <3>4 DEF DeletionInv, OpOK, TreeOK
    <2>6. QED
      BY <2>1, <2>2, <2>3, <2>4, <2>5 DEF OpOK
  <1>15. QED
    BY <1>10, <1>11, <1>12, <1>13, <1>14 DEF DeletionInv

LEMMA InterruptOK ==
  ASSUME Del!DeletionsAssumption, DeletionInv, NEW o \in Op, Del!Interrupt(o)
  PROVE  DeletionInv'
  <1>1. PICK f \in flight[o], how \in {"cancelled", "network"} :
          /\ f[2] \in {"waits", "asks"} /\ Moves(o, f, how) /\ (how = "network" => ~up)
          /\ slots' = IF f[2] = "asks" THEN slots + 1 ELSE slots
          /\ stray' = IF f[2] = "asks" THEN stray \cup {<<o, f[1]>>} ELSE stray
    <2>1. PICK f \in flight[o] :
            /\ f[2] \in {"waits", "asks"}
            /\ Del!Flies(o, (flight[o] \ {f})
                              \cup {<<f[1], IF deleteCancel[o] THEN "cancelled"
                                        ELSE "network">>})
            /\ slots' = IF f[2] = "asks" THEN slots + 1 ELSE slots
            /\ stray' = IF f[2] = "asks" THEN stray \cup {<<o, f[1]>>} ELSE stray
      BY DEF Del!Interrupt
    <2>2. PICK how \in {"cancelled", "network"} :
            how = (IF deleteCancel[o] THEN "cancelled"
                     ELSE "network") /\ (how = "network" => ~up)
      BY DEF Del!Interrupt
    <2>3. Moves(o, f, how)
      BY <2>1, <2>2 DEF Moves, Del!Flies, Flight, DeletionInv, DeletionTypeInv
    <2>4. QED
      BY <2>1, <2>2, <2>3
  <1>2. /\ UNCHANGED <<deletion, deleteCancel, todo, found, files, dirs, round, failures,
                       ended, up>>
        /\ UNCHANGED <<there, gone, disturbed>>
    BY DEF Del!Interrupt, Del!plan
  <1>3. deletion[o] = "delete"
    BY <1>1 DEF DeletionInv, OpOK, FlightOK
  <1>4. /\ flight' \in [Op -> SUBSET (Node \X Flight)]
        /\ IsFiniteSet(flight'[o]) /\ Cardinality(flight'[o]) <= Concurrent
        /\ \A g, h \in flight'[o] : g[1] = h[1] => g = h
        /\ Requested(o)' = Requested(o)
        /\ \A p \in Op \ {o} : flight'[p] = flight[p]
        /\ \A k \in Node, t \in Flight :
             <<k, t>> \in flight'[o] <=>
               IF k = f[1] THEN t = how ELSE <<k, t>> \in flight[o]
        /\ f = <<f[1], f[2]>> /\ f[1] \in Node
    <2>1. Moves(o, f, how) /\ FlightOK(o) /\ Concurrent \in Nat /\ DeletionTypeInv
      BY <1>1 DEF DeletionInv, OpOK, Del!DeletionsAssumption
    <2>2. QED
      BY <2>1, MovesOK
  <1>5. <<f[1], "failed">> \notin flight[o] /\ f[1] \in Flying(o)
    BY <1>1, <1>4 DEF DeletionInv, OpOK, FlightOK, Flying
  <1>6. Flying(o)' = Flying(o) /\ (Failing(o)' <=> Failing(o))
    <2>1. Failing(o)' <=> Failing(o)
      BY <1>1, <1>2, <1>4, <1>5 DEF Failing, Flight
    <2>2. \A k \in Node : k \in Flying(o)' <=> k \in Flying(o)
      BY <1>1, <1>4, <1>5 DEF Flying, Flight
    <2>3. QED
      BY <2>1, <2>2 DEF Flying
  <1>7. SlotsOK' /\ slots' \in Nat
    BY <1>1, FreedOK
  <1>8. \A s \in stray' : s \in stray \/ s = <<o, f[1]>>
    BY <1>1
  <1>9. DeletionTypeInv'
    <2>1. <<o, f[1]>> \in Op \X Node
      BY <1>4
    <2>2. stray' \subseteq Op \X Node
      BY <1>8, <2>1 DEF DeletionInv, DeletionTypeInv
    <2>3. QED
      BY <1>2, <1>4, <1>7, <2>2 DEF DeletionInv, DeletionTypeInv, PlanType
  <1>10. /\ Cause(o) => Cause(o)'
         /\ \A p \in Op : Del!Marked(p)' = Del!Marked(p)
         /\ Del!Roots(o)' = Del!Roots(o) /\ \A k : Del!Below(k)' = Del!Below(k)
    BY <1>2, CauseGrows
  <1>11. ASSUME NEW p \in Op \ {o}
         PROVE  OpOK(p)'
    <2>1. Kept(p)
      BY <1>2, <1>4 DEF Kept, DeletionInv, DeletionTypeInv
    <2>2. Outside(p)
      <3>1. <<o, f[1]>>[1] = o
        OBVIOUS
      <3>2. QED
        BY <1>2, <1>8, <3>1 DEF Outside
    <2>3. QED
      BY <2>1, <2>2, KeptOK DEF DeletionInv
  <1>12. MarkedOK'
    <2>1. f[1] \in Del!Marked(o)
      BY <1>1 DEF DeletionInv, MarkedOK, Requested
    <2>2. \A p \in Op : Requested(p)' \subseteq Del!Marked(p)
      <3>1. \A p \in Op \ {o} : Requested(p)' = Requested(p)
        BY <1>4 DEF Requested
      <3>2. QED
        BY <1>4, <3>1 DEF DeletionInv, MarkedOK, Requested
    <2>3. \A s \in stray' \cup gone' : s[2] \in Del!Marked(s[1])
      <3>1. <<o, f[1]>>[1] = o /\ <<o, f[1]>>[2] = f[1]
        OBVIOUS
      <3>2. QED
        BY <1>2, <1>8, <2>1, <3>1 DEF DeletionInv, MarkedOK
    <2>4. stray' \cup gone' \subseteq Op \X Node
      BY <1>9 DEF DeletionTypeInv
    <2>5. QED
      BY <1>2, <1>10, <2>2, <2>3, <2>4 DEF DeletionInv, MarkedOK, Todo, Folders
  <1>13. OpOK(o)'
    <2>1. FlightOK(o)'
      <3>1. \A g \in flight'[o] : g[1] \in Requested(o)
        BY <1>4 DEF Requested
      <3>2. \A g \in flight'[o] : g[1] \notin round'[o]
        BY <1>2, <3>1 DEF DeletionInv, OpOK, FlightOK, Requested
      <3>3. QED
        BY <1>2, <1>3, <1>4, <3>2 DEF DeletionInv, OpOK, FlightOK
    <2>2. RootsOK(o)'
      BY <1>2, <1>6, <1>10 DEF DeletionInv, OpOK, RootsOK, AheadOf, Todo, Folders
    <2>3. CauseOK(o)'
      <3>1. \A k \in Node : <<k, "network">> \in flight'[o] => ~up
        BY <1>1, <1>4 DEF Flight, DeletionInv, OpOK, CauseOK
      <3>2. QED
        BY <1>2, <1>6, <1>10, <3>1 DEF DeletionInv, OpOK, CauseOK
    <2>4. SeenOK(o)'
      BY <1>2, <1>3 DEF SeenOK
    <2>5. TreeOK(o)'
      <3>1. \A m, d : Entry(o, m, d) => Entry(o, m, d)'
        BY <1>2, <1>6 DEF Entry
      <3>2. QED
        BY <1>2, <1>3, <1>6, <1>10, <3>1 DEF DeletionInv, OpOK, TreeOK
    <2>6. QED
      BY <2>1, <2>2, <2>3, <2>4, <2>5 DEF OpOK
  <1>14. QED
    BY <1>7, <1>9, <1>11, <1>12, <1>13 DEF DeletionInv

(* Ending, an operation gives back the slots of all its requests.          *)
LEMMA AllFreed ==
  ASSUME Del!DeletionsAssumption, DeletionInv, NEW o \in Op,
         slots' = slots + Cardinality(Del!Asks(o)),
         flight' = [flight EXCEPT ![o] = {}]
  PROVE  SlotsOK' /\ slots' \in Nat
  <1> DEFINE Mine == {x \in Asking : x[1] = o}
             g == [x \in Mine |-> <<x[2], "asks">>]
  <1>1. IsFiniteSet(Asking) /\ IsFiniteSet(Mine) /\ Mine \subseteq Asking
    BY FS_Subset DEF DeletionInv, SlotsOK
  <1>2. Mine = {x \in {o} \X Node : <<x[2], "asks">> \in flight[o]}
    BY DEF Asking
  <1>3. \A f \in Del!Asks(o) : f[1] \in Node /\ f = <<f[1], "asks">>
    BY DEF Del!Asks, DeletionInv, DeletionTypeInv
  <1>4. g \in Bijection(Mine, Del!Asks(o))
    <2>1. g \in [Mine -> Del!Asks(o)]
      BY <1>2 DEF Del!Asks
    <2>2. \A x, y \in Mine : g[x] = g[y] => x = y
      BY <1>2
    <2>3. ASSUME NEW f \in Del!Asks(o)
          PROVE  \E x \in Mine : g[x] = f
      <3>1. <<o, f[1]>> \in Mine
        BY <1>2, <1>3, <2>3 DEF Del!Asks
      <3>2. g[<<o, f[1]>>] = f
        BY <1>3, <3>1
      <3>3. QED
        BY <3>1, <3>2
    <2> HIDE DEF Mine, g
    <2>4. g \in Injection(Mine, Del!Asks(o))
      BY <2>1, <2>2 DEF Injection, IsInjective
    <2>5. g \in Surjection(Mine, Del!Asks(o))
      BY <2>1, <2>3 DEF Surjection
    <2>6. QED
      BY <2>4, <2>5 DEF Bijection
  <1>5. Cardinality(Del!Asks(o)) = Cardinality(Mine)
    <2> HIDE DEF Mine, g
    <2>1. QED
      BY <1>1, <1>4, FS_Bijection DEF ExistsBijection
  <1>6. Asking' = Asking \ Mine
    <2>1. \A p \in Op, k \in Node :
            <<k, "asks">> \in flight'[p] <=> p # o /\ <<k, "asks">> \in flight[p]
      BY DEF DeletionInv, DeletionTypeInv
    <2>2. QED
      BY <2>1 DEF Asking
  <1>7. /\ IsFiniteSet(Asking \ Mine)
        /\ Cardinality(Asking \ Mine) = Cardinality(Asking) - Cardinality(Asking \cap Mine)
    BY <1>1, FS_Difference
  <1>8. Asking \cap Mine = Mine /\ Cardinality(Mine) \in Nat /\ Cardinality(Asking) \in Nat
    BY <1>1, FS_CardinalityType
  <1> HIDE DEF Mine
  <1>9. slots \in Nat /\ slots + Cardinality(Asking) = Concurrent
    BY DEF DeletionInv, DeletionTypeInv, SlotsOK
  <1>10. /\ slots' = slots + Cardinality(Mine)
         /\ Cardinality(Asking') = Cardinality(Asking) - Cardinality(Mine)
    BY <1>5, <1>6, <1>7, <1>8
  <1>11. slots' + Cardinality(Asking') = Concurrent /\ slots' \in Nat
    BY <1>8, <1>9, <1>10
  <1>12. QED
    BY <1>6, <1>7, <1>11 DEF SlotsOK

LEMMA JoinOK ==
  ASSUME Del!DeletionsAssumption, DeletionInv, NEW o \in Op, Del!Join(o)
  PROVE  DeletionInv'
  <1> DEFINE Breaks(f) == /\ f[2] \in {"cancelled", "network"}
                          /\ deletion' = [deletion EXCEPT ![o] = "over"]
                          /\ ended' = [ended EXCEPT ![o] =
                                         IF f[2] = "cancelled" THEN "cancelled" ELSE "error"]
                          /\ flight' = [flight EXCEPT ![o] = {}]
                          /\ slots' = slots + Cardinality(Del!Asks(o))
                          /\ stray' = stray \cup {<<o, g[1]>> : g \in Del!Asks(o)}
                          /\ UNCHANGED <<round, failures>>
             Counts(f) == /\ f[2] \in {"removed", "not found", "failed"}
                          /\ flight' = [flight EXCEPT ![o] = flight[o] \ {f}]
                          /\ failures' = [failures EXCEPT ![o] =
                                            IF f[2] = "failed" THEN @ + 1 ELSE @]
                          /\ UNCHANGED <<deletion, ended, round, slots, stray>>
  <1>1. PICK f \in flight[o] : Breaks(f) \/ Counts(f)
    BY SameOperators DEF Del!Join, Del!Ends, Del!Goes, Del!Flies, Del!Freed
  <1>2. /\ UNCHANGED <<deleteCancel, todo, found, files, dirs, up>>
        /\ UNCHANGED <<there, gone, disturbed>> /\ deletion[o] = "delete"
        /\ ended[o] = "active"
    BY DEF Del!Join, Del!plan, Del!In, DeletionInv, OpOK, FlightOK
  <1>3. f \in Node \X Flight /\ f = <<f[1], f[2]>> /\ flight[o] \subseteq Node \X Flight
    BY DEF DeletionInv, DeletionTypeInv
  <1>4. /\ Cause(o) => Cause(o)'
        /\ \A p \in Op : Del!Marked(p)' = Del!Marked(p)
        /\ Del!Roots(o)' = Del!Roots(o) /\ \A k : Del!Below(k)' = Del!Below(k)
    BY <1>2, CauseGrows
  <1>5. CASE Counts(f)
    <2>1. /\ flight'[o] = flight[o] \ {f} /\ Quiet
          /\ failures'[o] = IF f[2] = "failed" THEN failures[o] + 1 ELSE failures[o]
      BY <1>2, <1>5 DEF DeletionInv, DeletionTypeInv, Quiet
    <2>2. /\ Flying(o)' = Flying(o) /\ (Failing(o)' <=> Failing(o))
          /\ \A k \in Node : <<k, "asks">> \in flight'[o] <=> <<k, "asks">> \in flight[o]
          /\ \A k \in Node :
               <<k, "network">> \in flight'[o] => <<k, "network">> \in flight[o]
      <3>1. \A k \in Node, s \in {"waits", "asks", "cancelled", "network"} :
              <<k, s>> \in flight'[o] <=> <<k, s>> \in flight[o]
        <4>1. \A k \in Node, s \in {"waits", "asks", "cancelled", "network"} : <<k, s>> # f
          <5>1. f[2] \notin {"waits", "asks", "cancelled", "network"}
            BY <1>5
          <5>2. \A k, s : <<k, s>> = f => s = f[2]
            BY <1>3
          <5>3. QED
            BY <5>1, <5>2
        <4>2. QED
          BY <2>1, <4>1
      <3>2. Flying(o)' = Flying(o)
        BY <3>1 DEF Flying
      <3>3. Failing(o)' <=> Failing(o)
        <4>1. failures[o] \in Nat
          BY DEF DeletionInv, DeletionTypeInv
        <4>2. CASE f[2] = "failed"
          BY <1>1, <1>3, <2>1, <4>1, <4>2 DEF Failing
        <4>3. CASE f[2] # "failed"
          BY <1>3, <2>1, <4>3 DEF Failing
        <4>4. QED
          BY <4>2, <4>3
      <3>4. QED
        BY <3>1, <3>2, <3>3
    <2>3. DeletionTypeInv'
      <3>1. flight' \in [Op -> SUBSET (Node \X Flight)]
        BY <1>3, <1>5 DEF DeletionInv, DeletionTypeInv
      <3>2. failures' \in [Op -> Nat]
        <4>1. failures'[o] \in Nat
          BY <2>1 DEF DeletionInv, DeletionTypeInv
        <4>2. QED
          BY <1>5, <4>1 DEF DeletionInv, DeletionTypeInv
      <3>3. QED
        BY <1>2, <1>5, <3>1, <3>2 DEF DeletionInv, DeletionTypeInv, PlanType
    <2>4. SlotsOK'
      <3>1. \A p \in Op, k \in Node :
              <<k, "asks">> \in flight'[p] <=> <<k, "asks">> \in flight[p]
        BY <1>5, <2>2 DEF DeletionInv, DeletionTypeInv
      <3>2. Asking' = Asking
        BY <3>1 DEF Asking
      <3>3. QED
        BY <1>5, <3>2, SameSlots DEF DeletionInv
    <2>5. Alone(o)
      BY <1>2, <1>5 DEF Alone, Kept, DeletionInv, DeletionTypeInv
    <2>6. MarkedOK'
      <3>1. \A p \in Op : flight'[p] \subseteq flight[p]
        BY <1>5 DEF DeletionInv, DeletionTypeInv
      <3>2. \A p \in Op : Requested(p)' \subseteq Requested(p)
        BY <3>1 DEF Requested
      <3>3. QED
        BY <1>2, <1>4, <1>5, <2>3, <3>2 DEF DeletionInv, MarkedOK, Todo, Folders,
               DeletionTypeInv
    <2>7. OpOK(o)'
      <3>1. FlightOK(o)'
        <4>1. IsFiniteSet(flight'[o]) /\ Cardinality(flight'[o]) <= Concurrent
          <5>1. /\ IsFiniteSet(flight[o]) /\ Cardinality(flight[o]) \in Nat
                /\ Cardinality(flight[o]) <= Concurrent /\ Concurrent \in Nat
            BY FS_CardinalityType DEF DeletionInv, OpOK, FlightOK, Del!DeletionsAssumption
          <5>2. /\ IsFiniteSet(flight[o] \ {f})
                /\ Cardinality(flight[o] \ {f}) = Cardinality(flight[o]) - 1
            BY <1>1, <5>1, FS_RemoveElement
          <5>3. QED
            BY <2>1, <5>1, <5>2
        <4>2. QED
          BY <1>2, <1>5, <2>1, <4>1 DEF DeletionInv, OpOK, FlightOK
      <3>2. RootsOK(o)'
        BY <1>2, <1>4, <1>5, <2>2 DEF DeletionInv, OpOK, RootsOK, AheadOf, Folders
      <3>3. CauseOK(o)'
        BY <1>2, <1>4, <1>5, <2>2 DEF DeletionInv, OpOK, CauseOK
      <3>4. SeenOK(o)'
        BY <1>2, <1>5 DEF SeenOK
      <3>5. TreeOK(o)'
        <4>1. \A m, d : Entry(o, m, d) => Entry(o, m, d)'
          BY <1>2, <1>5, <2>2 DEF Entry
        <4>2. QED
          BY <1>2, <1>4, <1>5, <2>2, <4>1 DEF DeletionInv, OpOK, TreeOK
      <3>6. QED
        BY <3>1, <3>2, <3>3, <3>4, <3>5 DEF OpOK
    <2>8. QED
      BY <2>1, <2>3, <2>4, <2>5, <2>6, <2>7, QuietOthers DEF DeletionInv
  <1>6. CASE Breaks(f)
    <2>1. /\ deletion'[o] = "over" /\ flight'[o] = {} /\ UNCHANGED <<round, failures>>
          /\ ended'[o] = IF f[2] = "cancelled" THEN "cancelled" ELSE "error"
          /\ \A s \in stray' : s \in stray \/ \E g \in flight[o] : s = <<o, g[1]>>
      BY <1>6 DEF DeletionInv, DeletionTypeInv, Del!Asks
    <2>2. SlotsOK' /\ slots' \in Nat
      BY <1>6, AllFreed
    <2>3. DeletionTypeInv'
      <3>1. stray' \subseteq Op \X Node
        BY <1>3, <2>1 DEF DeletionInv, DeletionTypeInv
      <3>2. flight' \in [Op -> SUBSET (Node \X Flight)]
        BY <1>6 DEF DeletionInv, DeletionTypeInv
      <3>3. QED
        BY <1>2, <1>6, <2>2, <3>1, <3>2 DEF DeletionInv, DeletionTypeInv, PlanType, Phase
    <2>4. ASSUME NEW p \in Op \ {o}
          PROVE  OpOK(p)'
      <3>1. Kept(p)
        BY <1>2, <1>6 DEF Kept, DeletionInv, DeletionTypeInv
      <3>2. Outside(p)
        <4>1. \A s \in stray' : s \in stray \/ s[1] = o
          BY <2>1
        <4>2. QED
          BY <1>2, <4>1 DEF Outside
      <3>3. QED
        BY <3>1, <3>2, KeptOK DEF DeletionInv
    <2>5. MarkedOK'
      <3>1. \A p \in Op : flight'[p] \subseteq flight[p]
        BY <1>6 DEF DeletionInv, DeletionTypeInv
      <3>2. \A p \in Op : Requested(p)' \subseteq Requested(p)
        BY <3>1 DEF Requested
      <3>3. \A s \in stray' \cup gone' : s[2] \in Del!Marked(s[1])
        <4>1. \A g \in flight[o] : g[1] \in Requested(o)
          BY DEF Requested
        <4>2. \A g \in flight[o] : <<o, g[1]>>[1] = o /\ <<o, g[1]>>[2] \in Del!Marked(o)
          BY <4>1 DEF DeletionInv, MarkedOK
        <4>3. QED
          BY <1>2, <2>1, <4>2 DEF DeletionInv, MarkedOK
      <3>4. QED
        BY <1>2, <1>4, <2>1, <2>3, <3>2, <3>3 DEF DeletionInv, MarkedOK, Todo, Folders,
               DeletionTypeInv
    <2>6. OpOK(o)'
      <3>1. FlightOK(o)'
        BY <2>1, FS_EmptySet DEF FlightOK, Del!DeletionsAssumption
      <3>2. RootsOK(o)' /\ SeenOK(o)'
        BY <2>1 DEF RootsOK, SeenOK
      <3>3. CauseOK(o)'
        <4>1. f[2] = "network" => ~up
          BY <1>1, <1>3 DEF DeletionInv, OpOK, CauseOK
        <4>2. ended'[o] = "error" => Cause(o)'
          BY <1>2, <1>6, <2>1, <4>1 DEF Cause
        <4>3. Failing(o)' => Failing(o)
          BY <2>1 DEF Failing
        <4>4. QED
          BY <1>4, <2>1, <4>2, <4>3 DEF DeletionInv, OpOK, CauseOK
      <3>4. TreeOK(o)'
        BY <1>2, <2>1 DEF DeletionInv, OpOK, TreeOK
      <3>5. QED
        BY <3>1, <3>2, <3>3, <3>4 DEF OpOK
    <2>7. QED
      BY <2>2, <2>3, <2>4, <2>5, <2>6 DEF DeletionInv
  <1>7. QED
    BY <1>1, <1>5, <1>6

-----------------------------------------------------------------------------
(* The end, local removals, and others.                                    *)

LEMMA DeletionFinishOK ==
  ASSUME Del!DeletionsAssumption, DeletionInv, NEW o \in Op, Del!Finish(o)
  PROVE  DeletionInv'
  <1>1. /\ deletion[o] = "delete" /\ round[o] = {} /\ flight[o] = {} /\ dirs[o] = {}
        /\ Quiet
        /\ UNCHANGED <<deleteCancel, todo, found, files, dirs, round, flight, failures,
                       slots>>
        /\ deletion' = [deletion EXCEPT ![o] = "over"]
        /\ \E how \in {"done", "error", "cancelled"} :
             /\ ended' = [ended EXCEPT ![o] = how]
             /\ how = "done" => failures[o] = 0
             /\ how = "error" => failures[o] # 0
    BY DEF Del!Finish, Del!In, Del!Ends, Del!Goes, Del!plan, Del!server, Quiet
  <1>2. /\ deletion'[o] = "over" /\ ended'[o] \in {"done", "error", "cancelled"}
        /\ ended'[o] = "done" => failures[o] = 0
        /\ ended'[o] = "error" => failures[o] # 0
    BY <1>1 DEF DeletionInv, DeletionTypeInv
  <1>3. DeletionTypeInv'
    BY <1>1 DEF DeletionInv, DeletionTypeInv, PlanType, Phase, Quiet
  <1>4. SlotsOK'
    BY <1>1, SameSlots DEF DeletionInv, Asking
  <1>5. Alone(o)
    BY <1>1 DEF Alone, Kept, DeletionInv, DeletionTypeInv
  <1>6. MarkedOK'
    BY <1>1, QuietCause DEF DeletionInv, MarkedOK, Todo, Folders, Requested, Quiet
  <1>7. OpOK(o)'
    <2>1. FlightOK(o)' /\ SeenOK(o)'
      BY <1>1, <1>2 DEF DeletionInv, OpOK, FlightOK, SeenOK
    <2>2. RootsOK(o)'
      <3>1. AheadOf(o) = {} /\ (failures[o] = 0 => ~Failing(o))
        BY <1>1 DEF AheadOf, Folders, Flying, Failing
      <3>2. ended[o] = "active"
        BY <1>1 DEF DeletionInv, OpOK, FlightOK
      <3>3. QED
        BY <1>1, <1>2, <3>1, <3>2, QuietCause DEF DeletionInv, OpOK, RootsOK, Quiet
    <2>3. CauseOK(o)'
      <3>1. failures[o] # 0 => Cause(o)
        BY DEF DeletionInv, DeletionTypeInv, OpOK, CauseOK, Failing
      <3>2. Failing(o)' <=> Failing(o)
        BY <1>1 DEF Failing
      <3>3. QED
        BY <1>1, <1>2, <3>1, <3>2, QuietCause DEF DeletionInv, OpOK, CauseOK, Quiet
    <2>4. TreeOK(o)'
      BY <1>1, <1>2 DEF DeletionInv, OpOK, TreeOK
    <2>5. QED
      BY <2>1, <2>2, <2>3, <2>4 DEF OpOK
  <1>8. QED
    BY <1>1, <1>3, <1>4, <1>5, <1>6, <1>7, QuietOthers DEF DeletionInv

LEMMA LocalEndOK ==
  ASSUME Del!DeletionsAssumption, DeletionInv, NEW o \in Op, deletion[o] = "local", Quiet,
         UNCHANGED <<deleteCancel, todo, found, files, dirs, round, flight, failures,
                     slots>>,
         deletion' = [deletion EXCEPT ![o] = "over"],
         NEW how \in {"done", "error", "cancelled"}, ended' = [ended EXCEPT ![o] = how],
         how = "done" => failures[o] = 0 /\ todo[o] = <<>>,
         how = "error" => failures[o] # 0
  PROVE  DeletionInv'
  <1>1. /\ deletion'[o] = "over" /\ ended'[o] = how /\ flight[o] = {} /\ ended[o] = "active"
    BY DEF DeletionInv, DeletionTypeInv, OpOK, FlightOK
  <1>2. DeletionTypeInv'
    BY DEF DeletionInv, DeletionTypeInv, PlanType, Phase, Quiet
  <1>3. SlotsOK'
    BY SameSlots DEF DeletionInv, Asking
  <1>4. Alone(o)
    BY DEF Alone, Kept, DeletionInv, DeletionTypeInv
  <1>5. MarkedOK'
    BY QuietCause DEF DeletionInv, MarkedOK, Todo, Folders, Requested, Quiet
  <1>6. OpOK(o)'
    <2>1. FlightOK(o)' /\ SeenOK(o)'
      BY <1>1 DEF DeletionInv, OpOK, FlightOK, SeenOK
    <2>2. RootsOK(o)'
      <3>1. todo[o] = <<>> => AheadOf(o) = {}
        BY DEF AheadOf, Todo, ToSet
      <3>2. failures[o] = 0 => ~Failing(o)
        BY <1>1 DEF Failing
      <3>3. QED
        BY <1>1, <3>1, <3>2, QuietCause DEF DeletionInv, OpOK, RootsOK, Quiet
    <2>3. CauseOK(o)'
      <3>1. failures[o] # 0 => Cause(o)
        BY DEF DeletionInv, DeletionTypeInv, OpOK, CauseOK, Failing
      <3>2. Failing(o)' <=> Failing(o)
        BY DEF Failing
      <3>3. QED
        BY <1>1, <3>1, <3>2, QuietCause DEF DeletionInv, OpOK, CauseOK, Quiet
    <2>4. TreeOK(o)'
      BY <1>1 DEF DeletionInv, OpOK, TreeOK
    <2>5. QED
      BY <2>1, <2>2, <2>3, <2>4 DEF OpOK
  <1>7. QED
    BY <1>2, <1>3, <1>4, <1>5, <1>6, QuietOthers DEF DeletionInv

LEMMA RemoveLocalOK ==
  ASSUME Del!DeletionsAssumption, DeletionInv, NEW o \in Op, Del!RemoveLocal(o)
  PROVE  DeletionInv'
  <1> DEFINE n == Head(todo[o])[1]
             Removes(S) == there' = there \ S /\ gone' = gone \cup ({o} \X S)
             All == Removes(Del!Under[n] \cap there) /\ UNCHANGED <<failures, disturbed>>
             Part(S) == /\ Removes(S) /\ failures' = [failures EXCEPT ![o] = @ + 1]
                        /\ disturbed' = disturbed \cup {n}
  <1>1. deletion[o] = "local"
          /\ UNCHANGED <<deleteCancel, found, files, dirs, round, flight, slots, up, stray>>
    BY DEF Del!RemoveLocal, Del!In
  <1>2. CASE todo[o] = <<>>
    <2>1. PICK how \in {"done", "error", "cancelled"} :
            /\ ended' = [ended EXCEPT ![o] = how]
            /\ deletion' = [deletion EXCEPT ![o] = "over"]
            /\ how = "done" => failures[o] = 0 /\ todo[o] = <<>>
            /\ how = "error" => failures[o] # 0
            /\ UNCHANGED <<todo, failures, there, gone, disturbed>>
      BY <1>2 DEF Del!RemoveLocal, Del!Ends, Del!Goes
    <2>2. QED
      BY <1>1, <2>1, LocalEndOK DEF Quiet
  <1>3. CASE todo[o] # <<>> /\ deleteCancel[o]
    <2>1. /\ ended' = [ended EXCEPT ![o] = "cancelled"]
          /\ deletion' = [deletion EXCEPT ![o] = "over"]
          /\ UNCHANGED <<todo, failures, there, gone, disturbed>>
      BY <1>3 DEF Del!RemoveLocal, Del!Ends, Del!Goes
    <2>2. QED
      BY <1>1, <2>1, LocalEndOK DEF Quiet
  <1>4. CASE todo[o] # <<>> /\ ~deleteCancel[o]
    <2>1. /\ todo' = [todo EXCEPT ![o] = Tail(@)] /\ UNCHANGED <<deletion, ended>>
          /\ All \/ \E S \in SUBSET ((Del!Under[n] \cap there) \ {n}) : Part(S)
      BY <1>4 DEF Del!RemoveLocal
    <2>2. PICK S \in SUBSET (Del!Under[n] \cap there) :
            /\ Removes(S)
            /\ \/ S = Del!Under[n] \cap there /\ UNCHANGED <<failures, disturbed>>
               \/ Part(S)
      BY <2>1
    <2>3. /\ n \in Node /\ Tail(todo[o]) \in Seq(Node \X Nat) /\ n \in Todo(o)
          /\ Head(todo[o])[1] = n
          /\ ToSet(todo[o]) = {Head(todo[o])} \cup ToSet(Tail(todo[o]))
          /\ {x[1] : x \in ToSet(Tail(todo[o]))} \subseteq Todo(o)
      BY <1>4, NextItem
    <2> HIDE DEF n
    <2>4. /\ todo'[o] = Tail(todo[o]) /\ flight[o] = {} /\ ended[o] = "active"
          /\ Todo(o)' \subseteq Todo(o) /\ Todo(o) \subseteq Todo(o)' \cup {n}
          /\ failures'[o] = failures[o] \/ (failures'[o] = failures[o] + 1 /\ Part(S))
      <3>1. todo'[o] = Tail(todo[o])
        BY <2>1 DEF DeletionInv, DeletionTypeInv, PlanType
      <3>2. Todo(o)' \subseteq Todo(o) /\ Todo(o) \subseteq Todo(o)' \cup {n}
        BY <2>3, <3>1 DEF Todo
      <3>3. flight[o] = {} /\ ended[o] = "active"
        BY <1>1 DEF DeletionInv, OpOK, FlightOK
      <3>4. failures'[o] = failures[o] \/ (failures'[o] = failures[o] + 1 /\ Part(S))
        BY <2>2 DEF DeletionInv, DeletionTypeInv
      <3>5. QED
        BY <3>1, <3>2, <3>3, <3>4
    <2>5. /\ S \subseteq Node /\ S \subseteq Del!Marked(o) /\ n \in Del!Marked(o)
      <3>1. n \in Del!Marked(o)
        BY <2>3 DEF DeletionInv, MarkedOK
      <3>2. QED
        BY <2>2, <2>3, <3>1, UnderSelf, MarkedClosed
    <2>6. /\ there' = there \ S /\ gone \subseteq gone' /\ disturbed \subseteq disturbed'
          /\ disturbed' \subseteq disturbed \cup {n}
          /\ \A g \in gone' : g \in gone \/ (g[1] = o /\ g[2] \in S /\ g \in Op \X Node)
          /\ \A k \in S : \E g \in gone' : g[2] = k
      <3>1. gone' = gone \cup ({o} \X S) /\ there' = there \ S
        BY <2>2
      <3>2. \A k \in S : <<o, k>> \in gone' /\ <<o, k>>[2] = k
        BY <3>1
      <3>3. \A g \in {o} \X S : g[1] = o /\ g[2] \in S /\ g \in Op \X Node
        BY <2>5
      <3>4. disturbed \subseteq disturbed' /\ disturbed' \subseteq disturbed \cup {n}
        BY <2>2
      <3>5. \A k \in S : \E g \in gone' : g[2] = k
        BY <3>2
      <3>6. QED
        BY <3>1, <3>3, <3>4, <3>5
    <2>7. DeletionTypeInv'
      <3>1. todo' \in [Op -> Seq(Node \X Nat)]
        BY <2>1, <2>3, <2>4 DEF DeletionInv, DeletionTypeInv, PlanType
      <3>2. failures' \in [Op -> Nat]
        <4>1. failures'[o] \in Nat
          BY <2>4 DEF DeletionInv, DeletionTypeInv
        <4>2. QED
          BY <2>2, <4>1 DEF DeletionInv, DeletionTypeInv
      <3>3. gone' \subseteq Op \X Node /\ there' \subseteq Node /\ disturbed' \subseteq Node
        BY <2>3, <2>6 DEF DeletionInv, DeletionTypeInv
      <3>4. QED
        BY <1>1, <2>1, <3>1, <3>2, <3>3 DEF DeletionInv, DeletionTypeInv, PlanType
    <2>8. SlotsOK'
      BY <1>1, SameSlots DEF DeletionInv, Asking
    <2>9. /\ Cause(o) => Cause(o)'
          /\ \A p \in Op : Del!Marked(p)' = Del!Marked(p)
          /\ Del!Roots(o)' = Del!Roots(o) /\ \A k : Del!Below(k)' = Del!Below(k)
      BY <1>1, <2>6, CauseGrows
    <2>10. ASSUME NEW p \in Op \ {o}
           PROVE  OpOK(p)'
      <3>1. Kept(p)
        BY <1>1, <2>1, <2>2 DEF Kept, DeletionInv, DeletionTypeInv, PlanType
      <3>2. Outside(p)
        BY <1>1, <2>6 DEF Outside
      <3>3. QED
        BY <3>1, <3>2, KeptOK DEF DeletionInv
    <2>11. MarkedOK'
      <3>1. \A p \in Op : Todo(p)' \subseteq Del!Marked(p)
        <4>1. \A p \in Op \ {o} : todo'[p] = todo[p]
          BY <2>1 DEF DeletionInv, DeletionTypeInv, PlanType
        <4>2. QED
          BY <2>4, <4>1 DEF DeletionInv, MarkedOK, Todo
      <3>2. \A s \in stray' \cup gone' : s[2] \in Del!Marked(s[1])
        BY <1>1, <2>5, <2>6 DEF DeletionInv, MarkedOK
      <3>3. QED
        BY <1>1, <2>7, <2>9, <3>1, <3>2 DEF DeletionInv, MarkedOK, Folders, Requested,
               DeletionTypeInv
    <2>12. OpOK(o)'
      <3>1. FlightOK(o)' /\ SeenOK(o)'
        BY <1>1, <2>1 DEF DeletionInv, OpOK, FlightOK, SeenOK
      <3>2. RootsOK(o)'
        <4>1. CASE Part(S)
          <5>1. Failing(o)'
            BY <2>4, <2>7, <4>1 DEF Failing, DeletionTypeInv, DeletionInv
          <5>2. QED
            BY <5>1 DEF RootsOK
        <4>2. CASE S = Del!Under[n] \cap there /\ UNCHANGED <<failures, disturbed>>
          <5>1. n \notin there'
            BY <2>3, <2>6, <4>2, UnderSelf
          <5>2. Failing(o)' <=> Failing(o)
            BY <1>1, <4>2 DEF Failing
          <5>3. QED
            BY <1>1, <2>1, <2>4, <2>6, <2>9, <5>1, <5>2 DEF DeletionInv, OpOK, RootsOK,
                   AheadOf
        <4>3. QED
          BY <2>2, <4>1, <4>2
      <3>3. CauseOK(o)'
        <4>1. Failing(o)' => Cause(o)'
          <5>1. CASE Part(S)
            BY <5>1 DEF Cause
          <5>2. CASE UNCHANGED <<failures, disturbed>>
            BY <1>1, <2>9, <5>2 DEF DeletionInv, OpOK, CauseOK, Failing
          <5>3. QED
            BY <2>2, <5>1, <5>2
        <4>2. QED
          BY <1>1, <2>1, <2>4, <4>1 DEF CauseOK
      <3>4. TreeOK(o)'
        BY <1>1, <2>1 DEF DeletionInv, OpOK, TreeOK
      <3>5. QED
        BY <3>1, <3>2, <3>3, <3>4 DEF OpOK
    <2>13. QED
      BY <2>7, <2>8, <2>10, <2>11, <2>12 DEF DeletionInv
  <1>5. QED
    BY <1>2, <1>3, <1>4

(* Steps in which no operation moves.                                      *)
LEMMA OutsideOK ==
  ASSUME DeletionInv,
         UNCHANGED <<deletion, Del!plan, round, flight, failures, ended, slots>>,
         \A p \in Op : Outside(p), deleteCancel' \in [Op -> BOOLEAN], up' \in BOOLEAN,
         there' \subseteq Node, stray' \cup gone' \subseteq stray \cup gone,
         disturbed' \subseteq Node
  PROVE  DeletionInv'
  <1>1. \A p \in Op : OpOK(p)'
    BY KeptOK DEF DeletionInv, Kept, Del!plan
  <1>2. DeletionTypeInv'
    BY DEF DeletionInv, DeletionTypeInv, PlanType, Del!plan
  <1>3. SlotsOK'
    BY SameSlots DEF DeletionInv, Asking
  <1>4. MarkedOK'
    <2>1. \A p \in Op : Del!Marked(p)' = Del!Marked(p)
      BY DEF Del!Marked, Del!Roots
    <2>2. stray \cup gone \subseteq Op \X Node
      BY DEF DeletionInv, DeletionTypeInv
    <2>3. QED
      BY <2>1, <2>2 DEF DeletionInv, MarkedOK, Todo, Folders, Requested, Del!plan
  <1>5. QED
    BY <1>1, <1>2, <1>3, <1>4 DEF DeletionInv

LEMMA DeletionCancelOK ==
  ASSUME DeletionInv, NEW o \in Op, Del!Cancel(o)
  PROVE  DeletionInv'
  <1>1. \A p \in Op : Outside(p)
    BY DEF Del!Cancel, Outside, Del!server
  <1>2. deleteCancel' \in [Op -> BOOLEAN]
    BY DEF Del!Cancel, DeletionInv, DeletionTypeInv
  <1>3. QED
    BY <1>1, <1>2, OutsideOK DEF Del!Cancel, Del!server, DeletionInv, DeletionTypeInv

LEMMA ConnectionLostOK ==
  ASSUME DeletionInv, Del!ConnectionLost
  PROVE  DeletionInv'
  <1>1. \A p \in Op : Outside(p)
    BY DEF Del!ConnectionLost, Outside, Del!server
  <1>2. QED
    BY <1>1, OutsideOK DEF Del!ConnectionLost, Del!server, DeletionInv, DeletionTypeInv

LEMMA StrayRequestOK ==
  ASSUME DeletionInv, Del!StrayRequest
  PROVE  DeletionInv'
  <1>1. PICK s \in stray :
          /\ stray' = stray \ {s}
          /\ \/ there' = there \ {s[2]} /\ gone' = gone \cup {s}
             \/ UNCHANGED <<there, gone>>
    BY DEF Del!StrayRequest
  <1>2. UNCHANGED <<deletion, deleteCancel, Del!plan, round, flight, failures, ended, slots,
                    up, disturbed>>
    BY DEF Del!StrayRequest
  <1>3. \A p \in Op : Outside(p)
    BY <1>1, <1>2 DEF Outside
  <1>4. stray' \cup gone' \subseteq stray \cup gone /\ there' \subseteq Node
    BY <1>1 DEF DeletionInv, DeletionTypeInv
  <1>5. QED
    BY <1>2, <1>3, <1>4, OutsideOK DEF DeletionInv, DeletionTypeInv

LEMMA OtherCreatesOK ==
  ASSUME Del!DeletionsAssumption, DeletionInv, Del!OtherCreates
  PROVE  DeletionInv'
  <1>1. PICK n \in Late \cup {g[2] : g \in gone} :
          there' = there \cup {n} /\ disturbed' = disturbed \cup {n}
    BY DEF Del!OtherCreates
  <1>2. UNCHANGED <<deletion, deleteCancel, Del!plan, round, flight, failures, ended, slots,
                    up, stray, gone>>
    BY DEF Del!OtherCreates
  <1>3. n \in Node
    BY DEF DeletionInv, DeletionTypeInv, Del!DeletionsAssumption
  <1>4. \A p \in Op : Outside(p)
    BY <1>1, <1>2 DEF Outside
  <1>5. QED
    BY <1>1, <1>2, <1>3, <1>4, OutsideOK DEF DeletionInv, DeletionTypeInv

LEMMA DeletionInitOK ==
  ASSUME Del!DeletionsAssumption, Del!Init
  PROVE  DeletionInv
  <1>1. \A o \in Op : /\ Todo(o) = {} /\ Requested(o) = {} /\ Folders(o) = {} /\ ~Failing(o)
                      /\ Del!Roots(o) \subseteq there
    <2>1. \A o \in Op : Del!Roots(o) \subseteq Node
      BY MarkedClosed
    <2>2. QED
      BY <2>1 DEF Del!Init, Todo, ToSet, Requested, Folders, Failing, Del!Roots,
                  Del!DeletionsAssumption
  <1>2. Asking = {}
    BY DEF Del!Init, Asking
  <1>3. DeletionTypeInv
    BY DEF Del!Init, DeletionTypeInv, PlanType, Phase, Del!DeletionsAssumption
  <1>4. SlotsOK
    BY <1>2, FS_EmptySet DEF Del!Init, SlotsOK, Del!DeletionsAssumption
  <1>5. MarkedOK
    BY <1>1 DEF Del!Init, MarkedOK
  <1>6. ASSUME NEW o \in Op
        PROVE  OpOK(o)
    <2>1. FlightOK(o)
      BY FS_EmptySet DEF Del!Init, FlightOK, Del!DeletionsAssumption
    <2>2. RootsOK(o)
      BY <1>1 DEF Del!Init, RootsOK, AheadOf
    <2>3. CauseOK(o) /\ SeenOK(o) /\ TreeOK(o)
      BY <1>1 DEF Del!Init, CauseOK, SeenOK, TreeOK
    <2>4. QED
      BY <2>1, <2>2, <2>3 DEF OpOK
  <1>7. QED
    BY <1>3, <1>4, <1>5, <1>6 DEF DeletionInv

LEMMA DeletionNextOK ==
  ASSUME Del!DeletionsAssumption, DeletionInv, [Del!Next]_Del!vars
  PROVE  DeletionInv'
  <1>1. ASSUME NEW o \in Op,
               \/ Del!Begin(o) \/ Del!Stat(o) \/ Del!ReadDir(o) \/ Del!NextRound(o)
               \/ Del!Spawn(o) \/ Del!Acquire(o)
               \/ Del!Request(o) \/ Del!Interrupt(o) \/ Del!Join(o) \/ Del!Finish(o)
               \/ Del!RemoveLocal(o) \/ Del!Cancel(o)
        PROVE  DeletionInv'
    BY <1>1, BeginOK, StatOK, ReadDirOK, NextRoundOK, SpawnOK, AcquireOK, RequestOK,
       InterruptOK, JoinOK, DeletionFinishOK, RemoveLocalOK, DeletionCancelOK
  <1>2. ASSUME UNCHANGED Del!vars
        PROVE  DeletionInv'
    <2>1. \A p \in Op : Outside(p)
      BY <1>2 DEF Del!vars, Outside
    <2>2. QED
      BY <1>2, <2>1, OutsideOK DEF Del!vars, Del!plan, DeletionInv, DeletionTypeInv
  <1>3. QED
    BY <1>1, <1>2, ConnectionLostOK, StrayRequestOK, OtherCreatesOK DEF Del!Next

LEMMA DeletionInvSays ==
  ASSUME Del!DeletionsAssumption, DeletionInv
  PROVE  Del!TypeOK /\ Del!DoneMeansGone /\ Del!NothingElse /\ Del!ErrorHasCause
           /\ Del!SlotsComeBack
  <1>1. Del!TypeOK
    <2>1. slots \in 0 .. Concurrent
      BY FS_CardinalityType DEF DeletionInv, DeletionTypeInv, SlotsOK,
             Del!DeletionsAssumption
    <2>2. QED
      BY <2>1, SameOperators DEF DeletionInv, DeletionTypeInv, PlanType, Del!TypeOK, Phase,
             OpOK, FlightOK
  <1>2. Del!DoneMeansGone
    <2> SUFFICES ASSUME NEW o \in Op, ended[o] = "done"
                 PROVE  Del!Roots(o) \cap there \subseteq disturbed
      BY DEF Del!DoneMeansGone
    <2>1. deletion[o] = "over" /\ flight[o] = {} /\ failures[o] = 0
      BY DEF DeletionInv, OpOK, FlightOK
    <2>2. AheadOf(o) = {} /\ ~Failing(o)
      BY <2>1 DEF AheadOf, Failing
    <2>3. QED
      BY <2>2 DEF DeletionInv, OpOK, RootsOK
  <1>3. Del!NothingElse
    BY DEF Del!NothingElse, DeletionInv, MarkedOK
  <1>4. Del!ErrorHasCause
    <2> SUFFICES ASSUME NEW o \in Op, ended[o] = "error"
                 PROVE  Cause(o) \/ (found[o] = MaxEntries /\ todo[o] # <<>>)
      BY DEF Del!ErrorHasCause, Cause, OthersTook
    <2>1. QED
      BY DEF DeletionInv, OpOK, CauseOK
  <1>5. Del!SlotsComeBack
    <2> SUFFICES ASSUME \A o \in Op : deletion[o] = "over"
                 PROVE  slots = Concurrent
      BY DEF Del!SlotsComeBack, Del!In
    <2>1. Asking = {}
      BY DEF Asking, DeletionInv, OpOK, FlightOK
    <2>2. QED
      BY <2>1, FS_EmptySet DEF DeletionInv, SlotsOK, DeletionTypeInv
  <1>6. QED
    BY <1>1, <1>2, <1>3, <1>4, <1>5

-----------------------------------------------------------------------------

Ended == {"done", "failed", "error", "cancelled"}
RunRecord ==
  [task : Task, auto : BOOLEAN, at : Nat, sig : Schedule \cup {None},
   page : Tasks!Status \cup {"gone"}, pages : Nat, failed : BOOLEAN,
   call : {"sent", "active", "ended", "over"}, left : 0 .. Steps, cancel : BOOLEAN,
   result : Ended \cup {None}, row : Tasks!Status \cup {"none"}]

-----------------------------------------------------------------------------
(* The inductive invariant: what holds of each run, given the time t, the  *)
(* schedule state b and the number n of page loads, and of pairs of runs.  *)

(* Failed steps are shown before the answer.                               *)
FailureShown(run) == run.failed <=> run.result = "failed"

TaskRunOK(run, t, b, n) ==
  /\ run \in RunRecord
  \* A run this page has let go of is over.
  /\ run.pages <= n
  /\ run.pages = n /\ run.page # "running" => run.call = "over"
  \* The schedule counts from its last start.
  /\ run.at <= t
  /\ run.auto /\ b[run.task] # None => run.at <= b[run.task].last
  \* The row.
  /\ run.row = "running" <=> run.call = "active"
  /\ run.call = "sent" => run.row = "none" /\ run.result = None /\ ~run.failed
  /\ run.call = "active" /\ run.result # None => FailureShown(run)
  /\ run.call = "ended" =>
       run.result \in Ended /\ FailureShown(run) /\ run.row \in {"none",
                                                                 Tasks!RowStatus(run)}
  /\ run.call = "over" /\ run.page # "gone" /\ run.row # "none" => run.page = run.row

(* What the schedule promises of a run and a later one.                    *)
PairOK(run, later) ==
  run.task = later.task /\ later.auto =>
    /\ run.auto => \E time \in DueAt[later.sig] : run.at < time /\ time <= later.at
    /\ run.pages = later.pages => run.call = "over"

TaskTypes ==
  /\ now \in 0 .. MaxTime
  /\ task \in [Task -> [schedule : Schedule \cup {None}, host : BOOLEAN]]
  /\ \A t \in Task : baseline[t] \in Tasks!Baselines \cup {None}
  /\ runs \in Seq(RunRecord) /\ Len(runs) <= MaxRuns
  /\ dialog \in [task : Task \cup {None}, run : Nat] /\ dialog.run <= Len(runs)
  /\ dialog # Tasks!NoDialog => dialog.task \in Task
  /\ cancels \subseteq 1 .. Len(runs)
  /\ reloads \in Nat

TaskAllOK ==
  /\ \A r \in 1 .. Len(runs) : TaskRunOK(runs[r], now, baseline, reloads)
  /\ \A r, later \in 1 .. Len(runs) : r < later => PairOK(runs[r], runs[later])

TaskInv == TaskTypes /\ TaskAllOK
-----------------------------------------------------------------------------
(* Steps that leave the runs what they are.                                *)

LEMMA RunsType ==
  ASSUME TaskInv
  PROVE  /\ runs \in Seq(RunRecord) /\ Len(runs) \in Nat /\ Tasks!RunIds = 1 .. Len(runs)
         /\ \A r \in Tasks!RunIds : runs[r] \in RunRecord
  BY LenProperties, ElementOfSeq DEF TaskInv, TaskTypes, Tasks!RunIds

(* The same run, seen later.                                               *)
Same(run, new) ==
  /\ new.task = run.task /\ new.auto = run.auto /\ new.at = run.at /\ new.sig = run.sig
  /\ new.pages = run.pages /\ (run.call = "over" => new.call = "over")

LEMMA InPlace ==
  ASSUME TaskInv, runs' \in Seq(RunRecord), Len(runs') = Len(runs),
         \A r \in 1 .. Len(runs) :
           Same(runs[r], runs'[r]) /\ TaskRunOK(runs'[r], now', baseline', reloads')
  PROVE  TaskAllOK'
  <1>1. \A r, later \in 1 .. Len(runs) : r < later => PairOK(runs'[r], runs'[later])
    <2> SUFFICES ASSUME NEW r \in 1 .. Len(runs), NEW later \in 1 .. Len(runs), r < later
                 PROVE  PairOK(runs'[r], runs'[later])
      OBVIOUS
    <2>1. PairOK(runs[r], runs[later])
      BY DEF TaskInv, TaskAllOK
    <2>2. Same(runs[r], runs'[r]) /\ Same(runs[later], runs'[later])
      OBVIOUS
    <2>3. QED
      BY <2>1, <2>2 DEF PairOK, Same
  <1>2. QED
    BY <1>1 DEF TaskAllOK

LEMMA TaskOneRun ==
  ASSUME TaskInv, NEW r \in Tasks!RunIds, NEW x \in RunRecord, Same(runs[r], x),
         TaskRunOK(x, now, baseline, reloads), runs' = [runs EXCEPT ![r] = x],
         UNCHANGED <<now, baseline, reloads>>
  PROVE  TaskAllOK' /\ runs' \in Seq(RunRecord) /\ Len(runs') = Len(runs)
  <1>1. runs \in Seq(RunRecord) /\ r \in 1 .. Len(runs)
    BY RunsType
  <1>2. /\ runs' \in Seq(RunRecord) /\ Len(runs') = Len(runs)
        /\ \A j \in 1 .. Len(runs) : runs'[j] = IF j = r THEN x ELSE runs[j]
    BY <1>1, ExceptSeq
  <1>3. \A j \in 1 .. Len(runs) :
          Same(runs[j], runs'[j]) /\ TaskRunOK(runs'[j], now', baseline', reloads')
    BY <1>2 DEF Same, TaskInv, TaskAllOK
  <1>4. QED
    BY <1>2, <1>3, InPlace

(* Steps that touch no run.                                                *)
LEMMA NoRunTouched ==
  ASSUME TaskInv, UNCHANGED <<runs, now, baseline, reloads>>
  PROVE  TaskAllOK'
  BY DEF TaskInv, TaskAllOK

-----------------------------------------------------------------------------
LEMMA TaskRegisterOK ==
  ASSUME TaskInv, NEW r \in Tasks!RunIds, Tasks!Register(r)
  PROVE  TaskInv'
  <1>1. runs[r] \in RunRecord /\ TaskRunOK(runs[r], now, baseline, reloads)
          /\ runs[r].call = "sent"
    BY RunsType DEF TaskInv, TaskAllOK, Tasks!Register
  <1>2. CASE runs' = [runs EXCEPT ![r].call = "active", ![r].row = "running"]
    <2> DEFINE x == [runs[r] EXCEPT !.call = "active", !.row = "running"]
    <2>1. x \in RunRecord
      BY <1>1 DEF RunRecord, Tasks!Status
    <2>2. Same(runs[r], x) /\ TaskRunOK(x, now, baseline, reloads)
      BY <1>1, <2>1 DEF RunRecord, Same, TaskRunOK, FailureShown
    <2>3. runs' = [runs EXCEPT ![r] = x]
      BY <1>1, <1>2
    <2> HIDE DEF x
    <2>4. QED
      BY <2>1, <2>2, <2>3, TaskOneRun DEF TaskInv, TaskTypes, Tasks!Register
  <1>3. CASE runs' = [runs EXCEPT ![r].call = "ended", ![r].result = "error"]
    <2> DEFINE x == [runs[r] EXCEPT !.call = "ended", !.result = "error"]
    <2>1. x \in RunRecord
      BY <1>1 DEF RunRecord, Ended
    <2>2. Same(runs[r], x) /\ TaskRunOK(x, now, baseline, reloads)
      BY <1>1, <2>1 DEF RunRecord, Same, TaskRunOK, FailureShown, Ended
    <2>3. runs' = [runs EXCEPT ![r] = x]
      BY <1>1, <1>3
    <2> HIDE DEF x
    <2>4. QED
      BY <2>1, <2>2, <2>3, TaskOneRun DEF TaskInv, TaskTypes, Tasks!Register
  <1>4. QED
    BY <1>2, <1>3 DEF Tasks!Register

(* Steps run and end one way or another.                                   *)
LEMMA StepOK ==
  ASSUME Tasks!TaskRunsAssumption, TaskInv, NEW r \in Tasks!RunIds, Tasks!Step(r)
  PROVE  TaskInv'
  <1>1. /\ runs[r] \in RunRecord /\ TaskRunOK(runs[r], now, baseline, reloads)
        /\ runs[r].call = "active" /\ runs[r].result = None
    BY RunsType DEF TaskInv, TaskAllOK, Tasks!Step
  <1>2. CASE runs[r].left > 0 /\ runs' = [runs EXCEPT ![r].left = @ - 1]
    <2> DEFINE x == [runs[r] EXCEPT !.left = @ - 1]
    <2>1. x \in RunRecord
      <3>1. runs[r].left \in 0 .. Steps /\ runs[r].left - 1 \in 0 .. Steps
        BY <1>1, <1>2 DEF RunRecord, Tasks!TaskRunsAssumption
      <3>2. QED
        BY <1>1, <3>1 DEF RunRecord
    <2>2. Same(runs[r], x) /\ TaskRunOK(x, now, baseline, reloads)
      BY <1>1, <2>1 DEF RunRecord, Same, TaskRunOK, FailureShown
    <2>3. runs' = [runs EXCEPT ![r] = x]
      BY <1>1, <1>2
    <2> HIDE DEF x
    <2>4. QED
      BY <2>1, <2>2, <2>3, TaskOneRun DEF TaskInv, TaskTypes, Tasks!Step
  <1>3. ASSUME NEW how \in Ended, Tasks!Ends(r, how)
        PROVE  TaskInv'
    <2> DEFINE x == [runs[r] EXCEPT !.result = how, !.failed = how = "failed"]
    <2>1. x \in RunRecord
      BY <1>1 DEF RunRecord
    <2>2. Same(runs[r], x) /\ TaskRunOK(x, now, baseline, reloads)
      BY <1>1, <2>1 DEF RunRecord, Same, TaskRunOK, FailureShown
    <2>3. runs' = [runs EXCEPT ![r] = x]
      BY <1>1, <1>3 DEF Tasks!Ends
    <2> HIDE DEF x
    <2>4. QED
      BY <2>1, <2>2, <2>3, TaskOneRun DEF TaskInv, TaskTypes, Tasks!Step
  <1>4. QED
    BY <1>2, <1>3 DEF Tasks!Step, Ended

(* The row is written before the call answers.                             *)
LEMMA TaskFinishOK ==
  ASSUME TaskInv, NEW r \in Tasks!RunIds, Tasks!Finish(r)
  PROVE  TaskInv'
  <1>1. /\ runs[r] \in RunRecord /\ TaskRunOK(runs[r], now, baseline, reloads)
        /\ runs[r].call = "active" /\ runs[r].result # None
    BY RunsType DEF TaskInv, TaskAllOK, Tasks!Finish
  <1> DEFINE x == [runs[r] EXCEPT !.call = "ended",
                     !.row = IF @ = "running" THEN Tasks!RowStatus(runs[r]) ELSE @]
  <1>2. runs[r].result \in Ended /\ Tasks!RowStatus(runs[r]) \in Tasks!Status \ {"running"}
    BY <1>1 DEF RunRecord, Tasks!RowStatus, Tasks!Status, Ended
  <1>3. x \in RunRecord
    BY <1>1, <1>2 DEF RunRecord
  <1>4. /\ x.row = Tasks!RowStatus(runs[r]) /\ x.call = "ended" /\ x.result = runs[r].result
        /\ x.failed = runs[r].failed
    BY <1>1 DEF RunRecord, TaskRunOK
  <1>5. Tasks!RowStatus(x) = Tasks!RowStatus(runs[r])
    BY <1>4 DEF Tasks!RowStatus
  <1>6. Same(runs[r], x) /\ TaskRunOK(x, now, baseline, reloads)
    BY <1>1, <1>2, <1>3, <1>4, <1>5 DEF RunRecord, Same, TaskRunOK, FailureShown
  <1>7. runs' = [runs EXCEPT ![r] = x]
    BY <1>1 DEF Tasks!Finish
  <1> HIDE DEF x
  <1>8. QED
    BY <1>3, <1>6, <1>7, TaskOneRun DEF TaskInv, TaskTypes, Tasks!Finish

(* The page ends up with what the row says.                                *)
LEMMA TaskAnswerOK ==
  ASSUME Tasks!TaskRunsAssumption, TaskInv, NEW r \in Tasks!RunIds, Tasks!Answer(r)
  PROVE  TaskInv'
  <1>1. /\ runs[r] \in RunRecord /\ TaskRunOK(runs[r], now, baseline, reloads)
        /\ runs[r].call = "ended"
    BY RunsType DEF TaskInv, TaskAllOK, Tasks!Answer
  <1> DEFINE page == IF runs[r].page = "gone" \/ dialog.run # r
                     THEN "gone" ELSE Tasks!PageStatus(runs[r])
             x == Tasks!Over([runs[r] EXCEPT !.page = page])
  <1>2. Tasks!PageStatus(runs[r]) = Tasks!RowStatus(runs[r])
          /\ Tasks!PageStatus(runs[r]) \in Tasks!Status
    BY <1>1 DEF TaskRunOK, FailureShown, Tasks!PageStatus, Tasks!RowStatus, Ended,
                Tasks!Status
  <1>3. page \in {"gone", Tasks!RowStatus(runs[r])} /\ page \in Tasks!Status \cup {"gone"}
    BY <1>2
  <1>4. runs' = [runs EXCEPT ![r] = x]
    BY <1>1 DEF Tasks!Answer
  <1> HIDE DEF page
  <1>5. x \in RunRecord
    <2>1. 0 \in 0 .. Steps
      BY DEF Tasks!TaskRunsAssumption
    <2>2. QED
      BY <1>1, <1>3, <2>1 DEF RunRecord, Tasks!Over
  <1>6. /\ x.page = page /\ x.call = "over" /\ x.row = runs[r].row
        /\ x.task = runs[r].task /\ x.auto = runs[r].auto /\ x.at = runs[r].at
        /\ x.sig = runs[r].sig /\ x.pages = runs[r].pages
    BY <1>1 DEF RunRecord, Tasks!Over
  <1> HIDE DEF x
  <1>7. Same(runs[r], x) /\ TaskRunOK(x, now, baseline, reloads)
    BY <1>1, <1>3, <1>5, <1>6 DEF Same, TaskRunOK
  <1>8. QED
    BY <1>4, <1>5, <1>7, TaskOneRun DEF TaskInv, TaskTypes, Tasks!Answer

LEMMA TaskDeleteRowOK ==
  ASSUME TaskInv, NEW r \in Tasks!RunIds, Tasks!DeleteRow(r)
  PROVE  TaskInv'
  <1>1. /\ runs[r] \in RunRecord /\ TaskRunOK(runs[r], now, baseline, reloads)
        /\ runs[r].row \in {"done", "error", "cancelled"}
    BY RunsType DEF TaskInv, TaskAllOK, Tasks!DeleteRow
  <1> DEFINE x == [runs[r] EXCEPT !.row = "none"]
  <1>2. x \in RunRecord
    BY <1>1 DEF RunRecord
  <1>3. Same(runs[r], x) /\ TaskRunOK(x, now, baseline, reloads)
    BY <1>1, <1>2 DEF RunRecord, Same, TaskRunOK, FailureShown
  <1>4. runs' = [runs EXCEPT ![r] = x]
    BY <1>1 DEF Tasks!DeleteRow
  <1> HIDE DEF x
  <1>5. QED
    BY <1>2, <1>3, <1>4, TaskOneRun DEF TaskInv, TaskTypes, Tasks!DeleteRow

LEMMA TaskHandleCancelOK ==
  ASSUME TaskInv, Tasks!HandleCancel
  PROVE  TaskInv'
  <1>1. PICK r \in cancels :
          /\ cancels' = cancels \ {r}
          /\ runs' = IF runs[r].call = "active"
                     THEN [runs EXCEPT ![r].cancel = TRUE] ELSE runs
    BY DEF Tasks!HandleCancel
  <1>2. r \in Tasks!RunIds
    BY RunsType DEF TaskInv, TaskTypes
  <1>3. CASE runs[r].call = "active"
    <2>1. runs[r] \in RunRecord /\ TaskRunOK(runs[r], now, baseline, reloads)
      BY <1>2, RunsType DEF TaskInv, TaskAllOK
    <2> DEFINE x == [runs[r] EXCEPT !.cancel = TRUE]
    <2>2. x \in RunRecord
      BY <2>1 DEF RunRecord
    <2>3. Same(runs[r], x) /\ TaskRunOK(x, now, baseline, reloads)
      BY <1>3, <2>1, <2>2 DEF RunRecord, Same, TaskRunOK, FailureShown
    <2>4. runs' = [runs EXCEPT ![r] = x]
      BY <1>1, <1>3, <2>1
    <2> HIDE DEF x
    <2>5. QED
      BY <1>1, <1>2, <2>2, <2>3, <2>4, TaskOneRun DEF TaskInv, TaskTypes, Tasks!HandleCancel
  <1>4. CASE runs[r].call # "active"
    BY <1>1, <1>4, NoRunTouched DEF TaskInv, TaskTypes, Tasks!HandleCancel
  <1>5. QED
    BY <1>3, <1>4

(* Time goes by.                                                           *)
LEMMA PassOK ==
  ASSUME Tasks!TaskRunsAssumption, TaskInv, Tasks!Pass
  PROVE  TaskInv'
  <1>1. now \in Nat /\ now' = now + 1 /\ now' \in 0 .. MaxTime
        /\ UNCHANGED <<task, baseline, runs, dialog, cancels, edits, reloads>>
    BY DEF Tasks!Pass, TaskInv, TaskTypes, Tasks!TaskRunsAssumption
  <1>2. \A r \in 1 .. Len(runs) :
          Same(runs[r], runs'[r]) /\ TaskRunOK(runs'[r], now', baseline', reloads')
    <2> SUFFICES ASSUME NEW r \in 1 .. Len(runs)
                 PROVE  Same(runs[r], runs[r])
                          /\ TaskRunOK(runs[r], now', baseline', reloads')
      BY <1>1
    <2>1. TaskRunOK(runs[r], now, baseline, reloads)
      BY DEF TaskInv, TaskAllOK
    <2>2. runs[r].at \in Nat /\ (runs[r].at <= now => runs[r].at <= now')
      BY <1>1, <2>1 DEF TaskRunOK, RunRecord
    <2>3. QED
      BY <1>1, <2>1, <2>2 DEF TaskRunOK, Same
  <1>3. TaskAllOK'
    BY <1>1, <1>2, InPlace DEF TaskInv, TaskTypes
  <1>4. QED
    BY <1>1, <1>3 DEF TaskInv, TaskTypes

(* What the page lets go of is over.                                       *)
LEMMA DismissedOK ==
  ASSUME TaskInv, NEW new, new = Tasks!Dismissed(dialog.run)
  PROVE  /\ new \in Seq(RunRecord) /\ Len(new) = Len(runs)
         /\ \A r \in 1 .. Len(runs) :
              Same(runs[r], new[r]) /\ TaskRunOK(new[r], now, baseline, reloads)
  <1> DEFINE d == dialog.run
  <1>1. \A r \in 1 .. Len(runs) :
          Same(runs[r], runs[r]) /\ TaskRunOK(runs[r], now, baseline, reloads)
    BY DEF Same, TaskInv, TaskAllOK
  <1>2. CASE d # Tasks!NoRun /\ runs[d].page # "running"
    <2>1. d \in 1 .. Len(runs) /\ runs \in Seq(RunRecord) /\ d \in Tasks!RunIds
      BY <1>2, RunsType DEF TaskInv, TaskTypes, Tasks!NoRun
    <2>2. runs[d] \in RunRecord /\ TaskRunOK(runs[d], now, baseline, reloads)
      BY <1>1, <2>1, RunsType
    <2> DEFINE x == [runs[d] EXCEPT !.page = "gone"]
    <2>3. x \in RunRecord
      BY <2>2 DEF RunRecord
    <2>4. Tasks!RowStatus(x) = Tasks!RowStatus(runs[d])
      BY <2>2 DEF Tasks!RowStatus, RunRecord
    <2>5. Same(runs[d], x) /\ TaskRunOK(x, now, baseline, reloads)
      BY <1>2, <2>2, <2>3, <2>4 DEF RunRecord, Same, TaskRunOK, FailureShown
    <2>6. new = [runs EXCEPT ![d] = x]
      BY <1>2, <2>1 DEF Tasks!Dismissed
    <2> HIDE DEF x, d
    <2>7. /\ new \in Seq(RunRecord) /\ Len(new) = Len(runs)
          /\ \A j \in 1 .. Len(runs) : new[j] = IF j = d THEN x ELSE runs[j]
      BY <2>1, <2>3, <2>6, ExceptSeq
    <2>8. QED
      BY <1>1, <2>5, <2>7
  <1>3. CASE ~(d # Tasks!NoRun /\ runs[d].page # "running")
    <2>1. new = runs
      BY <1>3 DEF Tasks!Dismissed
    <2>2. QED
      BY <1>1, <2>1, RunsType
  <1>4. QED
    BY <1>2, <1>3

LEMMA TaskCloseDialogOK ==
  ASSUME Tasks!TaskRunsAssumption, TaskInv, Tasks!CloseDialog
  PROVE  TaskInv'
  <1>1. /\ dialog' = Tasks!NoDialog /\ runs' = Tasks!Dismissed(dialog.run)
        /\ UNCHANGED <<now, task, baseline, cancels, edits, reloads>>
    BY DEF Tasks!CloseDialog
  <1>2. /\ runs' \in Seq(RunRecord) /\ Len(runs') = Len(runs)
        /\ \A r \in 1 .. Len(runs) :
             Same(runs[r], runs'[r]) /\ TaskRunOK(runs'[r], now, baseline, reloads)
    BY <1>1, DismissedOK
  <1>3. TaskAllOK'
    BY <1>1, <1>2, InPlace
  <1>4. QED
    BY <1>1, <1>2, <1>3, RunsType DEF TaskInv, TaskTypes, Tasks!NoDialog, Tasks!NoRun

(* The first page load of its kind ends all that the page before knew.     *)
LEMMA ReloadOK ==
  ASSUME Tasks!TaskRunsAssumption, TaskInv, Tasks!Reload \/ Tasks!Restart
  PROVE  TaskInv'
  <1>1. /\ reloads \in Nat /\ reloads' = reloads + 1 /\ dialog' = Tasks!NoDialog
        /\ UNCHANGED <<now, task, baseline>> /\ cancels' \in {{}, cancels}
    BY DEF Tasks!Reload, Tasks!Restart, TaskInv, TaskTypes
  <1>2. Len(runs) \in Nat /\ Tasks!RunIds = 1 .. Len(runs)
          /\ \A r \in Tasks!RunIds : runs[r] \in RunRecord
    BY RunsType
  <1>3. ASSUME NEW r \in Tasks!RunIds, NEW x,
               \/ x = [runs[r] EXCEPT !.page = "gone",
                                     !.cancel = @ \/ runs[r].call = "active"]
               \/ x = Tasks!Over([runs[r] EXCEPT !.page = "gone",
                                  !.row = Tasks!Interrupted(@)])
        PROVE  x \in RunRecord /\ Same(runs[r], x)
                 /\ TaskRunOK(x, now', baseline', reloads')
    <2>1. runs[r] \in RunRecord /\ TaskRunOK(runs[r], now, baseline, reloads)
      BY <1>2 DEF TaskInv, TaskAllOK
    <2>2. runs[r].pages \in Nat /\ runs[r].pages < reloads'
      BY <1>1, <2>1 DEF TaskRunOK, RunRecord
    <2>3. CASE x = [runs[r] EXCEPT !.page = "gone", !.cancel = @ \/ runs[r].call = "active"]
      <3>1. x \in RunRecord
        BY <2>1, <2>3 DEF RunRecord
      <3>2. /\ x.page = "gone" /\ x.call = runs[r].call /\ x.row = runs[r].row
            /\ x.task = runs[r].task /\ x.auto = runs[r].auto /\ x.at = runs[r].at
            /\ x.sig = runs[r].sig /\ x.pages = runs[r].pages
            /\ x.result = runs[r].result /\ x.failed = runs[r].failed
        BY <2>1, <2>3 DEF RunRecord
      <3>3. QED
        BY <1>1, <2>1, <2>2, <3>1, <3>2 DEF Same, TaskRunOK, FailureShown, Tasks!RowStatus
    <2>4. CASE x = Tasks!Over([runs[r] EXCEPT !.page = "gone", !.row = Tasks!Interrupted(@)])
      <3>1. Tasks!Interrupted(runs[r].row) \in (Tasks!Status \cup {"none"}) \ {"running"}
        BY <2>1 DEF Tasks!Interrupted, RunRecord, Tasks!Status
      <3>2. 0 \in 0 .. Steps
        BY DEF Tasks!TaskRunsAssumption
      <3>3. x \in RunRecord
        BY <2>1, <2>4, <3>1, <3>2 DEF RunRecord, Tasks!Over
      <3>4. /\ x.page = "gone" /\ x.call = "over" /\ x.row # "running"
            /\ x.task = runs[r].task /\ x.auto = runs[r].auto /\ x.at = runs[r].at
            /\ x.sig = runs[r].sig /\ x.pages = runs[r].pages
        BY <2>1, <2>4, <3>1 DEF RunRecord, Tasks!Over
      <3>5. QED
        BY <1>1, <2>1, <2>2, <3>3, <3>4 DEF Same, TaskRunOK
    <2>5. QED
      BY <1>3, <2>3, <2>4
  <1>4. /\ runs' \in [1 .. Len(runs) -> RunRecord]
        /\ \A r \in Tasks!RunIds :
             Same(runs[r], runs'[r]) /\ TaskRunOK(runs'[r], now', baseline', reloads')
    BY <1>2, <1>3 DEF Tasks!Reload, Tasks!Restart
  <1>5. runs' \in Seq(RunRecord) /\ Len(runs') = Len(runs)
    BY <1>2, <1>4
  <1>6. TaskAllOK'
    BY <1>2, <1>4, <1>5, InPlace
  <1>7. Tasks!NoDialog \in [task : Task \cup {None}, run : Nat]
          /\ Tasks!NoDialog.run <= Len(runs)
    BY <1>2 DEF Tasks!NoDialog, Tasks!NoRun
  <1>8. now' \in 0 .. MaxTime /\ reloads' \in Nat /\ cancels' \subseteq 1 .. Len(runs')
    <2>1. cancels \subseteq 1 .. Len(runs) /\ now \in 0 .. MaxTime
      BY DEF TaskInv, TaskTypes
    <2>2. cancels' \subseteq cancels
      BY <1>1
    <2>3. QED
      BY <1>1, <1>5, <2>1, <2>2
  <1>9. QED
    BY <1>1, <1>5, <1>6, <1>7, <1>8 DEF TaskInv, TaskTypes

LEMMA TaskDialogOK ==
  ASSUME TaskInv,
         \/ \E t \in Task : Tasks!OpenDialog(t) \/ Tasks!SaveTask(t)
         \/ Tasks!PressCancel
            \/ UNCHANGED Tasks!vars
  PROVE  TaskInv'
  <1>1. Len(runs) \in Nat /\ Tasks!RunIds = 1 .. Len(runs)
    BY RunsType
  <1>2. CASE \E t \in Task : Tasks!OpenDialog(t)
    <2>1. PICK t \in Task : Tasks!OpenDialog(t)
      BY <1>2
    <2>2. UNCHANGED <<now, task, baseline, runs, cancels, edits, reloads>>
      BY <2>1 DEF Tasks!OpenDialog
    <2>3. \E r \in {Tasks!NoRun} \cup Tasks!RunIds : dialog' = [task |-> t, run |-> r]
      BY <2>1 DEF Tasks!OpenDialog, Tasks!RunsOf
    <2>4. QED
      BY <1>1, <2>2, <2>3, NoRunTouched DEF TaskInv, TaskTypes, Tasks!NoRun
  <1>3. CASE \E t \in Task : Tasks!SaveTask(t)
    BY <1>3, NoRunTouched DEF Tasks!SaveTask, TaskInv, TaskTypes
  <1>4. CASE Tasks!PressCancel
    BY <1>1, <1>4, NoRunTouched DEF Tasks!PressCancel, TaskInv, TaskTypes
  <1>5. CASE UNCHANGED Tasks!vars
    BY <1>5, NoRunTouched DEF Tasks!vars, TaskInv, TaskTypes
  <1>6. QED
    BY <1>2, <1>3, <1>4, <1>5

-----------------------------------------------------------------------------
(* Steps that start runs: `old' are the runs there were, `new' the others. *)

LEMMA Grow ==
  ASSUME TaskInv, NEW old \in Seq(RunRecord), Len(old) = Len(runs),
         \A r \in 1 .. Len(runs) :
           Same(runs[r], old[r]) /\ TaskRunOK(old[r], now', baseline', reloads'),
         NEW new \in Seq(RunRecord),
         \A i \in 1 .. Len(new) : TaskRunOK(new[i], now', baseline', reloads'),
         \A r \in 1 .. Len(runs), i \in 1 .. Len(new) : PairOK(old[r], new[i]),
         \A i, j \in 1 .. Len(new) : i < j => PairOK(new[i], new[j]),
         runs' = old \o new
  PROVE  TaskAllOK' /\ runs' \in Seq(RunRecord) /\ Len(runs') = Len(runs) + Len(new)
  <1>1. Len(runs) \in Nat /\ Len(new) \in Nat
    BY RunsType, LenProperties
  <1>2. /\ runs' \in Seq(RunRecord) /\ Len(runs') = Len(runs) + Len(new)
        /\ \A i \in 1 .. Len(runs) + Len(new) :
             runs'[i] = IF i <= Len(runs) THEN old[i] ELSE new[i - Len(runs)]
    <2>1. /\ old \o new \in Seq(RunRecord) /\ Len(old \o new) = Len(old) + Len(new)
          /\ \A i \in 1 .. Len(old) + Len(new) :
               (old \o new)[i] = IF i <= Len(old) THEN old[i] ELSE new[i - Len(old)]
      BY ConcatProperties
    <2>2. QED
      BY <2>1
  <1>3. \A r \in 1 .. Len(runs') : TaskRunOK(runs'[r], now', baseline', reloads')
    BY <1>1, <1>2
  <1>4. ASSUME NEW r \in 1 .. Len(runs'), NEW later \in 1 .. Len(runs'), r < later
        PROVE  PairOK(runs'[r], runs'[later])
    <2>1. CASE later <= Len(runs)
      <3>1. r \in 1 .. Len(runs) /\ later \in 1 .. Len(runs)
        BY <1>1, <1>2, <1>4, <2>1
      <3>2. PairOK(runs[r], runs[later]) /\ Same(runs[r], old[r])
              /\ Same(runs[later], old[later])
        BY <1>4, <3>1 DEF TaskInv, TaskAllOK
      <3>3. runs'[r] = old[r] /\ runs'[later] = old[later]
        BY <1>1, <1>2, <3>1
      <3>4. QED
        BY <3>2, <3>3 DEF PairOK, Same
    <2>2. CASE ~(later <= Len(runs)) /\ r <= Len(runs)
      BY <1>1, <1>2, <2>2
    <2>3. CASE ~(later <= Len(runs)) /\ ~(r <= Len(runs))
      <3>1. /\ r - Len(runs) \in 1 .. Len(new) /\ later - Len(runs) \in 1 .. Len(new)
            /\ r - Len(runs) < later - Len(runs)
        BY <1>1, <1>2, <1>4, <2>3
      <3>2. QED
        BY <1>1, <1>2, <2>3, <3>1
    <2>4. QED
      BY <2>1, <2>2, <2>3
  <1>5. QED
    BY <1>2, <1>3, <1>4 DEF TaskAllOK

LEMMA PressRunOK ==
  ASSUME Tasks!TaskRunsAssumption, TaskInv, Tasks!PressRun
  PROVE  TaskInv'
  <1> DEFINE d == dialog.run
             t == dialog.task
             x == Tasks!Run(t, FALSE, reloads)
  <1>1. PICK old : old = Tasks!Dismissed(d)
    OBVIOUS
  <1>2. /\ old \in Seq(RunRecord) /\ Len(old) = Len(runs)
        /\ \A r \in 1 .. Len(runs) :
             Same(runs[r], old[r]) /\ TaskRunOK(old[r], now, baseline, reloads)
    BY <1>1, DismissedOK
  <1>3. /\ t \in Task /\ now \in Nat /\ reloads \in Nat /\ Len(runs) \in Nat
        /\ Len(runs) + 1 <= MaxRuns
        /\ UNCHANGED <<now, task, baseline, cancels, edits, reloads>>
        /\ runs' = Append(old, x)
        /\ dialog' = [dialog EXCEPT !.run = Len(runs) + 1]
    BY <1>1, RunsType DEF Tasks!PressRun, TaskInv, TaskTypes, Tasks!TaskRunsAssumption
  <1>4. /\ x.auto = FALSE /\ x.at = 0 /\ x.task = t /\ x.page = "running"
        /\ x.pages = reloads
        /\ x.call = "sent" /\ x.row = "none" /\ x.result = None /\ x.failed = FALSE
    BY DEF Tasks!Run
  <1>5. x \in RunRecord
    <2>1. Steps \in 0 .. Steps
      BY DEF Tasks!TaskRunsAssumption
    <2>2. QED
      BY <1>3, <2>1 DEF Tasks!Run, RunRecord, Tasks!Status
  <1> HIDE DEF x, t
  <1>6. TaskRunOK(x, now, baseline, reloads) /\ \A r \in 1 .. Len(runs) : PairOK(old[r], x)
    BY <1>3, <1>4, <1>5 DEF TaskRunOK, PairOK
  <1>7. /\ <<x>> \in Seq(RunRecord) /\ Len(<<x>>) = 1 /\ <<x>>[1] = x
    BY <1>5
  <1>8. runs' = old \o <<x>>
    BY <1>2, <1>3, <1>5, AppendIsConcat
  <1> DEFINE new == <<x>>
  <1>9. /\ new \in Seq(RunRecord) /\ Len(new) = 1 /\ runs' = old \o new
        /\ \A i \in 1 .. Len(new) : TaskRunOK(new[i], now', baseline', reloads')
        /\ \A r \in 1 .. Len(runs), i \in 1 .. Len(new) : PairOK(old[r], new[i])
        /\ \A i, j \in 1 .. Len(new) : ~(i < j)
    BY <1>3, <1>6, <1>7, <1>8
  <1> HIDE DEF new
  <1>10. TaskAllOK' /\ runs' \in Seq(RunRecord) /\ Len(runs') = Len(runs) + 1
    BY <1>2, <1>3, <1>9, Grow
  <1>11. dialog' \in [task : Task \cup {None}, run : Nat] /\ dialog'.run <= Len(runs')
         /\ dialog'.task \in Task
    BY <1>3, <1>10 DEF TaskInv, TaskTypes, t
  <1>12. cancels' \subseteq 1 .. Len(runs')
    BY <1>3, <1>10 DEF TaskInv, TaskTypes
  <1>13. QED
    BY <1>3, <1>10, <1>11, <1>12 DEF TaskInv, TaskTypes

(* A task that the schedule starts has a time that is due since the start  *)
(* before it, and no run of it that this page knows of is going on.        *)
LEMMA StartableOK ==
  ASSUME Tasks!TaskRunsAssumption, TaskInv, NEW t \in Tasks!Startable, NEW x,
         x = Tasks!Run(t, TRUE, reloads)
  PROVE  /\ x \in RunRecord /\ x.task = t /\ t \in Task
         /\ baseline' = [u \in Task |-> Tasks!NextBaseline(u)] /\ UNCHANGED <<now, reloads>>
            => TaskRunOK(x, now', baseline', reloads')
         /\ \A r \in 1 .. Len(runs) : PairOK(runs[r], x)
  <1>1. /\ t \in Task /\ t \in Tasks!Scheduled /\ Tasks!IsKnown(t)
        /\ Tasks!IsDue(task[t].schedule, baseline[t].last)
        /\ Tasks!RunsOf(t) = {}
    BY DEF Tasks!Startable, Tasks!Overdue
  <1>2. /\ task[t].schedule \in Schedule /\ now \in Nat /\ reloads \in Nat
        /\ baseline[t] # None
    BY <1>1 DEF Tasks!Scheduled, Tasks!IsKnown, TaskInv, TaskTypes, Tasks!TaskRunsAssumption
  <1>3. Steps \in 0 .. Steps
    BY DEF Tasks!TaskRunsAssumption
  <1>4. /\ x.auto = TRUE /\ x.at = now /\ x.sig = task[t].schedule /\ x.task = t
        /\ x.page = "running" /\ x.pages = reloads
        /\ x.call = "sent" /\ x.row = "none" /\ x.result = None /\ x.failed = FALSE
    BY DEF Tasks!Run
  <1>5. x \in RunRecord
    BY <1>1, <1>2, <1>3 DEF Tasks!Run, RunRecord, Tasks!Status
  <1>6. ASSUME baseline' = [u \in Task |-> Tasks!NextBaseline(u)],
               UNCHANGED <<now, reloads>>
        PROVE  TaskRunOK(x, now', baseline', reloads')
    <2>1. Tasks!NextBaseline(t) = [last |-> now, sig |-> task[t].schedule]
      BY <1>1 DEF Tasks!NextBaseline
    <2>2. baseline'[t].last = now
      BY <1>1, <1>6, <2>1
    <2>3. x.pages <= reloads' /\ x.at <= now' /\ x.at <= baseline'[x.task].last
      <3>1. now' = now /\ reloads' = reloads
        BY <1>6
      <3>2. x.at = now /\ x.pages = reloads /\ x.task = t
        BY <1>4
      <3>3. baseline'[x.task].last = now
        BY <2>2, <3>2
      <3>4. now \in Nat /\ reloads \in Nat
        BY <1>2
      <3>5. now <= now' /\ reloads <= reloads'
        BY <3>1, <3>4
      <3>6. QED
        BY <3>1, <3>2, <3>3, <3>4, <3>5
    <2>4. ~x.failed
      BY <1>4, Zenon
    <2>5. QED
      BY <1>4, <1>5, <2>3, <2>4 DEF TaskRunOK
  <1>7. ASSUME NEW r \in 1 .. Len(runs), runs[r].task = t
        PROVE  PairOK(runs[r], x)
    <2>1. /\ runs[r] \in RunRecord /\ TaskRunOK(runs[r], now, baseline, reloads)
          /\ r \in Tasks!RunIds
      BY RunsType DEF TaskInv, TaskAllOK
    <2>2. runs[r].pages = reloads => runs[r].call = "over"
      BY <1>1, <1>7, <2>1 DEF Tasks!RunsOf, TaskRunOK
    <2>3. runs[r].auto => runs[r].at <= baseline[t].last
      BY <1>2, <1>7, <2>1 DEF TaskRunOK
    <2>4. runs[r].at \in Nat /\ baseline[t].last \in Nat
      BY <1>1, <1>2, <2>1 DEF RunRecord, TaskInv, TaskTypes, Tasks!Baselines
    <2>5. DueAt[task[t].schedule] \subseteq Nat
      BY <1>2 DEF Tasks!TaskRunsAssumption
    <2>6. PICK time \in DueAt[task[t].schedule] : baseline[t].last < time /\ time <= now
      BY <1>1 DEF Tasks!IsDue
    <2>7. runs[r].auto => runs[r].at < time
      BY <2>3, <2>4, <2>5, <2>6
    <2>8. QED
      BY <1>4, <2>2, <2>6, <2>7 DEF PairOK
  <1>8. \A r \in 1 .. Len(runs) : PairOK(runs[r], x)
    BY <1>4, <1>7 DEF PairOK
  <1>9. QED
    BY <1>1, <1>4, <1>5, <1>6, <1>8

(* The schedule state a tick saves has the starts of the runs before it.   *)
LEMMA BaselineOK ==
  ASSUME Tasks!TaskRunsAssumption, TaskInv,
         baseline' = [t \in Task |-> Tasks!NextBaseline(t)],
         UNCHANGED <<now, reloads>>
  PROVE  /\ \A t \in Task : baseline'[t] \in Tasks!Baselines \cup {None}
         /\ \A r \in 1 .. Len(runs) :
              Same(runs[r], runs[r]) /\ TaskRunOK(runs[r], now', baseline', reloads')
  <1>1. ASSUME NEW t \in Task
        PROVE  /\ baseline'[t] \in Tasks!Baselines \cup {None}
               /\ \/ baseline'[t] = None
                  \/ baseline'[t] = baseline[t] /\ baseline[t] # None
                  \/ baseline'[t].last = now
    <2>1. baseline'[t] = Tasks!NextBaseline(t)
      OBVIOUS
    <2>2. CASE t \notin Tasks!Scheduled
      BY <2>1, <2>2 DEF Tasks!NextBaseline
    <2>3. CASE t \in Tasks!Scheduled /\ Tasks!IsKnown(t) /\ t \notin Tasks!Startable
      <3>1. baseline'[t] = baseline[t] /\ baseline[t] # None
        BY <2>1, <2>3 DEF Tasks!NextBaseline, Tasks!IsKnown
      <3>2. QED
        BY <3>1 DEF TaskInv, TaskTypes
    <2>4. CASE t \in Tasks!Scheduled /\ ~(Tasks!IsKnown(t) /\ t \notin Tasks!Startable)
      <3>1. Tasks!NextBaseline(t) = [last |-> now, sig |-> task[t].schedule]
        BY <2>4 DEF Tasks!NextBaseline
      <3>2. now \in Nat /\ task[t].schedule \in Schedule
        BY <2>4 DEF Tasks!Scheduled, TaskInv, TaskTypes, Tasks!TaskRunsAssumption
      <3>3. QED
        BY <2>1, <3>1, <3>2 DEF Tasks!Baselines
    <2>5. QED
      BY <2>2, <2>3, <2>4
  <1>2. ASSUME NEW r \in 1 .. Len(runs)
        PROVE  Same(runs[r], runs[r]) /\ TaskRunOK(runs[r], now', baseline', reloads')
    <2>1. runs[r] \in RunRecord /\ TaskRunOK(runs[r], now, baseline, reloads)
      BY DEF TaskInv, TaskAllOK, TaskRunOK
    <2>2. runs[r].task \in Task
      BY <2>1 DEF RunRecord
    <2>3. runs[r].auto /\ baseline'[runs[r].task] # None =>
            runs[r].at <= baseline'[runs[r].task].last
      BY <1>1, <2>1, <2>2 DEF TaskRunOK
    <2>4. QED
      BY <2>1, <2>3 DEF TaskRunOK, Same
  <1>3. QED
    BY <1>1, <1>2

(* The operators on sets and functions are those of this module.           *)
LEMMA SameInTasks ==
  /\ \A S : Tasks!IsFiniteSet(S) <=> IsFiniteSet(S)
  /\ \A S : Tasks!Cardinality(S) = Cardinality(S)
  /\ \A f : Tasks!Range(f) = Range(f)
  <1>1. \A S : Tasks!IsFiniteSet(S) <=> IsFiniteSet(S)
    BY DEF Tasks!IsFiniteSet, IsFiniteSet
  <1>2. \A S : Tasks!Cardinality(S) = Cardinality(S)
    BY DEF Tasks!Cardinality, Cardinality
  <1>3. \A f : Tasks!Range(f) = Range(f)
    BY DEF Tasks!Range, Range
  <1>4. QED
    BY <1>1, <1>2, <1>3

LEMMA TickOK ==
  ASSUME Tasks!TaskRunsAssumption, TaskInv, Tasks!Tick
  PROVE  TaskInv'
  <1>1. PICK fired : fired = {t \in Tasks!Startable : ~Tasks!Skipped(t)}
    OBVIOUS
  <1>2. PICK order \in [1 .. Cardinality(fired) -> fired] :
          /\ Range(order) = fired
          /\ runs' = runs \o [i \in DOMAIN order |-> Tasks!Run(order[i], TRUE, reloads)]
          /\ Len(runs) + Cardinality(fired) <= MaxRuns
          /\ baseline' = [t \in Task |-> Tasks!NextBaseline(t)]
          /\ UNCHANGED <<now, task, dialog, cancels, edits, reloads>>
    BY <1>1, SameInTasks DEF Tasks!Tick
  <1> DEFINE n == Cardinality(fired)
  <1>3. IsFiniteSet(fired) /\ n \in Nat
    <2>1. IsFiniteSet(Task) /\ fired \subseteq Task
      BY <1>1, SameInTasks DEF Tasks!TaskRunsAssumption, Tasks!Startable
    <2>2. IsFiniteSet(fired)
      BY <2>1, FS_Subset
    <2>3. QED
      BY <2>2, FS_CardinalityType
  <1>4. \A i, j \in 1 .. n : order[i] = order[j] => i = j
    <2>1. IsFiniteSet(1 .. n) /\ Cardinality(1 .. n) = n
      <3>1. IsFiniteSet(1 .. n) /\ Cardinality(1 .. n) = IF 1 > n THEN 0 ELSE n - 1 + 1
        BY <1>3, FS_Interval
      <3>2. QED
        BY <1>3, <3>1
    <2>2. order \in Surjection(1 .. n, fired)
      BY <1>2 DEF Surjection, Range
    <2>3. order \in Injection(1 .. n, fired)
      BY <2>1, <2>2, FS_Surjection
    <2>4. QED
      BY <1>2, <2>3 DEF Injection, IsInjective
  <1> DEFINE new == [i \in 1 .. n |-> Tasks!Run(order[i], TRUE, reloads)]
  <1>5. runs' = runs \o new /\ UNCHANGED <<now, reloads>>
          /\ baseline' = [t \in Task |-> Tasks!NextBaseline(t)]
    BY <1>2
  <1>6. ASSUME NEW i \in 1 .. n
        PROVE  /\ new[i] \in RunRecord /\ new[i].task = order[i]
               /\ TaskRunOK(new[i], now', baseline', reloads')
               /\ \A r \in 1 .. Len(runs) : PairOK(runs[r], new[i])
    <2>1. order[i] \in Tasks!Startable /\ new[i] = Tasks!Run(order[i], TRUE, reloads)
      BY <1>1, <1>2
    <2> HIDE DEF new
    <2>2. QED
      BY <1>5, <2>1, StartableOK
  <1>7. new \in Seq(RunRecord) /\ Len(new) = n
    <2>1. new \in [1 .. n -> RunRecord]
      BY <1>6
    <2> HIDE DEF new, n
    <2>2. QED
      BY <1>3, <2>1
  <1> HIDE DEF new, n
  <1>8. /\ \A t \in Task : baseline'[t] \in Tasks!Baselines \cup {None}
        /\ \A r \in 1 .. Len(runs) :
             Same(runs[r], runs[r]) /\ TaskRunOK(runs[r], now', baseline', reloads')
    BY <1>5, BaselineOK
  <1>9. \A i, j \in 1 .. n : i < j => PairOK(new[i], new[j])
    <2> SUFFICES ASSUME NEW i \in 1 .. n, NEW j \in 1 .. n, i < j
                 PROVE  new[i].task # new[j].task
      BY DEF PairOK
    <2>1. i # j
      BY <1>3
    <2>2. QED
      BY <1>4, <1>6, <2>1
  <1>10. TaskAllOK' /\ runs' \in Seq(RunRecord) /\ Len(runs') = Len(runs) + n
    BY <1>5, <1>6, <1>7, <1>8, <1>9, RunsType, Grow
  <1>11. /\ Len(runs') <= MaxRuns
         /\ dialog'.run <= Len(runs') /\ cancels' \subseteq 1 .. Len(runs')
    <2>1. Len(runs) \in Nat /\ dialog.run \in Nat /\ dialog.run <= Len(runs)
            /\ cancels \subseteq 1 .. Len(runs)
      BY RunsType DEF TaskInv, TaskTypes
    <2>2. QED
      BY <1>2, <1>3, <1>10, <2>1 DEF n
  <1>12. QED
    BY <1>2, <1>8, <1>10, <1>11 DEF TaskInv, TaskTypes

-----------------------------------------------------------------------------
LEMMA TaskInitOK ==
  ASSUME Tasks!TaskRunsAssumption, Tasks!Init
  PROVE  TaskInv
  <1>1. runs \in Seq(RunRecord) /\ Len(runs) = 0 /\ 1 .. Len(runs) = {}
    BY DEF Tasks!Init
  <1>2. Tasks!NoDialog \in [task : Task \cup {None}, run : Nat] /\ Tasks!NoDialog.run <= 0
    BY DEF Tasks!NoDialog, Tasks!NoRun
  <1>3. QED
    BY <1>1, <1>2 DEF Tasks!Init, TaskInv, TaskTypes, TaskAllOK, Tasks!TaskRunsAssumption

LEMMA TaskNextOK ==
  ASSUME Tasks!TaskRunsAssumption, TaskInv, [Tasks!Next]_Tasks!vars
  PROVE  TaskInv'
  <1>1. CASE \E r \in Tasks!RunIds : Tasks!Register(r) \/ Tasks!Step(r) \/ Tasks!Finish(r)
                                   \/ Tasks!Answer(r) \/ Tasks!DeleteRow(r)
    BY <1>1, TaskRegisterOK, StepOK, TaskFinishOK, TaskAnswerOK, TaskDeleteRowOK
  <1>2. CASE Tasks!Tick
    BY <1>2, TickOK
  <1>3. CASE Tasks!PressRun \/ Tasks!CloseDialog
    BY <1>3, PressRunOK, TaskCloseDialogOK
  <1>4. CASE Tasks!Pass \/ Tasks!HandleCancel \/ Tasks!Reload \/ Tasks!Restart
    BY <1>4, PassOK, TaskHandleCancelOK, ReloadOK
  <1>5. CASE (\E t \in Task : Tasks!SaveTask(t) \/ Tasks!OpenDialog(t)) \/ Tasks!PressCancel
            \/ UNCHANGED Tasks!vars
    BY <1>5, TaskDialogOK
  <1>6. QED
    BY <1>1, <1>2, <1>3, <1>4, <1>5 DEF Tasks!Next

(* The inductive invariant holds in every state.                           *)
LEMMA TaskInvHolds ==
  ASSUME Tasks!TaskRunsAssumption
  PROVE  Tasks!Spec => []TaskInv
  <1>1. Tasks!Init => TaskInv
    BY TaskInitOK
  <1>2. TaskInv /\ [Tasks!Next]_Tasks!vars => TaskInv'
    BY TaskNextOK
  <1>3. QED
    BY <1>1, <1>2, PTL DEF Tasks!Spec

(* What the invariant says of the variables, the schedule and the history. *)
LEMMA TaskInvSays ==
  ASSUME TaskInv
  PROVE  Tasks!TypeOK /\ Tasks!ScheduleIsKept /\ Tasks!RunsAreTrue
  <1>1. Tasks!TypeOK
    <2>1. Tasks!RunIds = 1 .. Len(runs) /\ \A r \in Tasks!RunIds : runs[r] \in RunRecord
      BY RunsType
    <2>2. dialog.run \in Tasks!RunIds \cup {Tasks!NoRun} /\ cancels \subseteq Tasks!RunIds
      BY <2>1 DEF TaskInv, TaskTypes, Tasks!NoRun
    <2>3. \A r \in Tasks!RunIds :
            /\ runs[r].page \in Tasks!Status \cup {"gone"}
            /\ runs[r].row \in Tasks!Status \cup {"none"}
            /\ runs[r].call \in {"sent", "active", "ended", "over"}
            /\ runs[r].left \in 0..Steps
      BY <2>1 DEF RunRecord
    <2>4. QED
      BY <2>2, <2>3 DEF Tasks!TypeOK, TaskInv, TaskTypes
  <1>2. Tasks!ScheduleIsKept
    <2> SUFFICES ASSUME NEW r \in Tasks!RunIds, NEW later \in Tasks!RunIds, r < later,
                        runs[r].task = runs[later].task, runs[later].auto
                 PROVE  /\ runs[r].auto => \E time \in DueAt[runs[later].sig] :
                                            runs[r].at < time /\ time <= runs[later].at
                        /\ runs[r].pages = runs[later].pages => runs[r].call = "over"
      BY DEF Tasks!ScheduleIsKept, Tasks!OneRunPerDueTime, Tasks!ScheduleWaits
    <2>1. PairOK(runs[r], runs[later])
      BY RunsType DEF TaskInv, TaskAllOK
    <2>2. QED
      BY <2>1 DEF PairOK
  <1>3. Tasks!RunsAreTrue
    <2> SUFFICES ASSUME NEW r \in Tasks!RunIds
                 PROVE  /\ runs[r].row = "running" <=> runs[r].call = "active"
                        /\ runs[r].page # "gone" /\ runs[r].call = "over"
                           /\ runs[r].row # "none"
                           => runs[r].page = runs[r].row
      BY DEF Tasks!RunsAreTrue, Tasks!HistoryIsTrue, Tasks!PageAgreesWithHistory
    <2>1. TaskRunOK(runs[r], now, baseline, reloads)
      BY RunsType DEF TaskInv, TaskAllOK
    <2>2. QED
      BY <2>1 DEF TaskRunOK
  <1>4. QED
    BY <1>1, <1>2, <1>3

(* The variables keep the values the code gives them.                      *)
THEOREM TaskTypeCorrect ==
  ASSUME Tasks!TaskRunsAssumption
  PROVE  Tasks!Spec => []Tasks!TypeOK
  <1>1. TaskInv => Tasks!TypeOK
    BY TaskInvSays
  <1>2. QED
    BY <1>1, TaskInvHolds, PTL

(* A schedule starts each due time once, and never beside a run that this  *)
(* page knows of: dueTasks, the saved baseline and a reload or restart at  *)
(* any moment.                                                             *)
THEOREM ScheduleStartsOnce ==
  ASSUME Tasks!TaskRunsAssumption
  PROVE  Tasks!Spec => []Tasks!ScheduleIsKept
  <1>1. TaskInv => Tasks!ScheduleIsKept
    BY TaskInvSays
  <1>2. QED
    BY <1>1, TaskInvHolds, PTL

(* The history says "running" of exactly the runs that are executed, and   *)
(* what the page says of a run that is over is what the history says of it. *)
THEOREM RecordsOfRunsAreTrue ==
  ASSUME Tasks!TaskRunsAssumption
  PROVE  Tasks!Spec => []Tasks!RunsAreTrue
  <1>1. TaskInv => Tasks!RunsAreTrue
    BY TaskInvSays
  <1>2. QED
    BY <1>1, TaskInvHolds, PTL

-----------------------------------------------------------------------------

Running == {"try", "local", "drain", "drain failed", "remote", "transfer", "backoff"}
Waiting == {"connect", "connect wait", "next"}
Ending == {"ends", "error", "cancelled"}
Status == {"done", "error", "skipped"}
Event == (DOMAIN plan) \X (Status \cup {"start"})

StepTypeInv ==
  /\ plan \in Plans /\ runAt \in Running \cup Waiting \cup Ending \cup {"over"}
  /\ stop \in BOOLEAN /\ link \in {"none", "open", "lost"} /\ tries \in 0 .. ConnectAttempts
  /\ index \in 1 .. Path!Count + 1 /\ attempts \in [DOMAIN plan -> Nat]
  /\ alive \subseteq (DOMAIN plan) \X {"local", "remote"} /\ abandoned \subseteq DOMAIN plan
  /\ stepEnds \in [DOMAIN plan -> Status]
  /\ runRow \in {"running", "done", "error", "cancelled"}
  /\ channel \in Seq(Event) /\ runAnswer \in {"none", "done", "error", "cancelled"}
  /\ stepView \in [DOMAIN plan -> Status \cup {"pending", "running"}]
  /\ runShown \in {"running", "done", "error", "cancelled"} /\ runOvertaken \in BOOLEAN

(* A command that runs is that of the step at hand, or was left to itself. *)
WorkOK ==
  /\ \A p \in alive : /\ p[2] = plan[p[1]].kind
                      /\ \/ p[1] \in abandoned
                         \/ p[1] = index /\ runAt \in {"local", "remote", "drain",
                                                       "drain failed"}
  /\ runAt \in {"local", "drain", "drain failed"} => Path!Here.kind = "local"
  /\ runAt = "remote" => Path!Here.kind = "remote"
  /\ runAt \in {"connect", "connect wait"} => tries < ConnectAttempts
  /\ runAt = "over" => link = "none"

(* The steps before the one at hand have succeeded, those after it have    *)
(* not begun.                                                              *)
StepsOK ==
  /\ runAt \in Running => index <= Path!Count /\ attempts[index] > 0
  /\ \A i \in DOMAIN plan :
       /\ i < index => stepEnds[i] = "done" /\ attempts[i] > 0
       /\ i > index => stepEnds[i] = "skipped" /\ attempts[i] = 0
       /\ i = index =>
            stepEnds[i] = "skipped" \/ (stepEnds[i] = "error" /\ runAt \in {"ends", "over"})
       /\ attempts[i] <= plan[i].retries + 1
  /\ index <= Path!Count /\ runAt \in Waiting => attempts[index] = 0
  /\ index <= Path!Count /\ runAt = "backoff" => attempts[index] <= plan[index].retries
  /\ runAt = "ends" => index > Path!Count \/ stepEnds[index] = "error"
  /\ runRow = "done" => index > Path!Count

(* An event that is on its way is that of the outcome, or its step runs or *)
(* the event of its end follows.                                           *)
EndsAfter(i, k) ==
  \E l \in DOMAIN channel : l > k /\ channel[l][1] = i /\ channel[l][2] # "start"
EventsOK ==
  \A k \in DOMAIN channel :
    /\ channel[k][2] # "start" =>
         /\ channel[k][2] = stepEnds[channel[k][1]]
         /\ runAt \in Running \cup Waiting => channel[k][1] < index
    /\ channel[k][2] = "start" =>
         EndsAfter(channel[k][1], k) \/ (runAt \in Running /\ channel[k][1] = index)

ViewOK ==
  \A i \in DOMAIN plan :
    \/ stepView[i] = stepEnds[i] \/ EndsAfter(i, 0)
    \/ stepEnds[i] = "skipped" /\ stepView[i] \in {"pending",
                                                   "running"} /\ runShown = "running"

(* The answer and the row agree.                                           *)
SomeError == \E i \in DOMAIN plan : stepEnds[i] = "error"
StepAnswerOK ==
  /\ runAt # "over" => runRow = "running" /\ runAnswer = "none" /\ runShown = "running"
  /\ runAnswer # "none" => \/ runAnswer \in {"error", "cancelled"} /\ runRow = runAnswer
                           \/ runAnswer = "done" /\ runRow = IF SomeError THEN "error"
                                  ELSE "done"
  /\ runShown # "running" /\ ~runOvertaken => runShown = runRow

StepInv == StepTypeInv /\ WorkOK /\ StepsOK /\ EventsOK /\ ViewOK /\ StepAnswerOK

-----------------------------------------------------------------------------
LEMMA PlanOK ==
  ASSUME Path!TaskStepsAssumption, StepTypeInv
  PROVE  /\ Path!Count \in Nat /\ DOMAIN plan = 1 .. Path!Count /\ ConnectAttempts \in Nat
         /\ \A i \in DOMAIN plan : /\ plan[i].kind \in {"local", "remote", "transfer"}
                                   /\ plan[i].retries \in Nat
  <1>1. plan \in Seq([kind : {"local", "remote", "transfer"}, retries : Nat])
    BY DEF StepTypeInv, Path!TaskStepsAssumption
  <1>2. Path!Count \in Nat /\ DOMAIN plan = 1 .. Path!Count
    BY <1>1, LenProperties DEF Path!Count
  <1>3. \A i \in 1 .. Path!Count :
          plan[i] \in [kind : {"local", "remote", "transfer"}, retries : Nat]
    BY <1>1, ElementOfSeq DEF Path!Count
  <1>4. QED
    BY <1>2, <1>3 DEF Path!TaskStepsAssumption

LEMMA AppendOK ==
  ASSUME NEW S, NEW c \in Seq(S), NEW e \in Seq(S)
  PROVE  /\ c \o e \in Seq(S) /\ Len(c) \in Nat
         /\ \A k \in DOMAIN c : /\ k \in 1 .. Len(c) /\ k \in DOMAIN (c \o e)
                                /\ (c \o e)[k] = c[k]
         /\ \A j \in DOMAIN e : /\ j \in Nat \ {0} /\ Len(c) + j \in DOMAIN (c \o e)
                                /\ (c \o e)[Len(c) + j] = e[j]
         /\ \A k \in DOMAIN (c \o e) :
              k \in DOMAIN c \/ \E j \in DOMAIN e : k = Len(c) + j /\ (c \o e)[k] = e[j]
  <1>1. /\ DOMAIN c = 1 .. Len(c) /\ DOMAIN e = 1 .. Len(e) /\ c \o e \in Seq(S)
        /\ Len(c) \in Nat /\ Len(e) \in Nat
        /\ DOMAIN (c \o e) = 1 .. Len(c) + Len(e)
        /\ \A i \in 1 .. Len(c) + Len(e) :
             (c \o e)[i] = IF i <= Len(c) THEN c[i] ELSE e[i - Len(c)]
    BY LenProperties, ConcatProperties
  <1>2. ASSUME NEW k \in DOMAIN (c \o e), k \notin DOMAIN c
        PROVE  \E j \in DOMAIN e : k = Len(c) + j /\ (c \o e)[k] = e[j]
    <2>1. k - Len(c) \in DOMAIN e /\ k = Len(c) + (k - Len(c))
            /\ (c \o e)[k] = e[k - Len(c)]
      BY <1>1, <1>2
    <2>2. QED
      BY <2>1
  <1>3. \A j \in DOMAIN e : /\ j \in Nat \ {0} /\ Len(c) + j \in DOMAIN (c \o e)
                            /\ (c \o e)[Len(c) + j] = e[j]
    <2>1. \A j \in 1 .. Len(e) :
            Len(c) + j \in 1 .. Len(c) + Len(e) /\ (Len(c) + j) - Len(c) = j
                                 /\ ~(Len(c) + j <= Len(c))
      BY <1>1
    <2>2. QED
      BY <1>1, <2>1
  <1>4. \A k \in DOMAIN c : k \in 1 .. Len(c) /\ k \in DOMAIN (c \o e) /\ (c \o e)[k] = c[k]
    BY <1>1
  <1>5. QED
    BY <1>1, <1>2, <1>3, <1>4

LEMMA OneEvent ==
  ASSUME NEW S, NEW x \in S
  PROVE  <<x>> \in Seq(S) /\ DOMAIN <<x>> = {1} /\ <<x>>[1] = x
  OBVIOUS

(* The events of the steps from one on.                                    *)
LEMMA SkippedOK ==
  ASSUME Path!TaskStepsAssumption, StepTypeInv, NEW from \in 1 .. Path!Count + 1
  PROVE  /\ Path!Skipped(from) \in Seq(Event)
         /\ \A j \in DOMAIN Path!Skipped(from) : /\ Path!Skipped(from)[j][2] = "skipped"
                                                 /\ Path!Skipped(from)[j][1]
                                                      \in from .. Path!Count
         /\ \A i \in from .. Path!Count : \E j \in DOMAIN Path!Skipped(from) :
              Path!Skipped(from)[j][1] = i /\ Path!Skipped(from)[j][2] = "skipped"
  <1> DEFINE n == Path!Count - from + 1
  <1>1. /\ n \in Nat /\ Path!Count \in Nat /\ from \in Nat \ {0}
        /\ DOMAIN Path!Skipped(from) = 1 .. n
        /\ DOMAIN plan = 1 .. Path!Count
    BY PlanOK DEF Path!Skipped
  <1>2. \A j \in 1 .. n : /\ Path!Skipped(from)[j] = <<from + j - 1, "skipped">>
                          /\ from + j - 1 \in from .. Path!Count
    BY <1>1 DEF Path!Skipped
  <1>3. \A j \in 1 .. n : Path!Skipped(from)[j] \in Event
    <2>1. \A j \in 1 .. n : from + j - 1 \in DOMAIN plan
      BY <1>1
    <2>2. \A j \in 1 .. n : <<from + j - 1, "skipped">> \in Event
      BY <2>1 DEF Event, Status
    <2>3. QED
      BY <1>2, <2>2
  <1>4. Path!Skipped(from) \in [1 .. n -> Event]
    BY <1>1, <1>3 DEF Path!Skipped
  <1>5. ASSUME NEW i \in from .. Path!Count
        PROVE  \E j \in DOMAIN Path!Skipped(from) :
                 Path!Skipped(from)[j][1] = i /\ Path!Skipped(from)[j][2] = "skipped"
    <2>1. i - from + 1 \in 1 .. n /\ from + (i - from + 1) - 1 = i
      BY <1>1
    <2>2. Path!Skipped(from)[i - from + 1] = <<i, "skipped">>
      BY <1>2, <2>1
    <2>3. QED
      BY <1>1, <2>1, <2>2
  <1>6. Path!Skipped(from) \in Seq(Event)
    BY <1>1, <1>4, IsASeq
  <1> HIDE DEF n
  <1>7. QED
    BY <1>1, <1>2, <1>5, <1>6

(* What a step of a run sends is what it decides.                          *)
LEMMA SendOK ==
  ASSUME Path!TaskStepsAssumption, StepTypeInv, EventsOK, ViewOK,
         UNCHANGED <<plan, stepView, runShown>>,
         NEW es \in Seq(Event), channel' = channel \o es,
         runAt \in Running \cup Waiting, index \in Nat, index' \in Nat, index <= index',
         \A j \in DOMAIN es :
           /\ es[j][2] # "start" => /\ es[j][2] = stepEnds'[es[j][1]]
                                    /\ runAt' \in Running \cup Waiting => es[j][1] < index'
           /\ es[j][2] = "start" => runAt' \in Running /\ es[j][1] = index',
         \A i \in DOMAIN plan :
           \/ stepEnds'[i] = stepEnds[i]
           \/ i >= index /\ \E j \in DOMAIN es : es[j][1] = i /\ es[j][2] # "start",
         \/ runAt \notin Running \/ (runAt' \in Running /\ index' = index)
         \/ \E j \in DOMAIN es : es[j][1] = index /\ es[j][2] # "start"
  PROVE  EventsOK' /\ ViewOK' /\ channel' \in Seq(Event)'
  <1>1. /\ channel' \in Seq(Event) /\ Len(channel) \in Nat
        /\ \A k \in DOMAIN channel : /\ k \in 1 .. Len(channel) /\ k \in DOMAIN channel'
                                     /\ channel'[k] = channel[k]
        /\ \A j \in DOMAIN es : /\ j \in Nat \ {0} /\ Len(channel) + j \in DOMAIN channel'
                                /\ channel'[Len(channel) + j] = es[j]
        /\ \A k \in DOMAIN channel' :
             \/ k \in DOMAIN channel
             \/ \E j \in DOMAIN es : k = Len(channel) + j /\ channel'[k] = es[j]
    BY AppendOK DEF StepTypeInv
  <1>2. ASSUME NEW k \in DOMAIN channel, NEW i, EndsAfter(i, k)
        PROVE  EndsAfter(i, k)'
    BY <1>1, <1>2 DEF EndsAfter
  <1>3. ASSUME NEW i, EndsAfter(i, 0)
        PROVE  EndsAfter(i, 0)'
    BY <1>1, <1>3 DEF EndsAfter
  <1>4. ASSUME NEW i, NEW j \in DOMAIN es, es[j][1] = i, es[j][2] # "start"
        PROVE  EndsAfter(i, 0)' /\ \A k \in DOMAIN channel : EndsAfter(i, k)'
    <2>1. /\ Len(channel) + j \in DOMAIN channel' /\ channel'[Len(channel) + j] = es[j]
          /\ Len(channel) + j > 0 /\ \A k \in DOMAIN channel : Len(channel) + j > k
      BY <1>1
    <2>2. QED
      BY <1>4, <2>1 DEF EndsAfter
  <1>5. \A k \in DOMAIN channel : channel[k][1] \in DOMAIN plan /\ channel[k][1] \in Int
    <2>1. \A k \in DOMAIN channel : channel[k] \in Event
      BY ElementOfSeq, LenProperties DEF StepTypeInv
    <2>2. \A k \in DOMAIN channel : channel[k][1] \in DOMAIN plan
      BY <2>1 DEF Event
    <2>3. QED
      BY <2>2, PlanOK
  <1>6. EventsOK'
    <2> SUFFICES ASSUME NEW k \in DOMAIN channel'
                 PROVE  /\ channel'[k][2] # "start" =>
                             /\ channel'[k][2] = stepEnds'[channel'[k][1]]
                             /\ runAt' \in Running \cup Waiting => channel'[k][1] < index'
                        /\ channel'[k][2] = "start" =>
                             \/ EndsAfter(channel[k][1], k)'
                             \/ runAt' \in Running /\ channel'[k][1] = index'
      BY DEF EventsOK, Running, Waiting
    <2>1. CASE k \in DOMAIN channel
      <3>1. PICK i \in DOMAIN plan : i = channel[k][1] /\ i = channel'[k][1] /\ i \in Int
        BY <1>1, <1>5, <2>1
      <3>2. channel'[k] = channel[k]
        BY <1>1, <2>1
      <3>3. ASSUME channel[k][2] = "start"
            PROVE  EndsAfter(i, k)' \/ (runAt' \in Running /\ i = index')
        <4>1. CASE EndsAfter(i, k)
          BY <1>2, <2>1, <4>1
        <4>2. CASE runAt \in Running /\ i = index
          BY <1>4, <2>1, <4>2
        <4>3. QED
          BY <2>1, <3>1, <3>3, <4>1, <4>2 DEF EventsOK
      <3>4. ASSUME channel[k][2] # "start"
            PROVE  /\ channel[k][2] = stepEnds'[i]
                   /\ runAt' \in Running \cup Waiting => i < index'
        <4>1. channel[k][2] = stepEnds[i] /\ i < index
          BY <2>1, <3>1, <3>4 DEF EventsOK
        <4>2. QED
          BY <3>1, <4>1
      <3>5. EndsAfter(channel[k][1], k)' <=> EndsAfter(i, k)'
        BY <3>1 DEF EndsAfter
      <3>6. QED
        BY <3>1, <3>2, <3>3, <3>4, <3>5
    <2>2. CASE \E j \in DOMAIN es : k = Len(channel) + j /\ channel'[k] = es[j]
      BY <2>2
    <2>3. QED
      BY <1>1, <2>1, <2>2
  <1>7. ViewOK'
    BY <1>3, <1>4 DEF ViewOK
  <1>8. QED
    BY <1>1, <1>6, <1>7 DEF Event

LEMMA SilentOK ==
  ASSUME Path!TaskStepsAssumption, StepTypeInv, EventsOK, ViewOK,
         UNCHANGED <<plan, stepView, runShown, channel,
                     stepEnds>>, index' \in Nat, index <= index',
         runAt' \in Running \cup Waiting => runAt \in Running \cup Waiting,
         runAt \in Running => runAt' \in Running /\ index' = index
  PROVE  EventsOK' /\ ViewOK'
  <1>1. \A k \in DOMAIN channel : channel[k][1] \in Int
    <2>1. \A k \in DOMAIN channel : channel[k] \in Event
      BY ElementOfSeq, LenProperties DEF StepTypeInv
    <2>2. \A k \in DOMAIN channel : channel[k][1] \in DOMAIN plan
      BY <2>1 DEF Event
    <2>3. QED
      BY <2>2, PlanOK
  <1>2. index \in Int
    BY PlanOK DEF StepTypeInv
  <1>3. EventsOK'
    <2> SUFFICES ASSUME NEW k \in DOMAIN channel
                 PROVE  /\ channel[k][2] # "start" =>
                             /\ channel[k][2] = stepEnds[channel[k][1]]
                             /\ runAt' \in Running \cup Waiting => channel[k][1] < index'
                        /\ channel[k][2] = "start" =>
                             \/ EndsAfter(channel[k][1], k)
                             \/ runAt' \in Running /\ channel[k][1] = index'
      BY DEF EventsOK, EndsAfter
    <2>1. QED
      BY <1>1, <1>2 DEF EventsOK
  <1>4. ViewOK'
    BY DEF ViewOK, EndsAfter
  <1>5. QED
    BY <1>3, <1>4

(* What every step of the run leaves to the page.                          *)
StepQuiet == UNCHANGED <<plan, runRow, runAnswer, Path!page>>

LEMMA SucceedsOK ==
  ASSUME Path!TaskStepsAssumption, StepInv, runAt \in Running, Path!Succeeds, StepQuiet,
         UNCHANGED attempts
  PROVE  /\ StepsOK' /\ EventsOK' /\ ViewOK' /\ StepAnswerOK' /\ runAt' = "next"
         /\ UNCHANGED tries
         /\ stepEnds' \in [DOMAIN plan -> Status] /\ channel' \in Seq(Event)
         /\ index' \in 1 .. Path!Count + 1
  <1>1. /\ stepEnds' = [stepEnds EXCEPT ![index] = "done"] /\ UNCHANGED tries
        /\ channel' = channel \o <<<<index, "done">>>> /\ index' = index + 1
        /\ runAt' = "next"
    BY DEF Path!Succeeds, Path!Sends
  <1>2. /\ index \in 1 .. Path!Count /\ Path!Count \in Nat /\ DOMAIN plan = 1 .. Path!Count
        /\ attempts[index] > 0
    BY PlanOK DEF StepInv, StepTypeInv, StepsOK
  <1>3. /\ stepEnds' \in [DOMAIN plan -> Status] /\ index' \in 1 .. Path!Count + 1
        /\ stepEnds'[index] = "done"
        /\ \A i \in DOMAIN plan : i # index => stepEnds'[i] = stepEnds[i]
    BY <1>1, <1>2 DEF StepInv, StepTypeInv, Status
  <1>4. <<index, "done">> \in Event
    BY <1>2 DEF Event, Status
  <1>5. EventsOK' /\ ViewOK' /\ channel' \in Seq(Event)'
    <2> DEFINE es == <<<<index, "done">>>>
    <2>1. es \in Seq(Event) /\ DOMAIN es = {1} /\ es[1][1] = index /\ es[1][2] = "done"
      BY <1>4, OneEvent
    <2>2. channel' = channel \o es
      BY <1>1
    <2> HIDE DEF es
    <2>3. \A j \in DOMAIN es :
           /\ es[j][2] # "start" => /\ es[j][2] = stepEnds'[es[j][1]]
                                    /\ runAt' \in Running \cup Waiting => es[j][1] < index'
           /\ es[j][2] = "start" => runAt' \in Running /\ es[j][1] = index'
      BY <1>1, <1>2, <1>3, <2>1
    <2>4. \A i \in DOMAIN plan :
           \/ stepEnds'[i] = stepEnds[i]
           \/ i >= index /\ \E j \in DOMAIN es : es[j][1] = i /\ es[j][2] # "start"
      BY <1>2, <1>3, <2>1
    <2>5. \E j \in DOMAIN es : es[j][1] = index /\ es[j][2] # "start"
      BY <2>1
    <2>6. index \in Nat /\ index' \in Nat /\ index <= index'
      BY <1>1, <1>2
    <2>7. QED
      BY <2>1, <2>2, <2>3, <2>4, <2>5, <2>6, SendOK DEF StepInv, StepQuiet, Path!page
  <1>6. StepsOK'
    <2>1. runRow = "running" /\ UNCHANGED <<plan, runRow, attempts>>
      BY DEF StepInv, StepAnswerOK, Running, StepQuiet
    <2>2. runAt' = "next" /\ runAt' \notin Running
      BY <1>1 DEF Running
    <2>3. \A i \in DOMAIN plan :
            /\ i < index' => stepEnds'[i] = "done" /\ attempts[i] > 0
            /\ i > index' => stepEnds'[i] = "skipped" /\ attempts[i] = 0
            /\ i = index' => stepEnds'[i] = "skipped" /\ attempts[i] = 0
            /\ attempts[i] <= plan[i].retries + 1
      BY <1>1, <1>2, <1>3 DEF StepInv, StepsOK
    <2>4. index' <= Path!Count => attempts[index'] = 0
      BY <1>2, <1>3, <2>3
    <2>5. QED
      BY <2>1, <2>2, <2>3, <2>4 DEF StepsOK, Path!Count
  <1>7. StepAnswerOK'
    BY <1>1 DEF StepInv, StepAnswerOK, StepQuiet, Path!page, Running
  <1>8. QED
    BY <1>1, <1>3, <1>5, <1>6, <1>7 DEF Event, StepQuiet

LEMMA StepCancelledOK ==
  ASSUME Path!TaskStepsAssumption, StepInv,
         runAt \in Running \/ (runAt = "next" /\ index <= Path!Count),
         Path!StepCancelled, StepQuiet, UNCHANGED attempts
  PROVE  /\ StepsOK' /\ EventsOK' /\ ViewOK' /\ StepAnswerOK'
         /\ runAt' = "cancelled" /\ UNCHANGED <<tries, index, stepEnds>>
         /\ channel' \in Seq(Event)
  <1>1. /\ channel' = channel \o Path!Skipped(index) /\ runAt' = "cancelled"
        /\ UNCHANGED <<tries, index, stepEnds>>
    BY DEF Path!StepCancelled, Path!Sends, Path!Ends
  <1>2. /\ index \in 1 .. Path!Count /\ Path!Count \in Nat /\ DOMAIN plan = 1 .. Path!Count
        /\ runAt \in Running \cup Waiting /\ runAt \notin {"ends", "over"}
    <2>1. /\ Path!Count \in Nat /\ DOMAIN plan = 1 .. Path!Count
          /\ index \in 1 .. Path!Count + 1
          /\ index <= Path!Count
      BY PlanOK DEF StepInv, StepTypeInv, StepsOK
    <2>2. index \in 1 .. Path!Count
      BY <2>1
    <2>3. runAt \in Running \cup Waiting /\ runAt \notin {"ends", "over"}
      BY DEF Running, Waiting
    <2>4. QED
      BY <2>1, <2>2, <2>3
  <1>3. \A i \in index .. Path!Count : stepEnds[i] = "skipped"
    <2>1. \A i \in index .. Path!Count : i \in DOMAIN plan /\ (i = index \/ i > index)
      BY <1>2
    <2>2. \A i \in DOMAIN plan : /\ i > index => stepEnds[i] = "skipped"
                                 /\ i = index => \/ stepEnds[i] = "skipped"
                                                 \/ runAt \in {"ends", "over"}
      BY DEF StepInv, StepsOK
    <2>3. QED
      BY <1>2, <2>1, <2>2
  <1>4. EventsOK' /\ ViewOK' /\ channel' \in Seq(Event)'
    <2> DEFINE es == Path!Skipped(index)
    <2>1. /\ es \in Seq(Event)
          /\ \A j \in DOMAIN es : es[j][2] = "skipped" /\ es[j][1] \in index .. Path!Count
          /\ \E j \in DOMAIN es : es[j][1] = index /\ es[j][2] # "start"
      <3>1. index \in 1 .. Path!Count + 1 /\ index \in index .. Path!Count /\ StepTypeInv
        BY <1>2 DEF StepInv
      <3>2. QED
        BY <3>1, SkippedOK
    <2>2. channel' = channel \o es
      BY <1>1
    <2> HIDE DEF es
    <2>3. \A j \in DOMAIN es :
           /\ es[j][2] # "start" => /\ es[j][2] = stepEnds'[es[j][1]]
                                    /\ runAt' \in Running \cup Waiting => es[j][1] < index'
           /\ es[j][2] = "start" => runAt' \in Running /\ es[j][1] = index'
      BY <1>1, <1>3, <2>1 DEF Running, Waiting
    <2>4. \A i \in DOMAIN plan : stepEnds'[i] = stepEnds[i]
      BY <1>1
    <2>5. index \in Nat /\ index' \in Nat /\ index <= index'
      BY <1>1, <1>2
    <2>6. QED
      BY <1>2, <2>1, <2>2, <2>3, <2>4, <2>5, SendOK DEF StepInv, StepQuiet, Path!page
  <1>5. StepsOK'
    BY <1>1, <1>2, <1>3 DEF StepInv, StepsOK, StepTypeInv, StepQuiet, Running, Waiting,
                            Path!Count
  <1>6. StepAnswerOK'
    BY <1>1 DEF StepInv, StepAnswerOK, StepQuiet, Path!page, Running
  <1>7. QED
    BY <1>1, <1>4, <1>5, <1>6 DEF Event, StepQuiet

LEMMA FailsOK ==
  ASSUME Path!TaskStepsAssumption, StepInv, runAt \in Running, Path!Fails, StepQuiet,
         UNCHANGED attempts
  PROVE  /\ StepsOK' /\ EventsOK' /\ ViewOK' /\ StepAnswerOK'
         /\ runAt' \in {"ends", "backoff"} /\ UNCHANGED <<tries, index>>
         /\ stepEnds' \in [DOMAIN plan -> Status] /\ channel' \in Seq(Event)
  <1>1. /\ index \in 1 .. Path!Count /\ Path!Count \in Nat /\ DOMAIN plan = 1 .. Path!Count
        /\ attempts[index] > 0 /\ attempts[index] \in Nat /\ plan[index].retries \in Nat
    BY PlanOK DEF StepInv, StepTypeInv, StepsOK
  <1>2. CASE Path!GivesUp
    <2> DEFINE failing == <<<<index, "error">>>>
               rest == Path!Skipped(index + 1)
               es == failing \o rest
    <2>1. /\ channel' = channel \o es /\ runAt' = "ends" /\ UNCHANGED <<tries, index>>
          /\ stepEnds' = [stepEnds EXCEPT ![index] = "error"]
      BY <1>2 DEF Path!Fails, Path!Sends, Path!Ends
    <2>2. /\ stepEnds' \in [DOMAIN plan -> Status] /\ stepEnds'[index] = "error"
          /\ \A i \in DOMAIN plan : i # index => stepEnds'[i] = stepEnds[i]
      BY <1>1, <2>1 DEF StepInv, StepTypeInv, Status
    <2>3. \A i \in index + 1 .. Path!Count : stepEnds'[i] = "skipped"
      BY <1>1, <2>2 DEF StepInv, StepsOK
    <2>4. failing \in Seq(Event) /\ DOMAIN failing = {1} /\ failing[1][1] = index
            /\ failing[1][2] = "error"
      <3>1. <<index, "error">> \in Event
        BY <1>1 DEF Event, Status
      <3>2. QED
        BY <3>1, OneEvent
    <2>5. /\ rest \in Seq(Event)
          /\ \A j \in DOMAIN rest :
               rest[j][2] = "skipped" /\ rest[j][1] \in index + 1 .. Path!Count
      <3>1. index + 1 \in 1 .. Path!Count + 1
        BY <1>1
      <3>2. QED
        BY <3>1, SkippedOK DEF StepInv
    <2> HIDE DEF failing, rest
    <2>6. /\ es \in Seq(Event)
          /\ \A j \in DOMAIN es : \/ es[j][1] = index /\ es[j][2] = "error"
                                  \/ es[j][2] = "skipped"
                                       /\ es[j][1] \in index + 1 .. Path!Count
          /\ \E j \in DOMAIN es : es[j][1] = index /\ es[j][2] = "error"
      <3>1. /\ es \in Seq(Event)
            /\ \A k \in DOMAIN failing : k \in DOMAIN es /\ es[k] = failing[k]
            /\ \A k \in DOMAIN es :
                 k \in DOMAIN failing \/ \E j \in DOMAIN rest : es[k] = rest[j]
        BY <2>4, <2>5, AppendOK
      <3>2. QED
        BY <2>4, <2>5, <3>1
    <2> HIDE DEF es
    <2>7. \A j \in DOMAIN es :
           /\ es[j][2] # "start" => /\ es[j][2] = stepEnds'[es[j][1]]
                                    /\ runAt' \in Running \cup Waiting => es[j][1] < index'
           /\ es[j][2] = "start" => runAt' \in Running /\ es[j][1] = index'
      BY <2>1, <2>2, <2>3, <2>6 DEF Running, Waiting
    <2>8. \A i \in DOMAIN plan :
           \/ stepEnds'[i] = stepEnds[i]
           \/ i >= index /\ \E j \in DOMAIN es : es[j][1] = i /\ es[j][2] # "start"
      BY <1>1, <2>2, <2>6
    <2>9. \E j \in DOMAIN es : es[j][1] = index /\ es[j][2] # "start"
      BY <2>6
    <2>10. index \in Nat /\ index' \in Nat /\ index <= index'
      BY <1>1, <2>1
    <2>11. EventsOK' /\ ViewOK' /\ channel' \in Seq(Event)'
      BY <2>1, <2>6, <2>7, <2>8, <2>9, <2>10, SendOK DEF StepInv, StepQuiet, Path!page
    <2>12. StepsOK'
      BY <1>1, <2>1, <2>2 DEF StepInv, StepsOK, StepTypeInv, StepQuiet, Running, Waiting,
             StepAnswerOK, Path!Count
    <2>13. StepAnswerOK'
      BY <2>1 DEF StepInv, StepAnswerOK, StepQuiet, Path!page, Running
    <2>14. QED
      BY <2>1, <2>2, <2>11, <2>12, <2>13 DEF Event, StepQuiet
  <1>3. CASE ~Path!GivesUp
    <2>1. runAt' = "backoff" /\ UNCHANGED <<stepEnds, channel, index, tries>>
      BY <1>3 DEF Path!Fails
    <2>2. attempts[index] <= plan[index].retries
      BY <1>1, <1>3 DEF Path!GivesUp, Path!Here
    <2>3. EventsOK' /\ ViewOK'
      <3>1. index \in Nat /\ index' = index
        BY <1>1, <2>1
      <3>2. runAt' \in Running
        BY <2>1 DEF Running
      <3>3. index \in Nat /\ index' \in Nat /\ index <= index'
        BY <3>1
      <3>4. QED
        BY <2>1, <3>1, <3>2, <3>3, SilentOK DEF StepInv, StepQuiet, Path!page
    <2>4. StepsOK'
      BY <1>1, <2>1, <2>2 DEF StepInv, StepsOK, StepTypeInv, StepQuiet, Running, Waiting,
             StepAnswerOK, Path!Count
    <2>5. StepAnswerOK'
      BY <2>1 DEF StepInv, StepAnswerOK, StepQuiet, Path!page, Running
    <2>6. QED
      BY <2>1, <2>3, <2>4, <2>5 DEF StepInv, StepTypeInv
  <1>4. QED
    BY <1>2, <1>3

-----------------------------------------------------------------------------
(* The connection.                                                         *)

LEMMA ConnectOK ==
  ASSUME Path!TaskStepsAssumption, StepInv,
         Path!Connect \/ Path!ConnectAgain \/ Path!NotConnected \/ Path!ConnectionLost
  PROVE  StepInv'
  <1>1. /\ UNCHANGED <<plan, stop, index, alive, abandoned, attempts, stepEnds, runRow,
                       channel,
                       runAnswer, stepView, runShown, runOvertaken>>
        /\ runAt' = runAt \/ (runAt \in {"connect", "connect wait"}
                                   /\ runAt' \in {"connect", "connect wait", "next",
                                                  "error", "cancelled"})
        /\ runAt' \in {"connect", "connect wait"} => tries' < ConnectAttempts
        /\ tries' \in 0 .. ConnectAttempts
        /\ link' \in {"none", "open", "lost"} /\ (runAt' = "over" => link' = link)
    <2>1. CASE Path!Connect
      <3>1. runAt = "connect" /\ tries < ConnectAttempts /\ tries \in Nat
              /\ ConnectAttempts \in Nat
        <4>1. ConnectAttempts \in Nat /\ tries \in 0 .. ConnectAttempts
          BY PlanOK DEF StepInv, StepTypeInv
        <4>2. runAt = "connect" /\ tries < ConnectAttempts
          BY <2>1 DEF Path!Connect, StepInv, WorkOK
        <4>3. QED
          BY <4>1, <4>2
      <3>2. /\ UNCHANGED <<plan, stop, index, alive, abandoned, attempts, stepEnds, runRow,
                           channel,
                           runAnswer, stepView, runShown, runOvertaken>>
            /\ runAt' \in {"next",
                           "error"} \/ (runAt' = "connect wait" /\ tries' < ConnectAttempts)
            /\ tries' = tries + 1 /\ link' \in {"open", link}
        BY <2>1 DEF Path!Connect, Path!process, Path!report, Path!page
      <3>3. tries' \in 0 .. ConnectAttempts
        <4>1. tries' = tries + 1
          BY <3>2
        <4>2. QED
          BY <3>1, <4>1
      <3>4. link' \in {"none", "open", "lost"}
        BY <3>2 DEF StepInv, StepTypeInv
      <3>5. QED
        BY <3>1, <3>2, <3>3, <3>4
    <2>2. CASE Path!ConnectAgain
      BY <2>2 DEF Path!ConnectAgain, Path!process, Path!report, Path!page, StepInv,
                  StepTypeInv, WorkOK
    <2>3. CASE Path!NotConnected
      BY <2>3 DEF Path!NotConnected, Path!process, Path!report, Path!page, StepInv,
                  StepTypeInv, WorkOK
    <2>4. CASE Path!ConnectionLost
      BY <2>4 DEF Path!ConnectionLost, Path!process, Path!report, Path!page, StepInv,
                  StepTypeInv, WorkOK
    <2>5. QED
      BY <2>1, <2>2, <2>3, <2>4
  <1>2. \/ runAt' = runAt
        \/ runAt \in Waiting /\ runAt' \in Waiting \cup {"error", "cancelled"}
    BY <1>1 DEF Waiting
  <1>3. StepTypeInv'
    <2>1. runAt' \in Running \cup Waiting \cup Ending \cup {"over"}
      BY <1>2 DEF Ending, StepInv, StepTypeInv
    <2>2. QED
      BY <1>1, <2>1 DEF StepInv, StepTypeInv, Path!Count, Event
  <1>4. WorkOK'
    BY <1>1 DEF StepInv, WorkOK, Path!Here
  <1>5. StepsOK'
    <2>1. runAt' \in Running => runAt' = runAt
      BY <1>1 DEF Running
    <2>2. runAt' \in Waiting => runAt \in Waiting
      BY <1>1 DEF Waiting
    <2>3. runAt' \in {"backoff", "ends"} => runAt' = runAt
      BY <1>1
    <2>4. runAt \in {"ends", "over"} => runAt' \in {"ends", "over"}
      BY <1>1
    <2>5. QED
      BY <1>1, <2>1, <2>2, <2>3, <2>4 DEF StepInv, StepsOK, Path!Count
  <1>6. EventsOK' /\ ViewOK'
    <2>1. index \in Nat /\ index' \in Nat /\ index <= index'
      <3>1. Path!Count \in Nat /\ index \in 1 .. Path!Count + 1 /\ index' = index
        BY <1>1, PlanOK DEF StepInv, StepTypeInv
      <3>2. QED
        BY <3>1
    <2>2. /\ runAt' \in Running \cup Waiting => runAt \in Running \cup Waiting
          /\ runAt \in Running => runAt' \in Running /\ index' = index
      BY <1>1 DEF Running, Waiting
    <2>3. QED
      BY <1>1, <2>1, <2>2, SilentOK DEF StepInv
  <1>7. StepAnswerOK'
    BY <1>1 DEF StepInv, StepAnswerOK, SomeError
  <1>8. QED
    BY <1>3, <1>4, <1>5, <1>6, <1>7 DEF StepInv

(* A cancel, and a command left to itself that ends.                       *)
LEMMA StepAsideOK ==
  ASSUME Path!TaskStepsAssumption, StepInv, Path!Cancel \/ Path!LeftEnds
  PROVE  StepInv'
  <1>1. /\ UNCHANGED <<plan, runAt, link, tries, index, abandoned, attempts, stepEnds,
                       runRow, channel,
                       runAnswer, stepView, runShown, runOvertaken>>
        /\ stop' \in BOOLEAN /\ alive' \subseteq alive
    BY DEF Path!Cancel, Path!LeftEnds, Path!process, Path!report, Path!page, StepInv,
           StepTypeInv
  <1>2. StepTypeInv'
    BY <1>1 DEF StepInv, StepTypeInv, Path!Count, Event
  <1>3. WorkOK'
    BY <1>1 DEF StepInv, WorkOK, Path!Here
  <1>4. StepsOK'
    BY <1>1 DEF StepInv, StepsOK, Path!Count
  <1>5. EventsOK' /\ ViewOK'
    BY <1>1 DEF StepInv, EventsOK, ViewOK, EndsAfter
  <1>6. StepAnswerOK'
    BY <1>1 DEF StepInv, StepAnswerOK, SomeError
  <1>7. QED
    BY <1>2, <1>3, <1>4, <1>5, <1>6 DEF StepInv

-----------------------------------------------------------------------------
(* The steps.                                                              *)

(* The step at hand goes on, without an event.                             *)
LEMMA GoesOnOK ==
  ASSUME Path!TaskStepsAssumption, StepInv, runAt \in Running,
         runAt' \in Running \ {"backoff"}, StepQuiet,
         UNCHANGED <<index, tries, attempts, stepEnds, channel>>
  PROVE  StepsOK' /\ EventsOK' /\ ViewOK' /\ StepAnswerOK'
  <1>1. EventsOK' /\ ViewOK'
    <2>1. index \in Nat /\ index' \in Nat /\ index <= index'
      BY PlanOK DEF StepInv, StepTypeInv
    <2>2. QED
      BY <2>1, SilentOK DEF StepInv, StepQuiet, Path!page
  <1>2. runAt' # "backoff" /\ runAt' # "over" /\ runAt' # "ends" /\ runAt' \notin Waiting
    BY DEF Running, Waiting
  <1>3. StepsOK'
    BY <1>2 DEF StepInv, StepsOK, Path!Count, StepQuiet, Running
  <1>4. StepAnswerOK'
    BY <1>2 DEF StepInv, StepAnswerOK, StepQuiet, Path!page, Running
  <1>5. QED
    BY <1>1, <1>3, <1>4

LEMMA TypesOK ==
  ASSUME Path!TaskStepsAssumption, StepInv, StepQuiet, UNCHANGED stop, UNCHANGED link,
         runAt' \in Running \cup Waiting \cup Ending \cup {"over"},
         tries' \in 0 .. ConnectAttempts, index' \in 1 .. Path!Count + 1,
         attempts' \in [DOMAIN plan -> Nat], stepEnds' \in [DOMAIN plan -> Status],
         channel' \in Seq(Event), alive' \subseteq (DOMAIN plan) \X {"local", "remote"},
         abandoned' \subseteq DOMAIN plan
  PROVE  StepTypeInv'
  BY DEF StepInv, StepTypeInv, StepQuiet, Path!page, Path!Count, Event

(* The three ends of an attempt, together.                                 *)
AttemptEnds == Path!Succeeds \/ Path!Fails \/ Path!StepCancelled

LEMMA AttemptEndsOK ==
  ASSUME Path!TaskStepsAssumption, StepInv, runAt \in Running, AttemptEnds, StepQuiet,
         UNCHANGED <<stop, link, attempts>>,
         alive' \subseteq alive, abandoned' \subseteq DOMAIN plan,
         \A p \in alive' : p[1] \in abandoned'
  PROVE  StepInv'
  <1>1. /\ StepsOK' /\ EventsOK' /\ ViewOK' /\ StepAnswerOK'
        /\ runAt' \in {"next", "cancelled", "ends", "backoff"} /\ UNCHANGED tries
        /\ index' \in 1 .. Path!Count + 1
        /\ stepEnds' \in [DOMAIN plan -> Status] /\ channel' \in Seq(Event)
    <2>1. index \in 1 .. Path!Count + 1 /\ stepEnds \in [DOMAIN plan -> Status]
      BY DEF StepInv, StepTypeInv
    <2>2. CASE Path!Succeeds
      BY <2>2, SucceedsOK
    <2>3. CASE Path!Fails
      BY <2>1, <2>3, FailsOK
    <2>4. CASE Path!StepCancelled
      BY <2>1, <2>4, StepCancelledOK
    <2>5. QED
      BY <2>2, <2>3, <2>4 DEF AttemptEnds
  <1>2. StepTypeInv'
    <2>1. runAt' \in Running \cup Waiting \cup Ending \cup {"over"}
      BY <1>1 DEF Running, Waiting, Ending
    <2>2. alive' \subseteq (DOMAIN plan) \X {"local", "remote"}
      BY DEF StepInv, StepTypeInv
    <2>3. attempts' \in [DOMAIN plan -> Nat] /\ tries' \in 0 .. ConnectAttempts
      BY <1>1 DEF StepInv, StepTypeInv
    <2>4. QED
      BY <1>1, <2>1, <2>2, <2>3, TypesOK
  <1>3. WorkOK'
    <2>1. \A p \in alive' : p[2] = plan'[p[1]].kind
      BY DEF StepInv, WorkOK, StepQuiet
    <2>2. runAt' \notin {"local", "remote", "drain", "drain failed", "connect",
                         "connect wait", "over"}
      BY <1>1
    <2>3. QED
      BY <2>1, <2>2 DEF WorkOK
  <1>4. QED
    BY <1>1, <1>2, <1>3 DEF StepInv

(* A step is tried, for the first time or again.                           *)
LEMMA TriesOK ==
  ASSUME Path!TaskStepsAssumption, StepInv, Path!Tries, StepQuiet,
         UNCHANGED <<index, tries, stepEnds>>,
         index <= Path!Count,
         \/ runAt = "backoff" /\ UNCHANGED channel
         \/ runAt = "next" /\ Path!Sends(<<<<index, "start">>>>)
  PROVE  /\ StepsOK' /\ EventsOK' /\ ViewOK' /\ StepAnswerOK' /\ runAt' = "try"
         /\ attempts' \in [DOMAIN plan -> Nat] /\ channel' \in Seq(Event)
  <1>1. /\ index \in 1 .. Path!Count /\ Path!Count \in Nat /\ DOMAIN plan = 1 .. Path!Count
        /\ \A i \in DOMAIN plan : plan[i].retries \in Nat
    <2>1. Path!Count \in Nat /\ index \in 1 .. Path!Count + 1
            /\ DOMAIN plan = 1 .. Path!Count
      BY PlanOK DEF StepInv, StepTypeInv
    <2>2. QED
      BY <2>1, PlanOK DEF StepInv
  <1>2. /\ runAt' = "try" /\ attempts' = [attempts EXCEPT ![index] = @ + 1]
        /\ attempts' \in [DOMAIN plan -> Nat] /\ attempts'[index] = attempts[index] + 1
        /\ attempts[index] \in Nat
        /\ \A i \in DOMAIN plan : i # index => attempts'[i] = attempts[i]
    BY <1>1 DEF Path!Tries, StepInv, StepTypeInv
  <1>3. attempts[index] <= plan[index].retries
    <2>1. runAt \in Waiting => attempts[index] = 0
      BY <1>1 DEF StepInv, StepsOK
    <2>2. runAt = "backoff" => attempts[index] <= plan[index].retries
      BY <1>1 DEF StepInv, StepsOK
    <2>3. plan[index].retries \in Nat
      BY <1>1
    <2>4. CASE runAt = "next"
      BY <2>1, <2>3, <2>4 DEF Waiting
    <2>5. QED
      BY <2>2, <2>4
  <1>4. StepsOK'
    <2>1. runAt' \in Running /\ runAt' \notin Waiting
            /\ runAt' \notin {"backoff", "ends", "over"}
      BY <1>2 DEF Running, Waiting
    <2>2. runRow = "running" /\ UNCHANGED <<plan, runRow, stepEnds, index>>
      BY DEF StepQuiet, StepInv, StepAnswerOK
    <2>3. \A i \in DOMAIN plan :
            /\ i < index => stepEnds[i] = "done" /\ attempts'[i] > 0
            /\ i > index => stepEnds[i] = "skipped" /\ attempts'[i] = 0
            /\ i = index => stepEnds[i] = "skipped"
            /\ attempts'[i] <= plan[i].retries + 1
      BY <1>1, <1>2, <1>3 DEF StepInv, StepsOK
    <2>4. QED
      BY <1>1, <1>2, <2>1, <2>2, <2>3 DEF StepsOK, Path!Count
  <1>5. EventsOK' /\ ViewOK' /\ channel' \in Seq(Event)
    <2>1. CASE runAt = "backoff" /\ UNCHANGED channel
      <3>1. index \in Nat /\ index' \in Nat /\ index <= index'
        BY <1>1
      <3>2. runAt' \in Running /\ runAt \in Running
        BY <1>2, <2>1 DEF Running
      <3>3. QED
        BY <2>1, <3>1, <3>2, SilentOK DEF StepInv, StepQuiet, Path!page, StepTypeInv
    <2>2. CASE runAt = "next" /\ Path!Sends(<<<<index, "start">>>>)
      <3> DEFINE es == <<<<index, "start">>>>
      <3>1. /\ es \in Seq(Event) /\ DOMAIN es = {1} /\ es[1][1] = index
            /\ es[1][2] = "start"
        <4>1. <<index, "start">> \in Event
          BY <1>1 DEF Event
        <4>2. QED
          BY <4>1, OneEvent
      <3>2. channel' = channel \o es
        BY <2>2 DEF Path!Sends
      <3> HIDE DEF es
      <3>3. /\ runAt' \in Running /\ runAt \notin Running /\ runAt \in Running \cup Waiting
            /\ index \in Nat /\ index' \in Nat /\ index <= index'
        BY <1>1, <1>2, <2>2 DEF Running, Waiting
      <3>4. \A j \in DOMAIN es :
             /\ es[j][2] # "start" => /\ es[j][2] = stepEnds'[es[j][1]]
                                      /\ runAt' \in Running \cup Waiting =>
                                           es[j][1] < index'
             /\ es[j][2] = "start" => runAt' \in Running /\ es[j][1] = index'
        BY <3>1, <3>3
      <3>5. EventsOK' /\ ViewOK' /\ channel' \in Seq(Event)'
        BY <3>1, <3>2, <3>3, <3>4, SendOK DEF StepInv, StepQuiet, Path!page
      <3>6. QED
        BY <3>5 DEF Event, StepQuiet
    <2>3. QED
      BY <2>1, <2>2
  <1>6. StepAnswerOK'
    BY <1>2 DEF StepInv, StepAnswerOK, StepQuiet, Path!page
  <1>7. QED
    BY <1>2, <1>4, <1>5, <1>6

LEMMA TriesInv ==
  ASSUME Path!TaskStepsAssumption, StepInv, Path!Tries, StepQuiet,
         UNCHANGED <<index, tries, stepEnds>>,
         index <= Path!Count,
         \/ runAt = "backoff" /\ UNCHANGED channel
         \/ runAt = "next" /\ Path!Sends(<<<<index, "start">>>>),
         UNCHANGED <<stop, link, alive, abandoned>>
  PROVE  StepInv'
  <1>1. /\ StepsOK' /\ EventsOK' /\ ViewOK' /\ StepAnswerOK' /\ runAt' = "try"
        /\ attempts' \in [DOMAIN plan -> Nat] /\ channel' \in Seq(Event)
    BY TriesOK
  <1>2. StepTypeInv'
    <2>1. runAt' \in Running \cup Waiting \cup Ending \cup {"over"}
      BY <1>1 DEF Running
    <2>2. /\ alive' \subseteq (DOMAIN plan) \X {"local", "remote"}
          /\ abandoned' \subseteq DOMAIN plan
          /\ tries' \in 0 .. ConnectAttempts /\ index' \in 1 .. Path!Count + 1
          /\ stepEnds' \in [DOMAIN plan -> Status]
      BY DEF StepInv, StepTypeInv
    <2>3. QED
      BY <1>1, <2>1, <2>2, TypesOK
  <1>3. WorkOK'
    BY <1>1 DEF StepInv, WorkOK, Path!Here, StepQuiet
  <1>4. QED
    BY <1>1, <1>2, <1>3 DEF StepInv

LEMMA BeginStepOK ==
  ASSUME Path!TaskStepsAssumption, StepInv, Path!BeginStep
  PROVE  StepInv'
  <1>1. runAt = "next" /\ StepQuiet /\ UNCHANGED <<stop, link, alive, abandoned>>
    BY DEF Path!BeginStep, StepQuiet
  <1>2. CASE index > Path!Count /\ Path!Ends("ends")
             /\ UNCHANGED <<attempts, stepEnds, channel>>
    <2>1. runAt' = "ends" /\ UNCHANGED <<index, tries>>
      BY <1>2 DEF Path!Ends
    <2>2. EventsOK' /\ ViewOK'
      <3>1. Path!Count \in Nat /\ index \in 1 .. Path!Count + 1
        BY PlanOK DEF StepInv, StepTypeInv
      <3>2. index \in Nat /\ index' \in Nat /\ index <= index'
        BY <2>1, <3>1
      <3>3. runAt' \notin Running \cup Waiting /\ runAt \notin Running
        BY <1>1, <2>1 DEF Running, Waiting
      <3>4. QED
        BY <1>1, <1>2, <3>2, <3>3, SilentOK DEF StepInv, StepQuiet, Path!page
    <2>3. StepTypeInv'
      <3>1. runAt' \in Running \cup Waiting \cup Ending \cup {"over"}
        BY <2>1 DEF Ending
      <3>2. QED
        BY <1>1, <1>2, <2>1, <3>1 DEF StepInv, StepTypeInv, StepQuiet, Path!page,
               Path!Count, Event
    <2>4. WorkOK'
      BY <1>1, <2>1 DEF StepInv, WorkOK, StepQuiet, Path!Here
    <2>5. StepsOK'
      BY <1>1, <1>2, <2>1 DEF StepInv, StepsOK, StepQuiet, Path!Count, Running, Waiting
    <2>6. StepAnswerOK'
      BY <1>1, <2>1 DEF StepInv, StepAnswerOK, StepQuiet, Path!page
    <2>7. QED
      BY <2>2, <2>3, <2>4, <2>5, <2>6 DEF StepInv
  <1>3. CASE index <= Path!Count /\ stop /\ Path!StepCancelled /\ UNCHANGED attempts
    <2>1. /\ StepsOK' /\ EventsOK' /\ ViewOK' /\ StepAnswerOK'
          /\ runAt' = "cancelled" /\ UNCHANGED <<tries, index, stepEnds>>
          /\ channel' \in Seq(Event)
      BY <1>1, <1>3, StepCancelledOK
    <2>2. StepTypeInv'
      <3>1. runAt' \in Running \cup Waiting \cup Ending \cup {"over"}
        BY <2>1 DEF Ending
      <3>2. QED
        BY <1>1, <1>3, <2>1, <3>1 DEF StepInv, StepTypeInv, StepQuiet, Path!page,
               Path!Count, Event
    <2>3. WorkOK'
      BY <1>1, <2>1 DEF StepInv, WorkOK, StepQuiet, Path!Here
    <2>4. QED
      BY <2>1, <2>2, <2>3 DEF StepInv
  <1>4. CASE /\ index <= Path!Count /\ ~stop /\ Path!Tries
             /\ Path!Sends(<<<<index, "start">>>>)
             /\ UNCHANGED <<index, tries, stepEnds>>
    BY <1>1, <1>4, TriesInv
  <1>5. QED
    BY <1>2, <1>3, <1>4 DEF Path!BeginStep

LEMMA TryOK ==
  ASSUME Path!TaskStepsAssumption, StepInv, Path!Try
  PROVE  StepInv'
  <1>1. runAt = "try" /\ StepQuiet /\ UNCHANGED <<stop, link, abandoned, attempts>>
          /\ runAt \in Running
    BY DEF Path!Try, StepQuiet, Running
  <1>2. /\ \A p \in alive : p[1] \in abandoned /\ p[2] = plan[p[1]].kind
        /\ abandoned \subseteq DOMAIN plan
    BY <1>1 DEF StepInv, WorkOK, StepTypeInv
  <1>3. CASE AttemptEnds /\ UNCHANGED alive
    BY <1>1, <1>2, <1>3, AttemptEndsOK
  <1>4. CASE /\ runAt' = Path!Here.kind /\ UNCHANGED <<index, tries, stepEnds, channel>>
             /\ alive' = IF runAt' = "transfer" THEN alive
                    ELSE alive \cup {<<index, runAt'>>}
    <2>1. /\ Path!Count \in Nat /\ index \in 1 .. Path!Count /\ index \in DOMAIN plan
          /\ plan[index].kind \in {"local", "remote", "transfer"}
      <3>1. Path!Count \in Nat /\ index \in 1 .. Path!Count + 1 /\ index <= Path!Count
              /\ DOMAIN plan = 1 .. Path!Count
        BY <1>1, PlanOK DEF StepInv, StepTypeInv, StepsOK
      <3>2. QED
        BY <3>1, PlanOK DEF StepInv
    <2>2. runAt' \in {"local", "remote", "transfer"} /\ runAt' = plan[index].kind
      BY <1>4, <2>1 DEF Path!Here
    <2>3. StepsOK' /\ EventsOK' /\ ViewOK' /\ StepAnswerOK'
      <3>1. runAt' \in Running \ {"backoff"}
        BY <2>2 DEF Running
      <3>2. QED
        BY <1>1, <1>4, <3>1, GoesOnOK
    <2>4. \A p \in alive' :
            p \in alive \/ (p = <<index, runAt'>> /\ runAt' \in {"local", "remote"})
      BY <1>4, <2>2
    <2>5. StepTypeInv'
      <3>1. runAt' \in Running \cup Waiting \cup Ending \cup {"over"}
        BY <2>2 DEF Running
      <3>2. alive' \subseteq (DOMAIN plan) \X {"local", "remote"}
        BY <2>1, <2>4 DEF StepInv, StepTypeInv
      <3>3. QED
        BY <1>1, <1>4, <3>1, <3>2 DEF StepInv, StepTypeInv, StepQuiet, Path!page,
               Path!Count, Event
    <2>6. WorkOK'
      <3>1. \A p \in alive' : /\ p[2] = plan[p[1]].kind
                              /\ \/ p[1] \in abandoned
                                 \/ p[1] = index /\ runAt' \in {"local", "remote", "drain",
                                                                "drain failed"}
        <4>1. ASSUME NEW p \in alive', p = <<index, runAt'>>, runAt' \in {"local", "remote"}
              PROVE  p[1] = index /\ p[2] = plan[p[1]].kind
          BY <2>2, <4>1
        <4>2. QED
          BY <1>2, <2>4, <4>1
      <3>2. runAt' \notin {"drain", "drain failed", "connect", "connect wait", "over"}
        BY <2>2
      <3>3. QED
        BY <1>1, <1>4, <2>2, <3>1, <3>2 DEF WorkOK, Path!Here, StepQuiet
    <2>7. QED
      BY <2>3, <2>5, <2>6 DEF StepInv
  <1>5. QED
    BY <1>3, <1>4 DEF Path!Try, Path!TryLocal, Path!TryRemote, Path!TryTransfer, AttemptEnds

(* The command of the step at hand is the only one that was not left.      *)
LEMMA OnlyHere ==
  ASSUME Path!TaskStepsAssumption, StepInv, NEW p \in alive, p # <<index, Path!Here.kind>>
  PROVE  p[1] \in abandoned /\ abandoned \subseteq DOMAIN plan
  <1>1. p = <<p[1], p[2]>>
    BY DEF StepInv, StepTypeInv
  <1>2. QED
    BY <1>1 DEF StepInv, WorkOK, Path!Here, StepTypeInv

LEMMA StepEndsOK ==
  ASSUME Path!TaskStepsAssumption, StepInv,
         Path!KillLocal \/ Path!Drained \/ Path!RemoteEnds \/ Path!RemoteLeft
           \/ Path!TransferEnds
  PROVE  StepInv'
  <1>1. AttemptEnds /\ StepQuiet /\ UNCHANGED <<stop, link, attempts>> /\ runAt \in Running
    BY DEF Path!KillLocal, Path!Drained, Path!RemoteEnds, Path!RemoteLeft,
           Path!TransferEnds, AttemptEnds, StepQuiet, Path!process, Running
  <1>2. abandoned \subseteq DOMAIN plan
    BY DEF StepInv, StepTypeInv
  <1>3. CASE Path!KillLocal \/ Path!Drained \/ Path!RemoteEnds
    <2>1. alive' = alive \ {<<index, Path!Here.kind>>} /\ UNCHANGED abandoned
      BY <1>3 DEF Path!KillLocal, Path!Drained, Path!RemoteEnds, Path!AfterKill, StepInv,
                  WorkOK
    <2>2. \A p \in alive' : p[1] \in abandoned'
      BY <2>1, OnlyHere
    <2>3. QED
      BY <1>1, <1>2, <2>1, <2>2, AttemptEndsOK
  <1>4. CASE Path!RemoteLeft
    <2>1. UNCHANGED alive /\ abandoned' = abandoned \cup {index} /\ index \in DOMAIN plan
      <3>1. Path!Count \in Nat /\ index \in 1 .. Path!Count + 1 /\ index <= Path!Count
              /\ DOMAIN plan = 1 .. Path!Count
        BY <1>1, PlanOK DEF StepInv, StepTypeInv, StepsOK
      <3>2. QED
        BY <1>4, <3>1 DEF Path!RemoteLeft
    <2>2. \A p \in alive' : p[1] \in abandoned'
      BY <2>1 DEF StepInv, WorkOK
    <2>3. QED
      BY <1>1, <1>2, <2>1, <2>2, AttemptEndsOK
  <1>5. CASE Path!TransferEnds
    <2>1. UNCHANGED <<alive, abandoned>> /\ runAt = "transfer"
      BY <1>5 DEF Path!TransferEnds, Path!process
    <2>2. \A p \in alive' : p[1] \in abandoned'
      BY <2>1 DEF StepInv, WorkOK
    <2>3. QED
      BY <1>1, <1>2, <2>1, <2>2, AttemptEndsOK
  <1>6. QED
    BY <1>3, <1>4, <1>5

LEMMA LocalExitsOK ==
  ASSUME Path!TaskStepsAssumption, StepInv, Path!LocalExits
  PROVE  StepInv'
  <1>1. /\ runAt = "local" /\ runAt' \in {"drain", "drain failed"} /\ StepQuiet
        /\ UNCHANGED <<stop, link, tries, index, alive, abandoned, attempts, stepEnds,
                       channel>>
    BY DEF Path!LocalExits, StepQuiet, Path!process, Path!report, Path!page
  <1>2. runAt \in Running /\ runAt' \in Running \ {"backoff"}
    BY <1>1 DEF Running
  <1>3. StepsOK' /\ EventsOK' /\ ViewOK' /\ StepAnswerOK'
    BY <1>1, <1>2, GoesOnOK
  <1>4. StepTypeInv'
    BY <1>1, <1>2 DEF StepInv, StepTypeInv, StepQuiet, Path!page, Path!Count, Event
  <1>5. WorkOK'
    BY <1>1 DEF StepInv, WorkOK, Path!Here, StepQuiet
  <1>6. QED
    BY <1>3, <1>4, <1>5 DEF StepInv

LEMMA RetryStepOK ==
  ASSUME Path!TaskStepsAssumption, StepInv, Path!RetryStep
  PROVE  StepInv'
  <1>1. /\ runAt = "backoff" /\ StepQuiet /\ UNCHANGED <<stop, link, alive, abandoned>>
        /\ runAt \in Running /\ index <= Path!Count
    BY DEF Path!RetryStep, StepQuiet, Running, StepInv, StepsOK
  <1>2. CASE Path!StepCancelled /\ UNCHANGED attempts
    <2>1. (\A p \in alive' : p[1] \in abandoned') /\ abandoned \subseteq DOMAIN plan
      BY <1>1 DEF StepInv, WorkOK, StepTypeInv
    <2>2. QED
      BY <1>1, <1>2, <2>1, AttemptEndsOK DEF AttemptEnds
  <1>3. CASE Path!Tries /\ UNCHANGED <<index, tries, stepEnds, channel>>
    BY <1>1, <1>3, TriesInv
  <1>4. QED
    BY <1>2, <1>3 DEF Path!RetryStep

-----------------------------------------------------------------------------
(* The end of the run, and the page.                                       *)

LEMMA StepFinishOK ==
  ASSUME Path!TaskStepsAssumption, StepInv, Path!Finish
  PROVE  StepInv'
  <1>1. /\ runAt \in Ending /\ runAt' = "over" /\ link' = "none"
        /\ runRow' = Path!RowStatus(runAt) /\ runAnswer' = Path!AnswerStatus(runAt)
        /\ UNCHANGED <<plan, stop, tries, index, alive, abandoned, attempts, stepEnds,
                       channel,
                       stepView, runShown, runOvertaken>>
    BY DEF Path!Finish, Ending, Path!process, Path!page
  <1>2. runAt \in {"ends", "error", "cancelled"} /\ runShown = "running"
    BY <1>1 DEF Ending, StepInv, StepAnswerOK
  <1>3. /\ runRow' = IF runAt = "ends" THEN (IF SomeError THEN "error" ELSE "done")
               ELSE runAt
        /\ runAnswer' = IF runAt = "ends" THEN "done" ELSE runAt
    BY <1>1, <1>2 DEF Path!RowStatus, Path!AnswerStatus, SomeError
  <1>4. StepTypeInv'
    <2>1. runAt' \in Running \cup Waiting \cup Ending \cup {"over"}
      BY <1>1
    <2>2. /\ runRow' \in {"running", "done", "error", "cancelled"}
          /\ runAnswer' \in {"none", "done", "error", "cancelled"}
      BY <1>2, <1>3
    <2>3. QED
      BY <1>1, <2>1, <2>2 DEF StepInv, StepTypeInv, Path!Count, Event
  <1>5. WorkOK'
    BY <1>1, <1>2 DEF StepInv, WorkOK, Path!Here
  <1>6. Path!Count \in Nat /\ index \in 1 .. Path!Count + 1 /\ DOMAIN plan = 1 .. Path!Count
    BY PlanOK DEF StepInv, StepTypeInv
  <1>7. StepsOK'
    <2>1. runRow' = "done" => index > Path!Count
      <3>1. ASSUME runRow' = "done"
            PROVE  runAt = "ends" /\ ~SomeError
        BY <1>2, <1>3, <3>1
      <3>2. index <= Path!Count => index \in DOMAIN plan
        BY <1>6
      <3>3. QED
        BY <1>6, <3>1, <3>2 DEF SomeError, StepInv, StepsOK
    <2>2. runAt' \notin Running /\ runAt' \notin Waiting
      BY <1>1 DEF Running, Waiting
    <2>3. QED
      BY <1>1, <1>2, <2>1, <2>2 DEF StepInv, StepsOK, Path!Count
  <1>8. EventsOK' /\ ViewOK'
    <2>1. index \in Nat /\ index' \in Nat /\ index <= index'
      BY <1>1, <1>6
    <2>2. runAt' \notin Running \cup Waiting /\ runAt \notin Running
      BY <1>1, <1>2 DEF Running, Waiting
    <2>3. QED
      BY <1>1, <2>1, <2>2, SilentOK DEF StepInv
  <1>9. StepAnswerOK'
    <2>1. SomeError' <=> SomeError
      BY <1>1 DEF SomeError
    <2>2. QED
      BY <1>1, <1>2, <1>3, <2>1 DEF StepAnswerOK
  <1>10. QED
    BY <1>4, <1>5, <1>7, <1>8, <1>9 DEF StepInv

LEMMA StepHearEventOK ==
  ASSUME Path!TaskStepsAssumption, StepInv, Path!HearEvent
  PROVE  StepInv'
  <1> DEFINE s == Head(channel)[1]
             how == Head(channel)[2]
  <1>1. /\ channel # <<>> /\ channel' = Tail(channel)
        /\ stepView' = [stepView EXCEPT ![s] = Path!Applied(how)]
        /\ UNCHANGED <<plan, runAt, stop, link, tries, index, alive, abandoned, attempts,
                       stepEnds,
                       runRow, runAnswer, runShown, runOvertaken>>
    BY DEF Path!HearEvent, Path!process
  <1>2. /\ Len(channel) \in Nat \ {0} /\ DOMAIN channel = 1 .. Len(channel)
        /\ Head(channel) = channel[1] /\ Tail(channel) \in Seq(Event)
        /\ DOMAIN channel' = 1 .. Len(channel) - 1
        /\ \A k \in 1 .. Len(channel) - 1 : channel'[k] = channel[k + 1]
    BY <1>1, EmptySeq, LenProperties, HeadTailProperties DEF StepInv, StepTypeInv
  <1>3. channel[1] \in Event /\ s \in DOMAIN plan /\ how \in Status \cup {"start"}
    <2>1. channel[1] \in Event
      BY <1>2, ElementOfSeq DEF StepInv, StepTypeInv
    <2>2. QED
      BY <1>2, <2>1 DEF Event
  <1>4. \A i, k \in Int : k >= 0 => (EndsAfter(i, k + 1) => EndsAfter(i, k)')
    <2> SUFFICES ASSUME NEW i \in Int, NEW k \in Int, k >= 0, EndsAfter(i, k + 1)
                 PROVE  EndsAfter(i, k)'
      OBVIOUS
    <2>1. PICK l \in DOMAIN channel : l > k + 1 /\ channel[l][1] = i
            /\ channel[l][2] # "start"
      BY DEF EndsAfter
    <2>2. /\ l - 1 \in DOMAIN channel' /\ l - 1 > k /\ channel'[l - 1] = channel[l]
      BY <1>2, <2>1
    <2>3. QED
      BY <2>1, <2>2 DEF EndsAfter
  <1>5. DOMAIN plan \subseteq Int /\ index \in Int
    BY PlanOK DEF StepInv, StepTypeInv
  <1> HIDE DEF s, how
  <1>6. StepTypeInv'
    <2>1. stepView' \in [DOMAIN plan -> Status \cup {"pending", "running"}]
      BY <1>1, <1>3 DEF StepInv, StepTypeInv, Path!Applied
    <2>2. QED
      BY <1>1, <1>2, <2>1 DEF StepInv, StepTypeInv, Path!Count, Event
  <1>7. WorkOK'
    BY <1>1 DEF StepInv, WorkOK, Path!Here
  <1>8. StepsOK'
    BY <1>1 DEF StepInv, StepsOK, Path!Count
  <1>9. EventsOK'
    <2> SUFFICES ASSUME NEW k \in DOMAIN channel'
                 PROVE  /\ channel'[k][2] # "start" =>
                             /\ channel'[k][2] = stepEnds'[channel'[k][1]]
                             /\ runAt' \in Running \cup Waiting => channel'[k][1] < index'
                        /\ channel'[k][2] = "start" =>
                             \/ EndsAfter(channel[k][1], k)'
                             \/ runAt' \in Running /\ channel'[k][1] = index'
      BY DEF EventsOK
    <2>1. k \in Nat \ {0} /\ k + 1 \in DOMAIN channel /\ channel'[k] = channel[k + 1]
      BY <1>2
    <2>2. PICK i \in Int : i = channel[k + 1][1] /\ i = channel'[k][1]
      <3>1. channel[k + 1] \in Event
        BY <1>2, <2>1, ElementOfSeq DEF StepInv, StepTypeInv
      <3>2. QED
        BY <1>5, <2>1, <3>1 DEF Event
    <2>3. EndsAfter(i, k + 1) => EndsAfter(i, k)'
      BY <1>4, <2>1
    <2>4. EndsAfter(channel[k][1], k)' <=> EndsAfter(i, k)'
      BY <2>2 DEF EndsAfter
    <2>5. QED
      BY <1>1, <2>1, <2>2, <2>3, <2>4 DEF StepInv, EventsOK
  <1>10. ViewOK'
    <2> SUFFICES ASSUME NEW i \in DOMAIN plan
                 PROVE  \/ stepView'[i] = stepEnds[i] \/ EndsAfter(i, 0)'
                        \/ /\ stepEnds[i] = "skipped" /\ stepView'[i] \in {"pending",
                                                                           "running"}
                           /\ runShown = "running"
      BY <1>1 DEF ViewOK
    <2>1. i \in Int /\ (EndsAfter(i, 1) => EndsAfter(i, 0)')
      <3>1. i \in Int /\ EndsAfter(i, 0 + 1) => EndsAfter(i, 0)'
        BY <1>4, <1>5
      <3>2. 0 + 1 = 1
        OBVIOUS
      <3>3. QED
        BY <1>5, <3>1, <3>2
    <2>2. CASE i # s
      <3>1. stepView'[i] = stepView[i]
        BY <1>1, <2>2 DEF StepInv, StepTypeInv
      <3>2. EndsAfter(i, 0) => EndsAfter(i, 1)
        <4>1. ASSUME NEW l \in DOMAIN channel, l > 0, channel[l][1] = i
              PROVE  l > 1
          BY <1>2, <2>2, <4>1 DEF s
        <4>2. QED
          BY <4>1 DEF EndsAfter
      <3>3. QED
        BY <2>1, <3>1, <3>2 DEF StepInv, ViewOK
    <2>3. CASE i = s /\ how = "start"
      <3>1. stepView'[i] = "running"
        BY <1>1, <2>3 DEF StepInv, StepTypeInv, Path!Applied
      <3>2. EndsAfter(i, 1) \/ (runAt \in Running /\ i = index)
        BY <1>2, <2>3 DEF StepInv, EventsOK, s, how
      <3>3. runAt \in Running => runShown = "running" /\ stepEnds[index] = "skipped"
        <4>1. runAt \in Running => runAt # "over" /\ runAt # "ends"
          BY DEF Running
        <4>2. runAt \in Running => index \in DOMAIN plan
          BY PlanOK DEF StepInv, StepTypeInv, StepsOK
        <4>3. QED
          BY <4>1, <4>2 DEF StepInv, StepsOK, StepAnswerOK
      <3>4. QED
        BY <2>1, <3>1, <3>2, <3>3
    <2>4. CASE i = s /\ how # "start"
      <3>1. stepView'[i] = how
        BY <1>1, <2>4 DEF StepInv, StepTypeInv, Path!Applied
      <3>2. how = stepEnds[i]
        BY <1>2, <2>4 DEF StepInv, EventsOK, s, how
      <3>3. QED
        BY <3>1, <3>2
    <2>5. QED
      BY <2>2, <2>3, <2>4
  <1>11. StepAnswerOK'
    BY <1>1 DEF StepInv, StepAnswerOK, SomeError
  <1>12. QED
    BY <1>6, <1>7, <1>8, <1>9, <1>10, <1>11 DEF StepInv

LEMMA StepHearAnswerOK ==
  ASSUME Path!TaskStepsAssumption, StepInv, Path!HearAnswer
  PROVE  StepInv'
  <1>1. /\ runAnswer # "none" /\ runAnswer' = "none" /\ runShown' = Path!Resolved(runAnswer)
        /\ stepView' = [i \in DOMAIN plan |->
                         IF stepView[i] \in {"pending", "running"} THEN "skipped"
                             ELSE stepView[i]]
        /\ runOvertaken' = (channel # <<>>)
        /\ UNCHANGED <<plan, runAt, stop, link, tries, index, alive, abandoned, attempts,
                       stepEnds,
                       runRow, channel>>
    BY DEF Path!HearAnswer, Path!process
  <1>2. runShown' \in {"done", "error", "cancelled"}
    BY <1>1 DEF Path!Resolved, StepInv, StepTypeInv
  <1>3. StepTypeInv'
    <2>1. \A i \in DOMAIN plan : stepView'[i] \in Status \cup {"pending", "running"}
      BY <1>1 DEF StepInv, StepTypeInv, Status
    <2>2. stepView' \in [DOMAIN plan -> Status \cup {"pending", "running"}]
      BY <1>1, <2>1
    <2>3. QED
      BY <1>1, <1>2, <2>2 DEF StepInv, StepTypeInv, Path!Count, Event
  <1>4. WorkOK'
    BY <1>1 DEF StepInv, WorkOK, Path!Here
  <1>5. StepsOK'
    BY <1>1 DEF StepInv, StepsOK, Path!Count
  <1>6. EventsOK'
    BY <1>1 DEF StepInv, EventsOK, EndsAfter
  <1>7. ASSUME NEW i \in DOMAIN plan
        PROVE  stepView'[i] = stepEnds[i] \/ EndsAfter(i, 0)
    <2>1. stepView[i] = stepEnds[i] => stepView'[i] = stepEnds[i]
      BY <1>1 DEF StepInv, StepTypeInv, Status
    <2>2. QED
      BY <1>1, <2>1 DEF StepInv, ViewOK
  <1>8. ViewOK'
    BY <1>1, <1>7 DEF ViewOK, EndsAfter
  <1>9. StepAnswerOK'
    <2>1. channel = <<>> => runShown' = runRow
      <3> SUFFICES ASSUME channel = <<>>
                   PROVE  runShown' = runRow
        OBVIOUS
      <3>1. \A i \in DOMAIN plan : ~EndsAfter(i, 0)
        BY DEF EndsAfter
      <3>2. \A i \in DOMAIN plan : stepView[i] = "error" <=> stepEnds[i] = "error"
        BY <3>1 DEF StepInv, ViewOK
      <3>3. (\E i \in DOMAIN plan : stepView[i] = "error") <=> SomeError
        BY <3>2 DEF SomeError
      <3>4. QED
        BY <1>1, <3>3 DEF StepInv, StepAnswerOK, Path!Resolved
    <2>2. runAt = "over"
      BY <1>1 DEF StepInv, StepAnswerOK
    <2>3. QED
      BY <1>1, <2>1, <2>2 DEF StepAnswerOK
  <1>10. QED
    BY <1>3, <1>4, <1>5, <1>6, <1>8, <1>9 DEF StepInv

-----------------------------------------------------------------------------
LEMMA StepInitOK ==
  ASSUME Path!TaskStepsAssumption, Path!Init
  PROVE  StepInv
  <1>1. /\ plan \in Seq([kind : {"local", "remote", "transfer"}, retries : Nat])
        /\ Path!Count \in Nat /\ DOMAIN plan = 1 .. Path!Count
    <2>1. plan \in Seq([kind : {"local", "remote", "transfer"}, retries : Nat])
      BY DEF Path!Init, Path!TaskStepsAssumption
    <2>2. QED
      BY <2>1, LenProperties DEF Path!Count
  <1>2. \A i \in DOMAIN plan : plan[i].retries \in Nat
    <2>1. \A i \in DOMAIN plan :
            plan[i] \in [kind : {"local", "remote", "transfer"}, retries : Nat]
      BY <1>1, ElementOfSeq DEF Path!Count
    <2>2. QED
      BY <2>1
  <1>3. runAt \in {"connect", "next"}
    BY DEF Path!Init
  <1>4. StepTypeInv
    <2>1. runAt \in Waiting /\ index \in 1 .. Path!Count + 1
            /\ tries \in 0 .. ConnectAttempts
      BY <1>1, <1>3 DEF Waiting, Path!Init, Path!TaskStepsAssumption
    <2>2. channel \in Seq(Event)
      BY DEF Path!Init
    <2>3. QED
      BY <2>1, <2>2 DEF Path!Init, StepTypeInv, Status
  <1>5. WorkOK
    BY <1>3 DEF Path!Init, WorkOK, Path!TaskStepsAssumption
  <1>6. StepsOK
    BY <1>1, <1>2, <1>3 DEF Path!Init, StepsOK, Running
  <1>7. EventsOK /\ ViewOK
    BY DEF Path!Init, EventsOK, ViewOK
  <1>8. StepAnswerOK
    BY DEF Path!Init, StepAnswerOK
  <1>9. QED
    BY <1>4, <1>5, <1>6, <1>7, <1>8 DEF StepInv

LEMMA StepNextOK ==
  ASSUME Path!TaskStepsAssumption, StepInv, [Path!Next]_Path!vars
  PROVE  StepInv'
  <1>1. CASE Path!Next
    BY <1>1, ConnectOK, StepAsideOK, BeginStepOK, TryOK, StepEndsOK, LocalExitsOK,
       RetryStepOK,
       StepFinishOK, StepHearEventOK, StepHearAnswerOK DEF Path!Next
  <1>2. CASE UNCHANGED Path!vars
    <2>1. StepTypeInv'
      BY <1>2 DEF Path!vars, StepInv, StepTypeInv, Path!Count, Event
    <2>2. WorkOK' /\ StepsOK'
      BY <1>2 DEF Path!vars, StepInv, WorkOK, StepsOK, Path!Count, Path!Here
    <2>3. EventsOK' /\ ViewOK' /\ StepAnswerOK'
      BY <1>2 DEF Path!vars, StepInv, EventsOK, ViewOK, StepAnswerOK, EndsAfter, SomeError
    <2>4. QED
      BY <2>1, <2>2, <2>3 DEF StepInv
  <1>3. QED
    BY <1>1, <1>2

LEMMA StepInvSays ==
  ASSUME Path!TaskStepsAssumption, StepInv
  PROVE  Path!TypeOK /\ Path!StepsAreTrue /\ Path!StepsInOrder /\ Path!NothingIsLeft
  <1>1. Path!TypeOK
    BY DEF StepInv, StepTypeInv, Path!TypeOK, Running, Waiting, Ending, Status
  <1>2. Path!Count \in Nat /\ index \in 1 .. Path!Count + 1 /\ DOMAIN plan = 1 .. Path!Count
    BY PlanOK DEF StepInv, StepTypeInv
  <1>3. Path!StepsAreTrue
    <2>1. ASSUME runShown # "running", channel = <<>>
          PROVE  stepView = stepEnds /\ (~runOvertaken => runShown = runRow)
      <3>1. \A i \in DOMAIN plan : ~EndsAfter(i, 0)
        BY <2>1 DEF EndsAfter
      <3>2. \A i \in DOMAIN plan : stepView[i] = stepEnds[i]
        BY <2>1, <3>1 DEF StepInv, ViewOK
      <3>3. stepView = stepEnds
        BY <3>2 DEF StepInv, StepTypeInv
      <3>4. QED
        BY <2>1, <3>3 DEF StepInv, StepAnswerOK
    <2>2. ASSUME runRow = "done", NEW i \in DOMAIN plan
          PROVE  stepEnds[i] = "done" /\ attempts[i] > 0
      <3>1. i < index
        BY <1>2, <2>2 DEF StepInv, StepsOK
      <3>2. QED
        BY <3>1 DEF StepInv, StepsOK
    <2>3. QED
      BY <2>1, <2>2 DEF Path!StepsAreTrue
  <1>4. Path!StepsInOrder
    <2> SUFFICES ASSUME NEW i \in DOMAIN plan, attempts[i] > 0
                 PROVE  /\ attempts[i] <= plan[i].retries + 1
                        /\ \A j \in 1 .. i - 1 : stepEnds[j] = "done"
      BY DEF Path!StepsInOrder
    <2>1. i <= index /\ attempts[i] <= plan[i].retries + 1
      <3>1. ~(i > index)
        BY DEF StepInv, StepsOK
      <3>2. QED
        BY <1>2, <3>1 DEF StepInv, StepsOK
    <2>2. \A j \in 1 .. i - 1 : j \in DOMAIN plan /\ j < index
      BY <1>2, <2>1
    <2>3. QED
      BY <2>1, <2>2 DEF StepInv, StepsOK
  <1>5. Path!NothingIsLeft
    BY DEF Path!NothingIsLeft, StepInv, WorkOK
  <1>6. QED
    BY <1>1, <1>3, <1>4, <1>5

-----------------------------------------------------------------------------

Runs == [state : Batch!States, listens : BOOLEAN, cancelled : BOOLEAN,
         hosts : SUBSET RunHost, todo : SUBSET RunHost, task : [RunHost -> Batch!Statuses]]

BatchTypeInv ==
  /\ Batch!TypeOK
  /\ open \in BOOLEAN /\ begun \in Nat /\ dialogLoads \in Nat
  /\ commands \subseteq {"run", "cancel"} \X Batch!Run
  /\ hostEvents \in [Batch!Run -> Seq(RunHost \X Batch!Statuses)]
  /\ outcomes \subseteq Batch!Run \X {"ok", "cancelled"}

(* What the dialog follows is what was begun last, and is known.           *)
BatchDialogOK ==
  /\ begun # 0 => begun \in Batch!Run
  /\ ~open => followed = Batch!Nil
  /\ followed \in {Batch!Nil, begun}
  /\ \A h \in RunHost : results[h].run \in {Batch!Nil, begun}

(* A run is as far as its command got, and an answer is its end.           *)
BatchRunOK(r) ==
  /\ batch[r].state = "none" <=> r > begun
  /\ batch[r].state = "none" => batch[r] = Batch!NoRun
  /\ batch[r].state = "sent" => <<"run", r>> \in commands
  /\ <<"run", r>> \in commands => batch[r].state = "sent"
  /\ batch[r].state = "sent" => ~batch[r].cancelled /\ ~batch[r].listens
  /\ batch[r].state \in {"preparing", "working"} => batch[r].listens \/ batch[r].cancelled
  /\ batch[r].state = "ended" => ~batch[r].listens
  /\ batch[r].state \notin {"working", "ended"} => hostEvents[r] = <<>>
  /\ \A how \in {"ok", "cancelled"} : <<r, how>> \in outcomes => batch[r].state = "ended"

RunsOK == \A r \in Batch!Run : BatchRunOK(r)

(* The tasks of a run that is not cancelled.                               *)
TasksOK ==
  \A r \in Batch!Run, h \in RunHost : h \in batch[r].hosts /\ ~batch[r].cancelled =>
    /\ batch[r].state = "working" => batch[r].task[h] \in {"queued", "running", "ended"}
    /\ batch[r].state = "ended" => batch[r].task[h] = "ended"

Silent(r, h, i) == \A j \in 1 .. Len(hostEvents[r]) : j > i => hostEvents[r][j][1] # h

(* What is shown of a host, once the events on their way are heard, is     *)
(* what its task is.                                                       *)
Agrees(r, h) ==
  /\ Silent(r, h, 0) => results[h].status = batch[r].task[h]
  /\ \A i \in 1 .. Len(hostEvents[r]) :
       hostEvents[r][i][1] = h /\ Silent(r, h, i) => hostEvents[r][i][2] = batch[r].task[h]

FollowedOK ==
  \A h \in RunHost :
    followed # Batch!Nil /\ h \in batch[followed].hosts /\ ~batch[followed].cancelled =>
    /\ batch[followed].state \in {"sent", "preparing"} => results[h].status = "queued"
    /\ batch[followed].state \in {"working", "ended"} => Agrees(followed, h)

(* What is left of a run that was answered.                                *)
AnsweredOK ==
  begun # 0 /\ followed = Batch!Nil /\ begun \notin overtaken /\ ~batch[begun].cancelled
    /\ (\E h \in RunHost : results[h].run = begun) =>
    /\ batch[begun].state = "ended"
    /\ \A h \in batch[begun].hosts : results[h].status = "ended"

BatchInv ==
  BatchTypeInv /\ BatchDialogOK /\ RunsOK /\ TasksOK
    /\ FollowedOK /\ AnsweredOK /\ Batch!NoOrphanRun
-----------------------------------------------------------------------------
LEMMA RunNat == Batch!BatchAssumption => Batch!Run \subseteq Nat \ {0}
  BY DEF Batch!BatchAssumption, Batch!Run

LEMMA BlankOK ==
  /\ Batch!Blank \in [RunHost -> [run : {Batch!Nil} \cup Batch!Run, status : Batch!Statuses]]
  /\ \A h \in RunHost : Batch!Blank[h].run = Batch!Nil
  BY DEF Batch!Blank, Batch!Statuses

LEMMA NoRunOK ==
  /\ Batch!NoRun \in Runs
  /\ Batch!NoRun.state = "none" /\ ~Batch!NoRun.listens /\ ~Batch!NoRun.cancelled
  /\ Batch!NoRun.hosts = {}
  BY DEF Batch!NoRun, Runs, Batch!States, Batch!Statuses

(* An update of one run leaves the others alone.                           *)
LEMMA BatchOneRun ==
  ASSUME BatchInv, NEW r \in Batch!Run, NEW x \in Runs, batch' = [batch EXCEPT ![r] = x]
  PROVE  /\ batch' \in [Batch!Run -> Runs] /\ batch'[r] = x
         /\ \A q \in Batch!Run : q # r => batch'[q] = batch[q]
  <1>1. batch \in [Batch!Run -> Runs]
    BY DEF BatchInv, BatchTypeInv, Batch!TypeOK, Runs
  <1>2. QED
    BY <1>1

LEMMA BatchInitOK ==
  ASSUME Batch!BatchAssumption, Batch!Init
  PROVE  BatchInv
  <1>1. /\ open = FALSE /\ followed = Batch!Nil /\ begun = 0 /\ commands = {}
        /\ outcomes = {}
        /\ dialogLoads = 0 /\ results = Batch!Blank
        /\ \A r \in Batch!Run : batch[r] = Batch!NoRun /\ hostEvents[r] = <<>>
    BY DEF Batch!Init
  <1>2. BatchTypeInv
    <2>1. batch \in [Batch!Run -> Runs]
            /\ hostEvents \in [Batch!Run -> Seq(RunHost \X Batch!Statuses)]
      <3>1. Batch!NoRun \in Runs /\ <<>> \in Seq(RunHost \X Batch!Statuses)
        BY NoRunOK
      <3>2. QED
        BY <3>1 DEF Batch!Init
    <2>2. QED
      BY <1>1, <2>1, BlankOK DEF BatchTypeInv, Batch!TypeOK, Runs
  <1>3. BatchDialogOK
    BY <1>1, BlankOK DEF BatchDialogOK
  <1>4. RunsOK
    BY <1>1, NoRunOK, RunNat DEF RunsOK, BatchRunOK
  <1>5. TasksOK
    BY <1>1, NoRunOK DEF TasksOK
  <1>6. FollowedOK /\ AnsweredOK
    BY <1>1 DEF FollowedOK, AnsweredOK
  <1>7. Batch!NoOrphanRun
    BY <1>1, NoRunOK DEF Batch!NoOrphanRun
  <1>8. QED
    BY <1>2, <1>3, <1>4, <1>5, <1>6, <1>7 DEF BatchInv

-----------------------------------------------------------------------------
(* The dialog *)

LEMMA OpenDialogOK ==
  ASSUME Batch!BatchAssumption, BatchInv, Batch!OpenDialog
  PROVE  BatchInv'
  <1>1. /\ followed = Batch!Nil /\ open' = TRUE /\ results' = Batch!Blank
        /\ UNCHANGED <<followed, begun, commands, batch, hostEvents, outcomes, dialogLoads,
                       lost, overtaken>>
    BY DEF Batch!OpenDialog, BatchInv, BatchDialogOK
  <1>2. BatchTypeInv'
    BY <1>1, BlankOK DEF BatchInv, BatchTypeInv, Batch!TypeOK
  <1>3. BatchDialogOK'
    BY <1>1, BlankOK DEF BatchInv, BatchDialogOK
  <1>4. RunsOK' /\ TasksOK' /\ Batch!NoOrphanRun'
    BY <1>1 DEF BatchInv, RunsOK, BatchRunOK, TasksOK, Batch!NoOrphanRun
  <1>5. FollowedOK' /\ AnsweredOK'
    BY <1>1, BlankOK DEF FollowedOK, AnsweredOK, Batch!Nil
  <1>6. QED
    BY <1>2, <1>3, <1>4, <1>5 DEF BatchInv

LEMMA BatchBeginOK ==
  ASSUME Batch!BatchAssumption, BatchInv, Batch!Begin
  PROVE  BatchInv'
  <1> DEFINE b == begun + 1
  <1>1. /\ open /\ followed = Batch!Nil /\ begun' = b /\ b \in Batch!Run /\ followed' = b
        /\ commands' = commands \cup {<<"run", b>>}
        /\ UNCHANGED <<open, hostEvents, outcomes, dialogLoads, lost, overtaken>>
    BY DEF Batch!Begin
  <1>2. PICK hosts \in RunHosts[b] \ {{}} :
          /\ batch' = [batch EXCEPT ![b].state = "sent", ![b].hosts = hosts]
          /\ results' =
               [h \in RunHost |-> IF h \in hosts THEN [run |-> b, status |-> "queued"]
                                           ELSE Batch!Blank[h]]
    <2>1. PICK hosts \in RunHosts[begun'] \ {{}} :
            /\ batch' = [batch EXCEPT ![begun'].state = "sent", ![begun'].hosts = hosts]
            /\ results' = [h \in RunHost |-> IF h \in hosts
                                             THEN [run |-> begun', status |-> "queued"]
                                             ELSE Batch!Blank[h]]
      BY DEF Batch!Begin
    <2>2. QED
      BY ONLY <1>1, <2>1
  <1>3. hosts \subseteq RunHost
    <2>1. RunHosts[b] \in SUBSET SUBSET RunHost
      BY <1>1 DEF Batch!BatchAssumption, Batch!Run
    <2>2. QED
      BY <1>2, <2>1
  <1>4. /\ begun \in Nat /\ b \in Nat \ {0} /\ Batch!Run \subseteq Nat \ {0} /\ b > begun
    BY RunNat DEF BatchInv, BatchTypeInv
  <1>5. /\ batch[b] = Batch!NoRun /\ batch[b].state = "none"
        /\ batch \in [Batch!Run -> Runs]
    BY <1>1, <1>4 DEF BatchInv, RunsOK, BatchRunOK, BatchTypeInv, Batch!TypeOK, Runs
  <1>6. /\ batch'[b].state = "sent" /\ ~batch'[b].cancelled /\ ~batch'[b].listens
        /\ batch'[b].hosts = hosts
        /\ \A q \in Batch!Run : q # b => batch'[q] = batch[q]
        /\ batch' \in [Batch!Run -> Runs]
    <2> DEFINE x == [batch[b] EXCEPT !.state = "sent", !.hosts = hosts]
    <2>1. x \in Runs /\ x.state = "sent" /\ x.hosts = hosts
          /\ x.cancelled = Batch!NoRun.cancelled /\ x.listens = Batch!NoRun.listens
      BY <1>1, <1>3, <1>5 DEF Runs, Batch!States
    <2>2. batch' = [batch EXCEPT ![b] = x]
      BY <1>2
    <2> HIDE DEF x
    <2>3. QED
      BY <1>1, <2>1, <2>2, BatchOneRun, NoRunOK
  <1>7. /\ results'
             \in [RunHost -> [run : {Batch!Nil} \cup Batch!Run, status : Batch!Statuses]]
        /\ \A h \in RunHost : results'[h].run \in {Batch!Nil, b}
        /\ \A h \in hosts : results'[h].status = "queued"
    <2>1. [run |-> b, status |-> "queued"]
            \in [run : {Batch!Nil} \cup Batch!Run, status : Batch!Statuses]
      BY <1>1 DEF Batch!Statuses
    <2>2. QED
      BY <1>2, <1>3, <2>1, BlankOK
  <1> HIDE DEF b
  <1>8. BatchTypeInv'
    BY <1>1, <1>4, <1>6, <1>7 DEF BatchInv, BatchTypeInv, Batch!TypeOK, Runs
  <1>9. BatchDialogOK'
    BY <1>1, <1>7 DEF BatchDialogOK
  <1>10. RunsOK'
    <2>1. ASSUME NEW q \in Batch!Run PROVE BatchRunOK(q)'
      <3>1. BatchRunOK(q)
        BY DEF BatchInv, RunsOK
      <3>2. CASE q = b
        <4>1. ~(q > b)
          BY <1>4, <3>2
        <4>2. QED
          BY <1>1, <1>5, <1>6, <3>1, <3>2, <4>1 DEF BatchRunOK
      <3>3. CASE q # b
        <4>1. q > b <=> q > begun
          BY <1>4, <3>3 DEF b
        <4>2. QED
          BY <1>1, <1>6, <3>1, <3>3, <4>1 DEF BatchRunOK
      <3>4. QED
        BY <3>2, <3>3
    <2>2. QED
      BY <2>1 DEF RunsOK
  <1>11. TasksOK'
    BY <1>6 DEF BatchInv, TasksOK
  <1>12. FollowedOK' /\ AnsweredOK'
    BY <1>1, <1>4, <1>6, <1>7 DEF FollowedOK, AnsweredOK, Batch!Nil
  <1>13. Batch!NoOrphanRun'
    BY <1>1, <1>4, <1>6 DEF BatchInv, Batch!NoOrphanRun, Batch!Nil
  <1>14. QED
    BY <1>8, <1>9, <1>10, <1>11, <1>12, <1>13 DEF BatchInv

LEMMA BatchCloseDialogOK ==
  ASSUME Batch!BatchAssumption, BatchInv, Batch!CloseDialog
  PROVE  BatchInv'
  <1>1. /\ open' = FALSE /\ followed' = Batch!Nil /\ results' = Batch!Blank
        /\ commands' = Batch!Cancels
        /\ UNCHANGED <<begun, batch, hostEvents, outcomes, dialogLoads, lost, overtaken>>
    BY DEF Batch!CloseDialog
  <1>2. /\ commands \subseteq commands'
        /\ commands' \subseteq {"run", "cancel"} \X Batch!Run
        /\ \A r \in Batch!Run : <<"run", r>> \in commands' <=> <<"run", r>> \in commands
        /\ followed # Batch!Nil => <<"cancel", followed>> \in commands'
    BY <1>1 DEF Batch!Cancels, BatchInv, BatchTypeInv, BatchDialogOK, Batch!Nil
  <1>3. BatchTypeInv'
    BY <1>1, <1>2, BlankOK DEF BatchInv, BatchTypeInv, Batch!TypeOK
  <1>4. BatchDialogOK'
    BY <1>1, BlankOK DEF BatchInv, BatchDialogOK
  <1>5. RunsOK' /\ TasksOK'
    BY <1>1, <1>2 DEF BatchInv, RunsOK, BatchRunOK, TasksOK
  <1>6. FollowedOK' /\ AnsweredOK'
    BY <1>1, BlankOK DEF FollowedOK, AnsweredOK, Batch!Nil
  <1>7. Batch!NoOrphanRun'
    <2>1. \A r \in Batch!Run : r # Batch!Nil
      BY RunNat DEF Batch!Nil
    <2>2. QED
      BY <1>1, <1>2, <2>1 DEF BatchInv, Batch!NoOrphanRun
  <1>8. QED
    BY <1>3, <1>4, <1>5, <1>6, <1>7 DEF BatchInv

LEMMA BatchHearEventOK ==
  ASSUME Batch!BatchAssumption, BatchInv, NEW r \in Batch!Run, Batch!HearEvent(r)
  PROVE  BatchInv'
  <1> DEFINE es == hostEvents[r]
             e == Head(es)
  <1>1. /\ es # <<>> /\ hostEvents' = [hostEvents EXCEPT ![r] = Tail(@)]
        /\ results' = IF followed = r
                      THEN [results EXCEPT ![e[1]] = [run |-> r, status |-> e[2]]]
                      ELSE results
        /\ UNCHANGED <<open, followed, begun, commands, batch, outcomes, dialogLoads, lost,
                       overtaken>>
    BY DEF Batch!HearEvent, Batch!Follows
  <1>2. /\ hostEvents \in [Batch!Run -> Seq(RunHost \X Batch!Statuses)]
        /\ results
             \in [RunHost -> [run : {Batch!Nil} \cup Batch!Run, status : Batch!Statuses]]
    BY DEF BatchInv, BatchTypeInv, Batch!TypeOK
  <1>3. es \in Seq(RunHost \X Batch!Statuses)
    BY <1>2
  <1>4. /\ e = es[1] /\ e \in RunHost \X Batch!Statuses
        /\ Tail(es) \in Seq(RunHost \X Batch!Statuses)
        /\ Len(es) \in Nat /\ Len(es) >= 1 /\ Len(Tail(es)) = Len(es) - 1
        /\ \A i \in 1 .. Len(es) - 1 : Tail(es)[i] = es[i + 1]
    BY <1>1, <1>3
  <1>5. /\ hostEvents' \in [Batch!Run -> Seq(RunHost \X Batch!Statuses)]
        /\ hostEvents'[r] = Tail(es)
        /\ \A q \in Batch!Run : q # r => hostEvents'[q] = hostEvents[q]
    BY <1>1, <1>2, <1>4
  <1>6. /\ e[1] \in RunHost /\ e[2] \in Batch!Statuses
        /\ results'
             \in [RunHost -> [run : {Batch!Nil} \cup Batch!Run, status : Batch!Statuses]]
        /\ \A h \in RunHost : results'[h] = IF followed = r /\ h = e[1]
                                            THEN [run |-> r, status |-> e[2]]
                                                ELSE results[h]
    <2>1. e[1] \in RunHost /\ e[2] \in Batch!Statuses
      BY <1>4
    <2>2. [run |-> r, status |-> e[2]]
            \in [run : {Batch!Nil} \cup Batch!Run, status : Batch!Statuses]
      BY <2>1
    <2>3. QED
      BY <1>1, <1>2, <2>1, <2>2
  <1>7. r # Batch!Nil /\ r \in Nat
    BY RunNat DEF Batch!Nil
  <1>8. BatchTypeInv'
    BY <1>1, <1>5, <1>6 DEF BatchInv, BatchTypeInv, Batch!TypeOK
  <1>9. BatchDialogOK'
    BY <1>1, <1>6 DEF BatchInv, BatchDialogOK
  <1>10. RunsOK'
    BY <1>1, <1>5 DEF BatchInv, RunsOK, BatchRunOK
  <1>11. TasksOK' /\ Batch!NoOrphanRun'
    BY <1>1 DEF BatchInv, TasksOK, Batch!NoOrphanRun
  <1>12. AnsweredOK'
    BY <1>1, <1>6, <1>7 DEF BatchInv, AnsweredOK
  <1>13. FollowedOK'
    <2>1. SUFFICES ASSUME NEW c \in Batch!Run, followed = c, NEW h \in RunHost,
                          h \in batch[c].hosts, ~batch[c].cancelled
                   PROVE  /\ batch[c].state \in {"sent", "preparing"} =>
                               results'[h].status = "queued"
                          /\ batch[c].state \in {"working", "ended"} => Agrees(c, h)'
      BY <1>1 DEF FollowedOK, BatchInv, BatchDialogOK, Batch!Nil
    <2>2. c # Batch!Nil
      BY RunNat DEF Batch!Nil
    <2>3. /\ batch[c].state \in {"sent", "preparing"} => results[h].status = "queued"
          /\ batch[c].state \in {"working", "ended"} => Agrees(c, h)
      BY <2>1, <2>2 DEF BatchInv, FollowedOK
    <2>4. CASE c # r
      BY <1>1, <1>5, <1>6, <2>1, <2>3, <2>4 DEF Agrees, Silent
    <2>5. CASE c = r
      <3>1. batch[r].state \notin {"sent", "preparing"}
        BY <1>1 DEF BatchInv, RunsOK, BatchRunOK
      <3>2. ASSUME Agrees(r, h) PROVE Agrees(r, h)'
        <4>1. /\ Silent(r, h, 0) => results[h].status = batch[r].task[h]
              /\ \A i \in 1 .. Len(es) :
                   es[i][1] = h /\ Silent(r, h, i) => es[i][2] = batch[r].task[h]
          BY <3>2 DEF Agrees
        <4>2. \A i \in Nat : Silent(r, h, i)' <=> Silent(r, h, i + 1)
          <5>1. ASSUME NEW i \in Nat, Silent(r, h, i)'
                PROVE  Silent(r, h, i + 1)
            <6>1. SUFFICES ASSUME NEW j \in 1 .. Len(es), j > i + 1
                           PROVE  es[j][1] # h
              BY DEF Silent
            <6>2. j - 1 \in 1 .. Len(Tail(es)) /\ j - 1 > i /\ Tail(es)[j - 1] = es[j]
              BY <1>4, <6>1
            <6>3. QED
              BY <1>5, <5>1, <6>2 DEF Silent
          <5>2. ASSUME NEW i \in Nat, Silent(r, h, i + 1)
                PROVE  Silent(r, h, i)'
            <6>1. SUFFICES ASSUME NEW j \in 1 .. Len(Tail(es)), j > i
                           PROVE  Tail(es)[j][1] # h
              BY <1>5 DEF Silent
            <6>2. j + 1 \in 1 .. Len(es) /\ j + 1 > i + 1 /\ Tail(es)[j] = es[j + 1]
              BY <1>4, <6>1
            <6>3. QED
              BY <5>2, <6>2 DEF Silent
          <5>3. QED
            BY <5>1, <5>2
        <4>3. Silent(r, h, 0)' => results'[h].status = batch'[r].task[h]
          <5>1. SUFFICES ASSUME Silent(r, h, 1)
                         PROVE  results'[h].status = batch[r].task[h]
            BY <1>1, <4>2
          <5>2. CASE e[1] = h
            <6>1. es[1][2] = batch[r].task[h]
              BY <1>4, <4>1, <5>1, <5>2
            <6>2. QED
              BY <1>4, <1>6, <2>1, <2>5, <5>2, <6>1
          <5>3. CASE e[1] # h
            <6>1. Silent(r, h, 0)
              BY <1>4, <5>1, <5>3 DEF Silent
            <6>2. QED
              BY <1>6, <4>1, <5>3, <6>1
          <5>4. QED
            BY <5>2, <5>3
        <4>4. ASSUME NEW i \in 1 .. Len(Tail(es)), Tail(es)[i][1] = h, Silent(r, h, i)'
              PROVE  Tail(es)[i][2] = batch'[r].task[h]
          <5>1. i \in Nat /\ i + 1 \in 1 .. Len(es) /\ Tail(es)[i] = es[i + 1]
            BY <1>4
          <5>2. QED
            BY <1>1, <4>1, <4>2, <4>4, <5>1
        <4>5. QED
          BY <1>5, <4>3, <4>4 DEF Agrees
      <3>3. QED
        BY <2>3, <2>5, <3>1, <3>2
    <2>6. QED
      BY <2>4, <2>5
  <1>14. QED
    BY <1>8, <1>9, <1>10, <1>11, <1>12, <1>13 DEF BatchInv

LEMMA BatchHearAnswerOK ==
  ASSUME Batch!BatchAssumption, BatchInv, NEW a \in outcomes, Batch!HearAnswer(a)
  PROVE  BatchInv'
  <1>1. /\ outcomes' = outcomes \ {a}
        /\ followed' = IF followed = a[1] THEN Batch!Nil ELSE followed
        /\ overtaken' = IF hostEvents[a[1]] = <<>> THEN overtaken ELSE overtaken \cup {a[1]}
        /\ UNCHANGED <<open, results, begun, commands, batch, hostEvents, dialogLoads,
                       lost>>
    BY DEF Batch!HearAnswer
  <1>2. /\ a[1] \in Batch!Run /\ batch[a[1]].state = "ended"
    <2>1. PICK q \in Batch!Run, how \in {"ok", "cancelled"} : a = <<q, how>>
      BY DEF BatchInv, BatchTypeInv
    <2>2. QED
      BY <2>1 DEF BatchInv, RunsOK, BatchRunOK
  <1>3. BatchTypeInv' /\ BatchDialogOK'
    BY <1>1 DEF BatchInv, BatchTypeInv, Batch!TypeOK, BatchDialogOK
  <1>4. RunsOK' /\ TasksOK'
    BY <1>1 DEF BatchInv, RunsOK, BatchRunOK, TasksOK
  <1>5. Batch!NoOrphanRun'
    BY <1>1, <1>2 DEF BatchInv, Batch!NoOrphanRun
  <1>6. FollowedOK'
    BY <1>1 DEF BatchInv, FollowedOK, Agrees, Silent
  <1>7. AnsweredOK'
    <2>1. CASE followed = a[1] /\ followed # Batch!Nil
      <3>1. begun = followed /\ begun \in Batch!Run
        BY <1>2, <2>1 DEF BatchInv, BatchDialogOK
      <3>2. SUFFICES ASSUME begun \notin overtaken', ~batch[begun].cancelled,
                            NEW h \in RunHost, h \in batch[begun].hosts
                     PROVE  results[h].status = "ended"
        <4>1. batch[begun].hosts \subseteq RunHost
          BY <3>1 DEF BatchInv, BatchTypeInv, Batch!TypeOK
        <4>2. QED
          BY <1>1, <1>2, <2>1, <3>1, <4>1 DEF AnsweredOK
      <3>3. hostEvents[begun] = <<>>
        BY <1>1, <2>1, <3>1, <3>2
      <3>4. Silent(begun, h, 0)
        <4>1. 1 .. Len(hostEvents[begun]) = {}
          BY <3>3
        <4>2. QED
          BY <4>1 DEF Silent
      <3>5. Agrees(begun, h)
        BY <1>2, <2>1, <3>1, <3>2 DEF BatchInv, FollowedOK
      <3>6. batch[begun].task[h] = "ended"
        BY <1>2, <2>1, <3>1, <3>2 DEF BatchInv, TasksOK
      <3>7. QED
        BY <3>4, <3>5, <3>6 DEF Agrees
    <2>2. CASE followed' = followed
      BY <1>1, <2>2 DEF BatchInv, AnsweredOK
    <2>3. QED
      BY <1>1, <2>1, <2>2
  <1>8. QED
    BY <1>3, <1>4, <1>5, <1>6, <1>7 DEF BatchInv
-----------------------------------------------------------------------------
(* The backend *)

\* A run that goes on, whatever is left of it to do.
LEMMA GoesOn ==
  ASSUME Batch!BatchAssumption, BatchInv, NEW r \in Batch!Run, NEW x \in Runs,
         batch' = [batch EXCEPT ![r] = x], UNCHANGED Batch!page,
         UNCHANGED <<outcomes, lost, overtaken>>,
         hostEvents' \in [Batch!Run -> Seq(RunHost \X Batch!Statuses)],
         \A q \in Batch!Run : q # r => hostEvents'[q] = hostEvents[q],
         commands' \subseteq commands, \A q \in Batch!Run : q # r =>
           \A k \in {"run", "cancel"} : <<k, q>> \in commands => <<k, q>> \in commands',
         x.hosts = batch[r].hosts, x.cancelled = batch[r].cancelled, BatchRunOK(r)',
         <<"cancel", r>> \in commands => <<"cancel", r>> \in commands',
         batch[r].state \in {"sent", "preparing", "working"},
         x.state \notin {"none", "sent"},
         \A h \in x.hosts : ~x.cancelled =>
           /\ x.state = "working" => x.task[h] \in {"queued", "running", "ended"}
           /\ x.state = "ended" => x.task[h] = "ended",
         \A h \in RunHost : followed = r /\ h \in x.hosts /\ ~x.cancelled =>
           /\ x.state = "preparing" => results[h].status = "queued"
           /\ x.state \in {"working", "ended"} => Agrees(r, h)'
  PROVE  BatchInv'
  <1>1. /\ batch' \in [Batch!Run -> Runs] /\ batch'[r] = x
        /\ \A q \in Batch!Run : q # r => batch'[q] = batch[q]
    BY BatchOneRun
  <1>2. UNCHANGED <<open, followed, results, begun, dialogLoads, outcomes, lost, overtaken>>
    BY DEF Batch!page
  <1>3. BatchTypeInv'
    BY <1>1, <1>2 DEF BatchInv, BatchTypeInv, Batch!TypeOK, Runs
  <1>4. BatchDialogOK'
    BY <1>2 DEF BatchInv, BatchDialogOK
  <1>5. RunsOK'
    <2>1. ASSUME NEW q \in Batch!Run, q # r PROVE BatchRunOK(q)'
      BY <1>1, <1>2, <2>1 DEF BatchInv, RunsOK, BatchRunOK
    <2>2. QED
      BY <2>1 DEF RunsOK
  <1>6. TasksOK'
    <2>1. SUFFICES ASSUME NEW q \in Batch!Run, NEW h \in RunHost,
                          h \in batch'[q].hosts, ~batch'[q].cancelled
                   PROVE  /\ batch'[q].state = "working" =>
                               batch'[q].task[h] \in {"queued", "running", "ended"}
                          /\ batch'[q].state = "ended" => batch'[q].task[h] = "ended"
      BY DEF TasksOK
    <2>2. CASE q = r
      BY <1>1, <2>1, <2>2
    <2>3. CASE q # r
      BY <1>1, <2>1, <2>3 DEF BatchInv, TasksOK
    <2>4. QED
      BY <2>2, <2>3
  <1>7. FollowedOK'
    <2>1. SUFFICES ASSUME NEW c \in Batch!Run, followed = c, NEW h \in RunHost,
                          h \in batch'[c].hosts, ~batch'[c].cancelled
                   PROVE  /\ batch'[c].state \in {"sent", "preparing"} =>
                               results[h].status = "queued"
                          /\ batch'[c].state \in {"working", "ended"} => Agrees(c, h)'
      BY <1>2 DEF FollowedOK, BatchInv, BatchDialogOK, Batch!Nil
    <2>2. CASE c = r
      BY <1>1, <2>1, <2>2
    <2>3. CASE c # r
      <3>1. batch'[c] = batch[c] /\ c # Batch!Nil
        BY <1>1, <2>3, RunNat DEF Batch!Nil
      <3>2. hostEvents'[c] = hostEvents[c]
        BY <2>3
      <3>3. Agrees(c, h)' <=> Agrees(c, h)
        BY <1>2, <3>1, <3>2 DEF Agrees, Silent
      <3>4. QED
        BY <2>1, <3>1, <3>3 DEF BatchInv, FollowedOK
    <2>4. QED
      BY <2>2, <2>3
  <1>8. AnsweredOK'
    <2>1. SUFFICES ASSUME NEW b \in Batch!Run, begun = b, followed = Batch!Nil,
                          b \notin overtaken,
                          ~batch'[b].cancelled, \E h \in RunHost : results[h].run = b
                   PROVE  /\ batch'[b].state = "ended"
                          /\ \A h \in batch'[b].hosts : results[h].status = "ended"
      BY <1>2 DEF AnsweredOK, BatchInv, BatchDialogOK
    <2>2. b # 0 /\ ~batch[b].cancelled
      BY <1>1, <2>1, RunNat
    <2>3. /\ batch[b].state = "ended"
          /\ \A h \in batch[b].hosts : results[h].status = "ended"
      BY <2>1, <2>2 DEF BatchInv, AnsweredOK
    <2>4. QED
      BY <1>1, <2>3
  <1>9. Batch!NoOrphanRun'
    <2>1. SUFFICES ASSUME NEW q \in Batch!Run \ lost,
                          batch'[q].state \notin {"none", "ended"},
                          q # followed
                   PROVE  batch'[q].cancelled \/ <<"cancel", q>> \in commands'
      BY <1>2 DEF Batch!NoOrphanRun
    <2>2. CASE q = r
      BY <1>1, <2>1, <2>2 DEF BatchInv, Batch!NoOrphanRun
    <2>3. CASE q # r
      BY <1>1, <2>1, <2>3 DEF BatchInv, Batch!NoOrphanRun
    <2>4. QED
      BY <2>2, <2>3
  <1>10. QED
    BY <1>3, <1>4, <1>5, <1>6, <1>7, <1>8, <1>9 DEF BatchInv

\* Where no event is told.
LEMMA EventsKept ==
  ASSUME BatchInv, UNCHANGED hostEvents
  PROVE  /\ hostEvents' \in [Batch!Run -> Seq(RunHost \X Batch!Statuses)]
         /\ \A q \in Batch!Run : hostEvents'[q] = hostEvents[q]
  BY DEF BatchInv, BatchTypeInv

LEMMA BatchRegisterOK ==
  ASSUME Batch!BatchAssumption, BatchInv, NEW r \in Batch!Run, Batch!Register(r)
  PROVE  BatchInv'
  <1> DEFINE x == [batch[r] EXCEPT !.state = "preparing", !.listens = TRUE,
                                   !.todo = batch[r].hosts]
  <1>1. /\ <<"run", r>> \in commands /\ commands' = commands \ {<<"run", r>>}
        /\ batch' = [batch EXCEPT ![r] = x]
        /\ UNCHANGED Batch!page /\ UNCHANGED <<hostEvents, outcomes, lost, overtaken>>
    BY DEF Batch!Register, Batch!Handle
  <1>2. BatchRunOK(r) /\ batch[r] \in Runs
    BY DEF BatchInv, RunsOK, BatchTypeInv, Batch!TypeOK, Runs
  <1>3. batch[r].state = "sent"
    BY <1>1, <1>2 DEF BatchRunOK
  <1>4. /\ x \in Runs /\ x.state = "preparing" /\ x.listens
        /\ x.hosts = batch[r].hosts /\ x.cancelled = batch[r].cancelled
    BY <1>2 DEF Runs, Batch!States
  <1> HIDE DEF x
  <1>5. batch'[r] = x
    BY <1>1, <1>4, BatchOneRun
  <1>6. BatchRunOK(r)'
    BY <1>1, <1>2, <1>3, <1>4, <1>5 DEF BatchRunOK, Batch!page
  <1>7. \A h \in RunHost : followed = r /\ h \in x.hosts /\ ~x.cancelled =>
          results[h].status = "queued"
    <2>1. r # Batch!Nil
      BY RunNat DEF Batch!Nil
    <2>2. QED
      BY <1>3, <1>4, <2>1 DEF BatchInv, FollowedOK
  <1>8. /\ commands' \subseteq commands
        /\ \A q \in Batch!Run : q # r =>
             \A k \in {"run", "cancel"} : <<k, q>> \in commands => <<k, q>> \in commands'
        /\ <<"cancel", r>> \in commands => <<"cancel", r>> \in commands'
    BY <1>1
  <1>9. QED
    BY <1>1, <1>3, <1>4, <1>6, <1>7, <1>8, EventsKept, GoesOn

LEMMA BatchEndedOK ==
  ASSUME Batch!BatchAssumption, BatchInv, NEW r \in Batch!Run,
         NEW works \in [RunHost -> Batch!Statuses],
         NEW how \in {"ok", "cancelled"}, Batch!Ended(r, how, works),
         batch[r].state \in {"preparing", "working"},
         batch[r].cancelled \/ (/\ batch[r].state = "working" /\ works = batch[r].task
                                /\ \A h \in batch[r].hosts : works[h] = "ended"),
         UNCHANGED Batch!page, UNCHANGED <<commands, hostEvents, lost, overtaken>>
  PROVE  BatchInv'
  <1> DEFINE x == [batch[r] EXCEPT !.state = "ended", !.listens = FALSE, !.task = works]
             old == outcomes
  <1>1. batch' = [batch EXCEPT ![r] = x] /\ outcomes' = outcomes \cup {<<r, how>>}
    BY DEF Batch!Ended
  <1>2. BatchRunOK(r) /\ batch[r] \in Runs /\ batch \in [Batch!Run -> Runs]
    BY DEF BatchInv, RunsOK, BatchTypeInv, Batch!TypeOK, Runs
  <1>3. /\ x \in Runs /\ x.state = "ended" /\ ~x.listens /\ x.task = works
        /\ x.hosts = batch[r].hosts /\ x.cancelled = batch[r].cancelled
    BY <1>2 DEF Runs, Batch!States
  <1> HIDE DEF x
  <1>4. /\ batch' \in [Batch!Run -> Runs] /\ batch'[r] = x
        /\ \A q \in Batch!Run : q # r => batch'[q] = batch[q]
    BY <1>1, <1>3, BatchOneRun
  <1>5. UNCHANGED <<open, followed, results, begun, dialogLoads, commands, hostEvents, lost,
                    overtaken>>
    BY DEF Batch!page
  <1>6. BatchTypeInv'
    BY <1>1, <1>4, <1>5 DEF BatchInv, BatchTypeInv, Batch!TypeOK, Runs
  <1>7. BatchDialogOK'
    BY <1>5 DEF BatchInv, BatchDialogOK
  <1>8. RunsOK'
    <2>1. BatchRunOK(r)'
      BY <1>2, <1>3, <1>4, <1>5 DEF BatchRunOK
    <2>2. ASSUME NEW q \in Batch!Run, q # r PROVE BatchRunOK(q)'
      BY <1>1, <1>4, <1>5, <2>2 DEF BatchInv, RunsOK, BatchRunOK
    <2>3. QED
      BY <2>1, <2>2 DEF RunsOK
  <1>9. TasksOK'
    <2>1. SUFFICES ASSUME NEW q \in Batch!Run, NEW h \in RunHost,
                          h \in batch'[q].hosts, ~batch'[q].cancelled
                   PROVE  /\ batch'[q].state = "working" =>
                               batch'[q].task[h] \in {"queued", "running", "ended"}
                          /\ batch'[q].state = "ended" => batch'[q].task[h] = "ended"
      BY DEF TasksOK
    <2>2. CASE q = r
      BY <1>3, <1>4, <2>1, <2>2
    <2>3. CASE q # r
      BY <1>4, <2>1, <2>3 DEF BatchInv, TasksOK
    <2>4. QED
      BY <2>2, <2>3
  <1>10. FollowedOK'
    <2>1. SUFFICES ASSUME NEW c \in Batch!Run, followed = c, NEW h \in RunHost,
                          h \in batch'[c].hosts, ~batch'[c].cancelled
                   PROVE  /\ batch'[c].state \in {"sent", "preparing"} =>
                               results[h].status = "queued"
                          /\ batch'[c].state \in {"working", "ended"} => Agrees(c, h)'
      BY <1>5 DEF FollowedOK, BatchInv, BatchDialogOK, Batch!Nil
    <2>2. c # Batch!Nil
      BY RunNat DEF Batch!Nil
    <2>3. CASE c = r
      <3>1. batch[r].state = "working" /\ works = batch[r].task
        BY <1>3, <1>4, <2>1, <2>3
      <3>2. Agrees(r, h)
        BY <1>3, <1>4, <2>1, <2>2, <2>3, <3>1 DEF BatchInv, FollowedOK
      <3>3. Agrees(r, h)'
        BY <1>3, <1>4, <1>5, <3>1, <3>2 DEF Agrees, Silent
      <3>4. QED
        BY <1>3, <1>4, <2>3, <3>3
    <2>4. CASE c # r
      <3>1. batch'[c] = batch[c]
        BY <1>4, <2>4
      <3>2. QED
        BY <1>5, <2>1, <2>2, <3>1 DEF BatchInv, FollowedOK, Agrees, Silent
    <2>5. QED
      BY <2>3, <2>4
  <1>11. AnsweredOK'
    <2>1. SUFFICES ASSUME NEW b \in Batch!Run, begun = b, followed = Batch!Nil,
                          b \notin overtaken,
                          ~batch'[b].cancelled, \E h \in RunHost : results[h].run = b
                   PROVE  /\ batch'[b].state = "ended"
                          /\ \A h \in batch'[b].hosts : results[h].status = "ended"
      BY <1>5 DEF AnsweredOK, BatchInv, BatchDialogOK
    <2>2. b # 0 /\ ~batch[b].cancelled
      BY <1>3, <1>4, <2>1, RunNat
    <2>3. /\ batch[b].state = "ended"
          /\ \A h \in batch[b].hosts : results[h].status = "ended"
      BY <2>1, <2>2 DEF BatchInv, AnsweredOK
    <2>4. QED
      BY <1>4, <2>3
  <1>12. Batch!NoOrphanRun'
    BY <1>3, <1>4, <1>5 DEF BatchInv, Batch!NoOrphanRun
  <1>13. QED
    BY <1>6, <1>7, <1>8, <1>9, <1>10, <1>11, <1>12 DEF BatchInv

LEMMA PrepareOK ==
  ASSUME Batch!BatchAssumption, BatchInv, NEW r \in Batch!Run, Batch!Prepare(r)
  PROVE  BatchInv'
  <1>1. /\ batch[r].state = "preparing"
        /\ UNCHANGED Batch!page /\ UNCHANGED <<commands, hostEvents, lost, overtaken>>
    BY DEF Batch!Prepare
  <1>2. BatchRunOK(r) /\ batch[r] \in Runs
    BY DEF BatchInv, RunsOK, BatchTypeInv, Batch!TypeOK, Runs
  <1>3. \A h \in RunHost : followed = r /\ h \in batch[r].hosts /\ ~batch[r].cancelled =>
          results[h].status = "queued"
    <2>1. r # Batch!Nil
      BY RunNat DEF Batch!Nil
    <2>2. QED
      BY <1>1, <2>1 DEF BatchInv, FollowedOK
  <1>4. CASE batch[r].cancelled
    <2>1. Batch!Ended(r, "cancelled", batch[r].task)
      BY <1>1, <1>4 DEF Batch!Prepare
    <2>2. batch[r].task \in [RunHost -> Batch!Statuses]
      BY <1>2 DEF Runs
    <2>3. QED
      BY <1>1, <1>4, <2>1, <2>2, BatchEndedOK
  <1>5. CASE ~batch[r].cancelled /\ batch[r].todo # {}
    <2>1. PICK h \in batch[r].todo : batch' = [batch EXCEPT ![r].todo = @ \ {h}]
      BY <1>1, <1>5 DEF Batch!Prepare
    <2> DEFINE x == [batch[r] EXCEPT !.todo = @ \ {h}]
    <2>2. batch' = [batch EXCEPT ![r] = x] /\ UNCHANGED outcomes
      BY <1>5, <2>1 DEF Batch!Prepare
    <2>3. /\ x \in Runs /\ x.state = "preparing" /\ x.listens = batch[r].listens
          /\ x.hosts = batch[r].hosts /\ x.cancelled = batch[r].cancelled
      BY <1>1, <1>2 DEF Runs
    <2> HIDE DEF x
    <2>4. batch'[r] = x
      BY <2>2, <2>3, BatchOneRun
    <2>5. BatchRunOK(r)'
      BY <1>1, <1>2, <2>2, <2>3, <2>4 DEF BatchRunOK, Batch!page
    <2>6. QED
      BY <1>1, <1>3, <2>2, <2>3, <2>5, EventsKept, GoesOn
  <1>6. CASE ~batch[r].cancelled /\ batch[r].todo = {}
    <2> DEFINE works == [h \in RunHost |-> IF h \in batch[r].hosts THEN "queued"
                           ELSE "none"]
               x == [batch[r] EXCEPT !.state = "working", !.task = works]
    <2>1. batch' = [batch EXCEPT ![r] = x] /\ UNCHANGED outcomes
      BY <1>1, <1>6 DEF Batch!Prepare
    <2>2. works \in [RunHost -> Batch!Statuses]
      BY DEF Batch!Statuses
    <2>3. /\ x \in Runs /\ x.state = "working" /\ x.listens = batch[r].listens
          /\ x.hosts = batch[r].hosts /\ x.cancelled = batch[r].cancelled /\ x.task = works
      BY <1>2, <2>2 DEF Runs, Batch!States
    <2>4. \A h \in x.hosts : x.task[h] = "queued"
      <3>1. x.hosts \subseteq RunHost
        BY <2>3 DEF Runs
      <3>2. QED
        BY <2>3, <3>1
    <2> HIDE DEF x, works
    <2>5. batch'[r] = x
      BY <2>1, <2>3, BatchOneRun
    <2>6. BatchRunOK(r)'
      BY <1>1, <1>2, <2>1, <2>3, <2>5 DEF BatchRunOK, Batch!page
    <2>7. hostEvents'[r] = <<>>
      BY <1>1, <1>2 DEF BatchRunOK
    <2>8. 1 .. Len(hostEvents'[r]) = {}
      BY <2>7
    <2>9. \A h \in RunHost : followed = r /\ h \in x.hosts /\ ~x.cancelled => Agrees(r, h)'
      BY <1>1, <1>3, <2>3, <2>4, <2>5, <2>8 DEF Agrees, Batch!page
    <2>10. QED
      BY <1>1, <2>1, <2>3, <2>4, <2>6, <2>9, EventsKept, GoesOn
  <1>7. QED
    BY <1>4, <1>5, <1>6

LEMMA AbortOK ==
  ASSUME Batch!BatchAssumption, BatchInv, NEW r \in Batch!Run, Batch!Abort(r)
  PROVE  BatchInv'
  <1> DEFINE works == [h \in RunHost |->
                         IF batch[r].task[h] \in {"queued", "running"} THEN "aborted"
                         ELSE batch[r].task[h]]
  <1>1. /\ batch[r].state = "working" /\ batch[r].cancelled
        /\ Batch!Ended(r, "cancelled", works)
        /\ UNCHANGED Batch!page /\ UNCHANGED <<commands, hostEvents, lost, overtaken>>
    BY DEF Batch!Abort
  <1>2. works \in [RunHost -> Batch!Statuses]
    BY DEF BatchInv, BatchTypeInv, Batch!TypeOK, Batch!Statuses
  <1> HIDE DEF works
  <1>3. QED
    BY <1>1, <1>2, BatchEndedOK

LEMMA BatchFinishOK ==
  ASSUME Batch!BatchAssumption, BatchInv, NEW r \in Batch!Run, Batch!Finish(r)
  PROVE  BatchInv'
  <1>1. /\ batch[r].state = "working" /\ Batch!Ended(r, "ok", batch[r].task)
        /\ UNCHANGED Batch!page /\ UNCHANGED <<commands, hostEvents, lost, overtaken>>
        /\ \A h \in RunHost : batch[r].task[h] \notin {"queued", "running"}
    BY DEF Batch!Finish, Batch!In
  <1>2. batch[r].task \in [RunHost -> Batch!Statuses] /\ batch[r].hosts \subseteq RunHost
    BY DEF BatchInv, BatchTypeInv, Batch!TypeOK
  <1>3. ~batch[r].cancelled => \A h \in batch[r].hosts : batch[r].task[h] = "ended"
    BY <1>1, <1>2 DEF BatchInv, TasksOK
  <1>4. QED
    BY <1>1, <1>2, <1>3, BatchEndedOK
LEMMA WorksOK ==
  ASSUME Batch!BatchAssumption, BatchInv, NEW r \in Batch!Run, NEW h \in RunHost,
         NEW from \in {"queued", "running"}, NEW to \in {"running", "ended"},
         Batch!Works(r, h, from, to)
  PROVE  BatchInv'
  <1> DEFINE x == [batch[r] EXCEPT !.task[h] = to]
             es == hostEvents[r]
             final == <<h, to>>
  <1>1. /\ batch[r].state = "working"
        /\ batch' = [batch EXCEPT ![r] = x]
        /\ hostEvents' = [hostEvents EXCEPT ![r] = Append(es, final)]
        /\ UNCHANGED Batch!page /\ UNCHANGED <<commands, outcomes, lost, overtaken>>
    BY DEF Batch!Works
  <1>2. /\ BatchRunOK(r) /\ batch[r] \in Runs
        /\ hostEvents \in [Batch!Run -> Seq(RunHost \X Batch!Statuses)]
    BY DEF BatchInv, RunsOK, BatchTypeInv, Batch!TypeOK, Runs
  <1>3. to \in Batch!Statuses /\ final \in RunHost \X Batch!Statuses /\ final[1] = h
          /\ final[2] = to
    BY DEF Batch!Statuses
  <1>4. /\ es \in Seq(RunHost \X Batch!Statuses)
        /\ Append(es, final) \in Seq(RunHost \X Batch!Statuses)
        /\ Len(es) \in Nat /\ Len(Append(es, final)) = Len(es) + 1
        /\ Append(es, final)[Len(es) + 1] = final
        /\ \A i \in 1 .. Len(es) : Append(es, final)[i] = es[i]
    <2>1. es \in Seq(RunHost \X Batch!Statuses)
      BY <1>2
    <2> HIDE DEF es, final
    <2>2. QED
      BY <1>3, <2>1
  <1>5. /\ hostEvents' \in [Batch!Run -> Seq(RunHost \X Batch!Statuses)]
        /\ hostEvents'[r] = Append(es, final)
        /\ \A q \in Batch!Run : q # r => hostEvents'[q] = hostEvents[q]
    BY <1>1, <1>2, <1>4
  <1>6. /\ x \in Runs /\ x.state = "working" /\ x.listens = batch[r].listens
        /\ x.hosts = batch[r].hosts /\ x.cancelled = batch[r].cancelled
        /\ x.task[h] = to /\ \A g \in RunHost : g # h => x.task[g] = batch[r].task[g]
        /\ x.hosts \subseteq RunHost
    BY <1>1, <1>2, <1>3 DEF Runs
  <1> HIDE DEF x, final
  <1>7. batch'[r] = x
    BY <1>1, <1>6, BatchOneRun
  <1>8. BatchRunOK(r)'
    BY <1>1, <1>2, <1>6, <1>7 DEF BatchRunOK, Batch!page
  <1>9. \A g \in x.hosts : ~x.cancelled => x.task[g] \in {"queued", "running", "ended"}
    <2>1. \A g \in x.hosts :
            ~x.cancelled => batch[r].task[g] \in {"queued", "running", "ended"}
      BY <1>1, <1>6 DEF BatchInv, TasksOK
    <2>2. QED
      BY <1>6, <2>1
  <1>10. ASSUME NEW g \in RunHost, followed = r, g \in x.hosts, ~x.cancelled
         PROVE  Agrees(r, g)'
    <2>1. Agrees(r, g)
      <3>1. r # Batch!Nil
        BY RunNat DEF Batch!Nil
      <3>2. QED
        BY <1>1, <1>6, <1>10, <3>1 DEF BatchInv, FollowedOK
    <2>2. /\ Silent(r, g, 0) => results[g].status = batch[r].task[g]
          /\ \A i \in 1 .. Len(es) :
               es[i][1] = g /\ Silent(r, g, i) => es[i][2] = batch[r].task[g]
      BY <2>1 DEF Agrees
    <2>3. ASSUME NEW i \in Nat, i <= Len(es), Silent(r, g, i)'
          PROVE  g # h /\ Silent(r, g, i)
      <3>1. \A j \in 1 .. Len(es) + 1 : j > i => Append(es, final)[j][1] # g
        BY <1>4, <1>5, <2>3 DEF Silent
      <3>2. g # h
        <4>1. Len(es) + 1 \in 1 .. Len(es) + 1 /\ Len(es) + 1 > i
          BY <1>4, <2>3
        <4>2. QED
          BY <1>3, <1>4, <3>1, <4>1
      <3>3. \A j \in 1 .. Len(es) : j \in 1 .. Len(es) + 1
        BY <1>4
      <3>4. QED
        BY <1>4, <3>1, <3>2, <3>3 DEF Silent
    <2>4. Silent(r, g, 0)' => results[g].status = x.task[g]
      <3>1. 0 \in Nat /\ 0 <= Len(es)
        BY <1>4
      <3>2. QED
        BY <1>6, <2>2, <2>3, <3>1
    <2>5. ASSUME NEW i \in 1 .. Len(es) + 1, Append(es, final)[i][1] = g, Silent(r, g, i)'
          PROVE  Append(es, final)[i][2] = x.task[g]
      <3>1. CASE i = Len(es) + 1
        BY <1>3, <1>4, <1>6, <2>5, <3>1
      <3>2. CASE i # Len(es) + 1
        <4>1. i \in Nat /\ i <= Len(es) /\ i \in 1 .. Len(es)
                /\ Append(es, final)[i] = es[i]
          BY <1>4, <3>2
        <4>2. QED
          BY <1>6, <2>2, <2>3, <2>5, <4>1
      <3>3. QED
        BY <3>1, <3>2
    <2>6. UNCHANGED results
      BY <1>1 DEF Batch!page
    <2>7. QED
      BY <1>4, <1>5, <1>7, <2>4, <2>5, <2>6 DEF Agrees
  <1>11. QED
    BY <1>1, <1>5, <1>6, <1>8, <1>9, <1>10, GoesOn

LEMMA BatchHandleCancelOK ==
  ASSUME Batch!BatchAssumption, BatchInv, NEW r \in Batch!Run, Batch!HandleCancel(r)
  PROVE  BatchInv'
  <1> DEFINE x == [batch[r] EXCEPT !.cancelled = TRUE]
  <1>1. /\ commands' = commands \ {<<"cancel", r>>}
        /\ batch' = IF batch[r].listens THEN [batch EXCEPT ![r] = x] ELSE batch
        /\ lost' = IF batch[r].state = "sent" THEN lost \cup {r} ELSE lost
        /\ UNCHANGED <<open, followed, results, begun, dialogLoads, hostEvents, outcomes,
                       overtaken>>
    BY DEF Batch!HandleCancel, Batch!Handle, Batch!page
  <1>2. batch \in [Batch!Run -> Runs] /\ BatchRunOK(r)
    BY DEF BatchInv, RunsOK, BatchTypeInv, Batch!TypeOK, Runs
  <1>3. /\ batch' \in [Batch!Run -> Runs]
        /\ \A q \in Batch!Run :
             /\ batch'[q].state = batch[q].state /\ batch'[q].listens = batch[q].listens
             /\ batch'[q].hosts = batch[q].hosts /\ batch'[q].task = batch[q].task
             /\ batch[q].cancelled => batch'[q].cancelled
             /\ q # r \/ ~batch[r].listens => batch'[q] = batch[q]
        /\ batch[r].listens => batch'[r].cancelled
    <2>1. CASE batch[r].listens
      <3>1. /\ x \in Runs /\ x.state = batch[r].state /\ x.listens = batch[r].listens
            /\ x.hosts = batch[r].hosts /\ x.task = batch[r].task /\ x.cancelled
        BY <1>2 DEF Runs
      <3> HIDE DEF x
      <3>2. batch' = [batch EXCEPT ![r] = x]
        BY <1>1, <2>1
      <3>3. QED
        BY <2>1, <3>1, <3>2, BatchOneRun
    <2>2. CASE ~batch[r].listens
      BY <1>1, <1>2, <2>2
    <2>3. QED
      BY <2>1, <2>2
  <1> HIDE DEF x
  <1>4. BatchTypeInv'
    BY <1>1, <1>3 DEF BatchInv, BatchTypeInv, Batch!TypeOK, Runs
  <1>5. BatchDialogOK'
    BY <1>1 DEF BatchInv, BatchDialogOK
  <1>6. RunsOK'
    <2>1. ASSUME NEW q \in Batch!Run PROVE BatchRunOK(q)'
      <3>1. BatchRunOK(q)
        BY DEF BatchInv, RunsOK
      <3>2. <<"run", q>> \in commands' <=> <<"run", q>> \in commands
        BY <1>1
      <3>3. batch[q].state \in {"none", "sent"} => batch'[q] = batch[q]
        BY <1>2, <1>3, <3>1, NoRunOK DEF BatchRunOK
      <3>4. QED
        BY <1>1, <1>3, <3>1, <3>2, <3>3 DEF BatchRunOK
    <2>2. QED
      BY <2>1 DEF RunsOK
  <1>7. TasksOK'
    BY <1>3 DEF BatchInv, TasksOK
  <1>8. FollowedOK'
    <2>1. SUFFICES ASSUME NEW c \in Batch!Run, followed = c, NEW h \in RunHost,
                          h \in batch'[c].hosts, ~batch'[c].cancelled
                   PROVE  /\ batch'[c].state \in {"sent", "preparing"} =>
                               results[h].status = "queued"
                          /\ batch'[c].state \in {"working", "ended"} => Agrees(c, h)'
      BY <1>1 DEF FollowedOK, BatchInv, BatchDialogOK, Batch!Nil
    <2>2. c # Batch!Nil
      BY RunNat DEF Batch!Nil
    <2>3. QED
      BY <1>1, <1>3, <2>1, <2>2 DEF BatchInv, FollowedOK, Agrees, Silent
  <1>9. AnsweredOK'
    <2>1. SUFFICES ASSUME NEW b \in Batch!Run, begun = b, followed = Batch!Nil,
                          b \notin overtaken,
                          ~batch'[b].cancelled, \E h \in RunHost : results[h].run = b
                   PROVE  /\ batch'[b].state = "ended"
                          /\ \A h \in batch'[b].hosts : results[h].status = "ended"
      BY <1>1 DEF AnsweredOK, BatchInv, BatchDialogOK
    <2>2. b # 0 /\ ~batch[b].cancelled
      BY <1>3, <2>1, RunNat
    <2>3. QED
      BY <1>3, <2>1, <2>2 DEF BatchInv, AnsweredOK
  <1>10. Batch!NoOrphanRun'
    <2>1. SUFFICES ASSUME NEW q \in Batch!Run, q \notin lost',
                          batch[q].state \notin {"none", "ended"}, q # followed
                   PROVE  batch'[q].cancelled \/ <<"cancel", q>> \in commands'
      BY <1>1, <1>3 DEF Batch!NoOrphanRun
    <2>2. batch[q].cancelled \/ <<"cancel", q>> \in commands
      BY <1>1, <2>1 DEF BatchInv, Batch!NoOrphanRun
    <2>3. CASE q = r
      <3>1. batch[r].state \in {"preparing", "working"}
        BY <1>1, <1>2, <2>1, <2>3 DEF Runs, Batch!States
      <3>2. batch[r].listens \/ batch[r].cancelled
        BY <1>2, <3>1 DEF BatchRunOK
      <3>3. QED
        BY <1>3, <2>3, <3>2
    <2>4. CASE q # r
      BY <1>1, <1>3, <2>2, <2>4
    <2>5. QED
      BY <2>3, <2>4
  <1>11. QED
    BY <1>4, <1>5, <1>6, <1>7, <1>8, <1>9, <1>10 DEF BatchInv

LEMMA PageLoadOK ==
  ASSUME Batch!BatchAssumption, BatchInv, Batch!PageLoad
  PROVE  BatchInv'
  <1>1. /\ batch' = [r \in Batch!Run |-> [batch[r] EXCEPT !.cancelled = @ \/ batch[r].listens,
                                                          !.listens = FALSE]]
        /\ lost' = lost \cup {r \in Batch!Run : batch[r].state = "sent"}
        /\ open' = FALSE /\ followed' = Batch!Nil /\ results' = Batch!Blank
        /\ dialogLoads' = dialogLoads + 1
        /\ hostEvents' = [r \in Batch!Run |-> <<>>] /\ outcomes' = {}
        /\ UNCHANGED <<begun, commands, overtaken>>
    BY DEF Batch!PageLoad
  <1>2. batch \in [Batch!Run -> Runs]
    BY DEF BatchInv, BatchTypeInv, Batch!TypeOK, Runs
  <1>3. \A q \in Batch!Run :
          /\ batch'[q] \in Runs /\ batch'[q].state = batch[q].state /\ ~batch'[q].listens
          /\ batch'[q].hosts = batch[q].hosts /\ batch'[q].task = batch[q].task
          /\ batch'[q].todo = batch[q].todo
          /\ batch'[q].cancelled <=> batch[q].cancelled \/ batch[q].listens
    <2>1. SUFFICES ASSUME NEW q \in Batch!Run
                   PROVE  /\ batch'[q] \in Runs /\ batch'[q].state = batch[q].state
                          /\ ~batch'[q].listens
                          /\ batch'[q].hosts = batch[q].hosts
                          /\ batch'[q].task = batch[q].task
                          /\ batch'[q].todo = batch[q].todo
                          /\ batch'[q].cancelled <=> batch[q].cancelled \/ batch[q].listens
      OBVIOUS
    <2>2. batch[q] \in Runs /\ batch[q].cancelled \in BOOLEAN
            /\ batch[q].listens \in BOOLEAN
      BY <1>2 DEF Runs
    <2>3. batch'[q] = [batch[q] EXCEPT !.cancelled = batch[q].cancelled \/ batch[q].listens,
                                       !.listens = FALSE]
      BY <1>1
    <2>4. QED
      BY <2>2, <2>3 DEF Runs
  <1>4. batch' \in [Batch!Run -> Runs]
    BY <1>1, <1>3
  <1>5. BatchTypeInv'
    <2>1. hostEvents' \in [Batch!Run -> Seq(RunHost \X Batch!Statuses)]
      <3>1. <<>> \in Seq(RunHost \X Batch!Statuses)
        OBVIOUS
      <3>2. QED
        BY <1>1, <3>1
    <2>2. Batch!TypeOK'
      BY <1>1, <1>4, BlankOK DEF Batch!TypeOK, Runs
    <2>3. /\ dialogLoads' \in Nat /\ begun' \in Nat
          /\ commands' \subseteq {"run", "cancel"} \X Batch!Run
      <3>1. dialogLoads \in Nat /\ dialogLoads' = dialogLoads + 1
        BY <1>1 DEF BatchInv, BatchTypeInv
      <3>2. begun' \in Nat /\ commands' \subseteq {"run", "cancel"} \X Batch!Run
        BY <1>1 DEF BatchInv, BatchTypeInv
      <3>3. QED
        BY ONLY <3>1, <3>2
    <2>4. open' \in BOOLEAN /\ outcomes' \subseteq Batch!Run \X {"ok", "cancelled"}
      BY <1>1
    <2>5. QED
      BY ONLY <2>1, <2>2, <2>3, <2>4 DEF BatchTypeInv
  <1>6. BatchDialogOK'
    BY <1>1, BlankOK DEF BatchInv, BatchDialogOK
  <1>7. RunsOK'
    <2>1. ASSUME NEW q \in Batch!Run PROVE BatchRunOK(q)'
      <3>1. BatchRunOK(q)
        BY DEF BatchInv, RunsOK
      <3>2. batch[q].state = "none" => batch'[q] = Batch!NoRun
        <4>1. SUFFICES ASSUME batch[q].state = "none" PROVE batch'[q] = Batch!NoRun
          OBVIOUS
        <4>2. batch[q] = Batch!NoRun
          BY <3>1, <4>1 DEF BatchRunOK
        <4>3. /\ batch'[q].cancelled = Batch!NoRun.cancelled
              /\ batch'[q].listens = Batch!NoRun.listens
              /\ Batch!NoRun \in Runs /\ batch'[q] \in Runs
          BY <1>3, <4>2, NoRunOK DEF Runs
        <4>4. QED
          BY <1>3, <4>2, <4>3 DEF Runs
      <3>3. hostEvents'[q] = <<>>
        BY <1>1
      <3>4. batch[q].state = "sent" => ~batch'[q].cancelled
        BY <1>3, <3>1 DEF BatchRunOK
      <3>5. batch[q].state \in {"preparing", "working"} => batch'[q].cancelled
        BY <1>3, <3>1 DEF BatchRunOK
      <3>6. UNCHANGED <<begun, commands>> /\ outcomes' = {}
        BY <1>1
      <3>7. batch'[q].state = batch[q].state /\ ~batch'[q].listens
        BY <1>3
      <3>8. QED
        BY ONLY <3>1, <3>2, <3>3, <3>4, <3>5, <3>6, <3>7 DEF BatchRunOK
    <2>2. QED
      BY <2>1 DEF RunsOK
  <1>8. TasksOK'
    BY <1>3 DEF BatchInv, TasksOK
  <1>9. FollowedOK' /\ AnsweredOK'
    BY <1>1, BlankOK DEF FollowedOK, AnsweredOK, Batch!Nil
  <1>10. Batch!NoOrphanRun'
    <2>1. SUFFICES ASSUME NEW q \in Batch!Run, q \notin lost',
                          batch[q].state \notin {"none", "ended"}
                   PROVE  batch'[q].cancelled
      BY <1>1, <1>3 DEF Batch!NoOrphanRun
    <2>2. batch[q].state \in {"preparing", "working"}
      BY <1>1, <1>2, <2>1 DEF Runs, Batch!States
    <2>3. batch[q].listens \/ batch[q].cancelled
      BY <2>2 DEF BatchInv, RunsOK, BatchRunOK
    <2>4. QED
      BY <1>3, <2>3
  <1>11. QED
    BY <1>5, <1>6, <1>7, <1>8, <1>9, <1>10 DEF BatchInv

-----------------------------------------------------------------------------
LEMMA BatchNextOK ==
  ASSUME Batch!BatchAssumption, BatchInv, Batch!Next \/ UNCHANGED Batch!vars
  PROVE  BatchInv'
  <1>1. CASE Batch!OpenDialog \/ Batch!Begin \/ Batch!CloseDialog \/ Batch!PageLoad
    BY <1>1, OpenDialogOK, BatchBeginOK, BatchCloseDialogOK, PageLoadOK
  <1>2. ASSUME NEW a \in outcomes, Batch!HearAnswer(a)
        PROVE  BatchInv'
    BY <1>2, BatchHearAnswerOK
  <1>3. ASSUME NEW r \in Batch!Run,
               \/ Batch!HearEvent(r) \/ Batch!Register(r) \/ Batch!HandleCancel(r)
               \/ Batch!Prepare(r) \/ Batch!Abort(r) \/ Batch!Finish(r)
        PROVE  BatchInv'
    BY <1>3, BatchHearEventOK, BatchRegisterOK, BatchHandleCancelOK, PrepareOK, AbortOK,
       BatchFinishOK
  <1>4. ASSUME NEW r \in Batch!Run, NEW h \in RunHost,
               Batch!Acquire(r, h) \/ Batch!TaskEnds(r, h)
        PROVE  BatchInv'
    <2>1. Batch!Works(r, h, "queued", "running") \/ Batch!Works(r, h, "running", "ended")
      BY <1>4 DEF Batch!Acquire, Batch!TaskEnds
    <2>2. QED
      BY <2>1, WorksOK
  <1>5. CASE UNCHANGED Batch!vars
    <2>1. UNCHANGED <<open, followed, results, begun, commands, batch, hostEvents, outcomes,
                      dialogLoads,
                      lost, overtaken>>
      BY <1>5 DEF Batch!vars
    <2>2. BatchTypeInv' /\ BatchDialogOK' /\ RunsOK'
      BY <2>1 DEF BatchInv, BatchTypeInv, Batch!TypeOK, BatchDialogOK, RunsOK, BatchRunOK
    <2>3. TasksOK' /\ FollowedOK' /\ AnsweredOK' /\ Batch!NoOrphanRun'
      BY <2>1
         DEF BatchInv, TasksOK, FollowedOK, Agrees, Silent, AnsweredOK, Batch!NoOrphanRun
    <2>4. QED
      BY <2>2, <2>3 DEF BatchInv
  <1>6. QED
    BY <1>1, <1>2, <1>3, <1>4, <1>5 DEF Batch!Next

LEMMA BatchInvSays ==
  ASSUME BatchInv
  PROVE  Batch!TypeOK /\ Batch!ResultsAreTrue /\ Batch!NoOrphanRun
  <1>1. Batch!TypeOK /\ Batch!NoOrphanRun
    BY DEF BatchInv, BatchTypeInv
  <1>2. Batch!ResultsAreTrue
    BY DEF BatchInv, BatchDialogOK, AnsweredOK, Batch!ResultsAreTrue
  <1>3. QED
    BY <1>1, <1>2

-----------------------------------------------------------------------------
(* What is promised of each of them, for any number of transfers,          *)
(* deletions, steps and hosts.                                             *)

LEMMA TransferInvHolds ==
  ASSUME Move!FileTransferAssumption
  PROVE  Move!Spec => []TransferInv
  <1>1. Move!Init => TransferInv
    BY TransferInitOK
  <1>2. TransferInv /\ [Move!Next]_Move!vars => TransferInv'
    BY TransferNextOK
  <1>3. QED
    BY <1>1, <1>2, PTL DEF Move!Spec

(* Whatever fails and whenever the application dies, what was under a name *)
(* or was committed last is under the name or in a backup (commit_staged,  *)
(* the local rename dance), for any transfers to one name.                 *)
THEOREM TransfersLoseNothing ==
  ASSUME Move!FileTransferAssumption
  PROVE  Move!Spec => []Move!NothingIsLost
  <1>1. TransferInv => Move!NothingIsLost
    BY TransferInvSays
  <1>2. QED
    BY <1>1, TransferInvHolds, PTL

(* A transfer none of whose calls failed leaves neither a backup nor a     *)
(* temporary name behind, and its row says "done" or "cancelled" only if   *)
(* that is what became of the file.                                        *)
THEOREM TransfersEndClean ==
  ASSUME Move!FileTransferAssumption
  PROVE  Move!Spec => [](Move!LeavesNothing /\ Move!RowsAreTrue)
  <1>1. TransferInv => Move!LeavesNothing /\ Move!RowsAreTrue
    BY TransferInvSays
  <1>2. QED
    BY <1>1, TransferInvHolds, PTL

LEMMA DeletionInvHolds ==
  ASSUME Del!DeletionsAssumption
  PROVE  Del!Spec => []DeletionInv
  <1>1. Del!Init => DeletionInv
    BY DeletionInitOK
  <1>2. DeletionInv /\ [Del!Next]_Del!vars => DeletionInv'
    BY DeletionNextOK
  <1>3. QED
    BY <1>1, <1>2, PTL DEF Del!Spec

(* remote_delete_many removes nothing outside the chosen trees, through no *)
(* link either, whatever operations overlap and others create meanwhile.   *)
THEOREM DeletionsSpareTheRest ==
  ASSUME Del!DeletionsAssumption
  PROVE  Del!Spec => []Del!NothingElse
  <1>1. DeletionInv => Del!NothingElse
    BY DeletionInvSays
  <1>2. QED
    BY <1>1, DeletionInvHolds, PTL

(* A deletion that says done has removed what was chosen, one that says    *)
(* error had a cause other than itself, and in the end the concurrent      *)
(* requests have given back the slots of the connection.                   *)
THEOREM DeletionsEndTruly ==
  ASSUME Del!DeletionsAssumption
  PROVE  Del!Spec => [](Del!DoneMeansGone /\ Del!ErrorHasCause /\ Del!SlotsComeBack)
  <1>1. DeletionInv => Del!DoneMeansGone /\ Del!ErrorHasCause /\ Del!SlotsComeBack
    BY DeletionInvSays
  <1>2. QED
    BY <1>1, DeletionInvHolds, PTL

LEMMA StepInvHolds ==
  ASSUME Path!TaskStepsAssumption
  PROVE  Path!Spec => []StepInv
  <1>1. Path!Init => StepInv
    BY StepInitOK
  <1>2. StepInv /\ [Path!Next]_Path!vars => StepInv'
    BY StepNextOK
  <1>3. QED
    BY <1>1, <1>2, PTL DEF Path!Spec

(* The steps of a run go in their order and no more often than they may be *)
(* repeated, and once all events have arrived the page shows of each what  *)
(* the history says.                                                       *)
THEOREM StepsGoInOrder ==
  ASSUME Path!TaskStepsAssumption
  PROVE  Path!Spec => [](Path!StepsAreTrue /\ Path!StepsInOrder)
  <1>1. StepInv => Path!StepsAreTrue /\ Path!StepsInOrder
    BY StepInvSays
  <1>2. QED
    BY <1>1, StepInvHolds, PTL

(* No command outlives its step and no connection its run, but the remote  *)
(* commands that the code gives up.                                        *)
THEOREM NoCommandIsLeft ==
  ASSUME Path!TaskStepsAssumption
  PROVE  Path!Spec => []Path!NothingIsLeft
  <1>1. StepInv => Path!NothingIsLeft
    BY StepInvSays
  <1>2. QED
    BY <1>1, StepInvHolds, PTL

LEMMA BatchInvHolds ==
  ASSUME Batch!BatchAssumption
  PROVE  Batch!Spec => []BatchInv
  <1>1. Batch!Init => BatchInv
    BY BatchInitOK
  <1>2. BatchInv /\ [Batch!Next]_Batch!vars => BatchInv'
    BY BatchNextOK
  <1>3. QED
    BY <1>1, <1>2, PTL DEF Batch!Spec

(* A run on many hosts that the dialog has let go of has ended or its      *)
(* cancel is on its way, and the dialog shows results of the last run      *)
(* only, with an end for each host once it has ended by itself.            *)
THEOREM BatchesAreFollowed ==
  ASSUME Batch!BatchAssumption
  PROVE  Batch!Spec => [](Batch!NoOrphanRun /\ Batch!ResultsAreTrue)
  <1>1. BatchInv => Batch!NoOrphanRun /\ Batch!ResultsAreTrue
    BY BatchInvSays
  <1>2. QED
    BY <1>1, BatchInvHolds, PTL
=============================================================================
