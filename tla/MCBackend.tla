------------------------------ MODULE MCBackend ------------------------------
(***************************************************************************)
(* The components of the backend, with the pages that call them, checked   *)
(* side by side like those of the app window in MCDesk: in a behavior one  *)
(* component moves, part says which one and on which instance, and the     *)
(* others stay as the app starts them.                                     *)
(***************************************************************************)
EXTENDS Integers, Sequences, TLC

CONSTANTS
  None,
  dir, file, Old,
  Device, Peer, Key, Identity, Host, Forward, Bookmark, Profile, First, JumpDepthLimit,
  MaxClock,
  c1, c2, s1, s2, k1, k2, k3,
  Task, Schedule, Steps, MaxTime, MaxRuns, MaxChanges,
  Prompt, Attempts, MaxReloads,
  MaxOpens, MaxLoads,
  Provider, FirstProvider, MaxClicks,
  Version, MaxEvents, MaxMounts,
  h1, h2

VARIABLES
  part,
  (* FileTransfer *)
  world, job, pc, cancel, result, row, names, whole, target, backup, last, committed,
  hit, undone,
  (* Catalog *)
  db, active, importing, clock, excused,
  (* Handshake *)
  proxy, app, user, lock, copy, at, hop, hostKey, offer, hidden, rounds, left, replies,
  sent, vouched, remembered, partly,
  (* TaskRuns *)
  now, task, baseline, runs, dialog, cancels, edits, reloads,
  (* ConnectionPrompts *)
  stage, prompted, heard, queue, listener, attempt, snapshot, closed, answers, missed,
  refused, pageLoads,
  (* LocalTerminals *)
  pane, opens, calls, shell, entry, loads, told, crossed, repeated,
  (* SignIn *)
  kind, phase, current, connecting, clicks, requests, notices, slot, flow, connectJob,
  connection, handled, reordered, late,
  (* AppUpdates *)
  status, pending, operation, asked, view, shown, latest, events, toasts, notified,
  changes, mounts,
  (* BatchRuns *)
  open, followed, results, begun, commands, batch, hostEvents, outcomes, dialogLoads,
  lost, overtaken,
  (* ObjectStores *)
  provider, store, folder, named, conn, signedIn, issued, op, uploaded, cleared, dropped,
  (* TaskSteps *)
  plan, runAt, stop, link, tries, index, attempts, alive, abandoned, stepEnds, runRow,
  channel, runAnswer, stepView, runShown, runOvertaken,
  (* Deletions *)
  there, deletion, deleteCancel, todo, found, files, dirs, round, flight, failures, ended,
  slots, up, stray, gone, disturbed,
  (* ChatRequests *)
  reply, chatAt, stopRequested, retries, shrinks, item, kept, chat, got, registered,
  signalled, chatCancel, pieces, buffer, cut

-----------------------------------------------------------------------------
(* What the instances below share, by the names of their constants.        *)

\* A folder comes to a name that another transfer writes a file to.
Transfer == {dir, file}
Worlds == {[to |-> "local", old |-> "file"], [to |-> "remote", old |-> "dir"],
           [to |-> "remote", old |-> "nothing"]}
Jobs == {dir :> [from |-> p, dir |-> TRUE, overwrite |-> TRUE]
           @@ file :> [from |-> "local", dir |-> FALSE, overwrite |-> p = "remote"]
         : p \in {"local", "remote"}}

NeedsHost == Task
DueAt == [s \in Schedule |-> 1 .. MaxTime]

\* A run with a step of each kind, of which each may be repeated, or with one.
Plans == {<<[kind |-> "local", retries |-> 1], [kind |-> "remote", retries |-> 1],
            [kind |-> "transfer", retries |-> 1]>>, <<[kind |-> "local", retries |-> 1]>>}
ConnectAttempts == 2

RunHost == {h1, h2}
Limit == 1

\* Text beside calls that others follow, calls side by side, one without a name or id.
Says(n) == [kind |-> "text", pieces |-> n, lacks |-> "nothing"]
Calls(n, what) == [kind |-> "call", pieces |-> n, lacks |-> what]
Replies == {[protocol |-> "anthropic", blocks |-> <<Says(1), Calls(2, "nothing"), Says(1)>>],
            [protocol |-> "openai",
             blocks |-> <<Says(1), Calls(1, "nothing"), Calls(1, "name")>>],
            [protocol |-> "openai", blocks |-> <<Calls(2, "nothing"), Calls(1, "id")>>]}
MaxRetries == 1
MaxShrinks == 1

Providers == {"gdrive", "onedrive", "webdav", "s3"}
Keep == 1
MaxPages == 2

-----------------------------------------------------------------------------
Records == INSTANCE CatalogProofs WITH Proxy <- Profile
SharedRecords == INSTANCE CatalogProofs WITH
  Device <- Device \cup Peer, Identity <- {}, Bookmark <- {}, Task <- {}, Proxy <- {},
  Host <- Host \cap First, First <- First \cap (Key \cup Host)

\* The jobs in the background.  Deletions: the folder a/b with a file and, beside it,
\* a link l to the folder o, where others create files.  Commands: one run on two hosts.
Work == INSTANCE JobProofs WITH
  Op <- {"x"}, OpRemote <- [o \in {"x"} |-> TRUE], Chosen <- [x |-> <<"a", "l">>],
  Node <- {"a", "b", "f", "l", "o", "g", "h"},
  Kind <- [a |-> "dir", b |-> "dir", f |-> "file", l |-> "link", o |-> "dir", g |-> "file",
           h |-> "file"],
  Parent <- [b |-> "a", f |-> "b", g |-> "o", h |-> "a"], Target <- "o",
  Late <- {"f", "h"}, Concurrent <- 2, MaxEntries <- 4,
  RunHosts <- <<{{h1, h2}}>>, MaxDialogLoads <- 1
\* Two deletions, one of a folder in the other's, by a server or on the disk.
\* Two runs on one host.
Overlap == INSTANCE JobProofs WITH
  Op <- {"x", "y"}, OpRemote <- [o \in {"x", "y"} |-> TRUE],
  Chosen <- [x |-> <<"a">>, y |-> <<"b">>],
  Node <- {"a", "b", "f"}, Kind <- [a |-> "dir", b |-> "dir", f |-> "file"],
  Parent <- [b |-> "a", f |-> "b"], Target <- "a",
  Late <- {}, Concurrent <- 1, MaxEntries <- 3,
  RunHosts <- <<{{h1}}, {{h1}}>>, MaxDialogLoads <- 0
DiskOverlap == INSTANCE JobProofs WITH
  Op <- {"x", "y"}, OpRemote <- [o \in {"x", "y"} |-> FALSE],
  Chosen <- [x |-> <<"a">>, y |-> <<"b">>],
  Node <- {"a", "b", "f"}, Kind <- [a |-> "dir", b |-> "dir", f |-> "file"],
  Parent <- [b |-> "a", f |-> "b"], Target <- "a",
  Late <- {}, Concurrent <- 1, MaxEntries <- 3,
  RunHosts <- <<{{h1}}, {{h1}}>>, MaxDialogLoads <- 0

\* The exchanges.  One connection through a jump host whose user types, or has saved,
\* a password; one view of the updates that sees many changes.
Talk == INSTANCE DialogProofs WITH
  Conn <- {c1}, Server <- {s1, s2}, Key <- {k1, k2},
  Algorithm <- [k \in {k1, k2} |-> "a"],
  Hops <- c1 :> <<[server |-> s1, auth |-> "saved"], [server |-> s2, auth |-> "automatic"]>>,
  Proxies <- {"none", "http", "socks", "socks login"}, Known <- {{<<s1, k1>>}},
  MaxRounds <- 2, MaxQuestions <- 2,
  View <- {"notifier"}, MaxMounts <- 1
\* Two connections that remember the keys of one server at the same time; two views of
\* the updates that come and go while there are few.
Meeting == INSTANCE DialogProofs WITH
  Conn <- {c1, c2}, Server <- {s1, s2}, Key <- {k1, k2, k3},
  Algorithm <- k1 :> "a" @@ k2 :> "a" @@ k3 :> "b",
  Hops <- c1 :> <<[server |-> s1, auth |-> "key"]>>
       @@ c2 :> <<[server |-> s1, auth |-> "agent"], [server |-> s2, auth |-> "unsaved"]>>,
  Proxies <- {"none"}, Known <- {{}, {<<s1, k1>>}}, MaxRounds <- 0, MaxQuestions <- 0,
  View <- {"notifier", "about"}, MaxEvents <- 2

\* Two devices that share a store, or one whose tokens are refreshed.
Stores == INSTANCE ObjectStoresProofs WITH
  Device <- Device \cup Peer, PageSize <- 1, MaxNames <- 2, MaxTokens <- 1, slot <- signedIn
OwnStore == INSTANCE ObjectStoresProofs WITH
  PageSize <- 2, MaxNames <- 3, MaxTokens <- 3, slot <- signedIn

Parts == {"transfers", "records", "shared records", "login", "remembering", "tasks", "asking",
          "terminals", "account", "updates", "update views", "batch", "batches", "stores",
          "own store", "run", "folder", "deletions", "local deletions", "chat"}
OverlapParts == {"deletions", "local deletions"}

ASSUME BackendAssumption ==
  /\ Records!CatalogAssumption /\ SharedRecords!CatalogAssumption
  /\ Work!Move!FileTransferAssumption /\ Work!Tasks!TaskRunsAssumption
  /\ Work!Path!TaskStepsAssumption
  /\ Work!Del!DeletionsAssumption /\ Overlap!Del!DeletionsAssumption
  /\ DiskOverlap!Del!DeletionsAssumption
  /\ Work!Batch!BatchAssumption /\ Overlap!Batch!BatchAssumption
  /\ Talk!Shake!HandshakeAssumption /\ Meeting!Shake!HandshakeAssumption
  /\ Talk!Asking!ConnectionPromptsAssumption /\ Talk!Panes!LocalTerminalsAssumption
  /\ Talk!Account!SignInAssumption /\ Talk!Chat!ChatRequestsAssumption
  /\ Talk!Updates!AppUpdatesAssumption /\ Meeting!Updates!AppUpdatesAssumption
  /\ Stores!ObjectStoresAssumption /\ OwnStore!ObjectStoresAssumption

Init ==
  /\ part \in Parts
  /\ Work!Move!Init
  /\ part # "transfers" => world = [to |-> "local", old |-> "file"] /\ job[file].overwrite
  /\ IF part = "shared records" THEN SharedRecords!Init ELSE Records!Init
  /\ IF part = "remembering" THEN Meeting!Shake!Init ELSE Talk!Shake!Init
  /\ part \notin {"login", "remembering"} => proxy = "none"
  /\ Work!Tasks!Init
  /\ part # "tasks" => \A t \in Task : task[t] = [schedule |-> None, host |-> TRUE]
  /\ Talk!Asking!Init /\ Talk!Panes!Init /\ Talk!Account!Init
  /\ IF part = "update views" THEN Meeting!Updates!Init ELSE Talk!Updates!Init
  /\ IF part = "batches" THEN Overlap!Batch!Init ELSE Work!Batch!Init
  /\ IF part = "stores" THEN Stores!Init ELSE OwnStore!Init
  /\ part \notin {"stores", "own store"} => provider = "s3" /\ store = {}
  /\ Work!Path!Init /\ (part # "run" => Len(plan) = 1)
  /\ IF part \in OverlapParts THEN Overlap!Del!Init ELSE Work!Del!Init
  /\ Talk!Chat!Init /\ (part # "chat" => reply.protocol = "anthropic")

transfers == <<world, job, pc, cancel, result, row, names, whole, target, backup, last,
               committed, hit, undone>>
records == <<db, active, importing, clock, excused>>
handshake == <<proxy, app, user, lock, copy, at, hop, hostKey, offer, hidden, rounds,
               left, replies, sent, vouched, remembered, partly>>
tasks == <<now, task, baseline, runs, dialog, cancels, edits, reloads>>
asking == <<stage, prompted, heard, queue, listener, attempt, snapshot, closed, answers,
            missed, refused, pageLoads>>
terminals == <<pane, opens, calls, shell, entry, loads, told, crossed, repeated>>
account == <<kind, phase, current, connecting, clicks, requests, notices, slot, flow,
             connectJob, connection, handled, reordered, late>>
updates == <<status, pending, operation, asked, view, shown, latest, events, toasts,
             notified, changes, mounts>>
batches == <<open, followed, results, begun, commands, batch, hostEvents, outcomes,
             dialogLoads, lost, overtaken>>
stores == <<provider, store, folder, named, conn, signedIn, issued, op, uploaded, cleared,
            dropped>>
steps == <<plan, runAt, stop, link, tries, index, attempts, alive, abandoned, stepEnds,
           runRow, channel, runAnswer, stepView, runShown, runOvertaken>>
deletions == <<there, deletion, deleteCancel, todo, found, files, dirs, round, flight,
               failures, ended, slots, up, stray, gone, disturbed>>
chats == <<reply, chatAt, stopRequested, retries, shrinks, item, kept, chat, got, registered,
           signalled, chatCancel, pieces, buffer, cut>>

Moves(name) == part = name /\ UNCHANGED part
Vault == <<records, handshake, stores>>
Files == <<transfers, deletions>>
Runs == <<tasks, steps, asking, terminals>>
Pages == <<account, updates, batches, chats>>

FilesMove ==
  /\ \/ Moves("transfers") /\ Work!Move!Next /\ UNCHANGED deletions
     \/ Moves("folder") /\ Work!Del!Next /\ UNCHANGED transfers
     \/ Moves("deletions") /\ Overlap!Del!Next /\ UNCHANGED transfers
     \/ Moves("local deletions") /\ DiskOverlap!Del!Next /\ UNCHANGED transfers
  /\ UNCHANGED <<Vault, Runs, Pages>>
VaultMoves ==
  /\ \/ Moves("records") /\ Records!Next /\ UNCHANGED <<handshake, stores>>
     \/ Moves("shared records") /\ SharedRecords!Next /\ UNCHANGED <<handshake, stores>>
     \/ Moves("login") /\ Talk!Shake!Next /\ UNCHANGED <<records, stores>>
     \/ Moves("remembering") /\ Meeting!Shake!Next /\ UNCHANGED <<records, stores>>
     \/ Moves("stores") /\ Stores!Next /\ UNCHANGED <<records, handshake>>
     \/ Moves("own store") /\ OwnStore!Next /\ UNCHANGED <<records, handshake>>
  /\ UNCHANGED <<Files, Runs, Pages>>
WorkMoves ==
  /\ \/ Moves("tasks") /\ Work!Tasks!Next /\ UNCHANGED <<steps, asking, terminals>>
     \/ Moves("run") /\ Work!Path!Next /\ UNCHANGED <<tasks, asking, terminals>>
     \/ Moves("asking") /\ Talk!Asking!Next /\ UNCHANGED <<tasks, steps, terminals>>
     \/ Moves("terminals") /\ Talk!Panes!Next /\ UNCHANGED <<tasks, steps, asking>>
  /\ UNCHANGED <<Files, Vault, Pages>>
PagesMove ==
  /\ \/ Moves("account") /\ Talk!Account!Next /\ UNCHANGED <<updates, batches, chats>>
     \/ Moves("updates") /\ Talk!Updates!Next /\ UNCHANGED <<account, batches, chats>>
     \/ Moves("update views") /\ Meeting!Updates!Next /\ UNCHANGED <<account, batches, chats>>
     \/ Moves("batch") /\ Work!Batch!Next /\ UNCHANGED <<account, updates, chats>>
     \/ Moves("batches") /\ Overlap!Batch!Next /\ UNCHANGED <<account, updates, chats>>
     \/ Moves("chat") /\ Talk!Chat!Next /\ UNCHANGED <<account, updates, batches>>
  /\ UNCHANGED <<Files, Vault, Runs>>

Next == FilesMove \/ VaultMoves \/ WorkMoves \/ PagesMove

vars == <<part, Files, Vault, Runs, Pages>>

Spec == Init /\ [][Next]_vars

-----------------------------------------------------------------------------
(* The properties of the components, by their own names where one has      *)
(* them, and together where several components promise the same.           *)

(* Every variable has its type: those of the component that moves.         *)
TypeOK ==
  /\ part \in Parts
  /\ part = "transfers" => Work!Move!TypeOK
  /\ part = "folder" => Work!Del!TypeOK
  /\ part = "deletions" => Overlap!Del!TypeOK
  /\ part = "local deletions" => DiskOverlap!Del!TypeOK
  /\ part = "records" => Records!TypeOK
  /\ part = "shared records" => SharedRecords!TypeOK
  /\ part = "login" => Talk!Shake!TypeOK
  /\ part = "remembering" => Meeting!Shake!TypeOK
  /\ part = "tasks" => Work!Tasks!TypeOK
  /\ part = "run" => Work!Path!TypeOK
  /\ part = "asking" => Talk!Asking!TypeOK
  /\ part = "terminals" => Talk!Panes!TypeOK
  /\ part = "account" => Talk!Account!TypeOK
  /\ part = "updates" => Talk!Updates!TypeOK
  /\ part = "update views" => Meeting!Updates!TypeOK
  /\ part = "batch" => Work!Batch!TypeOK
  /\ part = "batches" => Overlap!Batch!TypeOK
  /\ part = "stores" => Stores!TypeOK
  /\ part = "own store" => OwnStore!TypeOK
  /\ part = "chat" => Talk!Chat!TypeOK

(* Whatever fails in a transfer, what was under the name or was committed  *)
(* last is still there, and a transfer that went well leaves no litter.    *)
(* A deletion removes nothing but what was marked.                         *)
NothingIsLost ==
  /\ part = "transfers" => Work!Move!NothingIsLost /\ Work!Move!LeavesNothing
  /\ part = "folder" => Work!Del!NothingElse
  /\ part = "deletions" => Overlap!Del!NothingElse
  /\ part = "local deletions" => DiskOverlap!Del!NothingElse

(* The history of transfers, of task runs and of a chat says what          *)
(* happened, and so does the end of a deletion, which gives back what it   *)
(* held.                                                                   *)
RecordsAreTrue ==
  /\ part = "transfers" => Work!Move!RowsAreTrue
  /\ part = "tasks" => Work!Tasks!RunsAreTrue
  /\ part = "run" => Work!Path!StepsAreTrue /\ Work!Path!StepsInOrder
  /\ part = "folder" =>
       Work!Del!DoneMeansGone /\ Work!Del!ErrorHasCause /\ Work!Del!SlotsComeBack
  /\ part = "deletions" =>
       /\ Overlap!Del!DoneMeansGone /\ Overlap!Del!ErrorHasCause
       /\ Overlap!Del!SlotsComeBack
  /\ part = "local deletions" =>
       /\ DiskOverlap!Del!DoneMeansGone /\ DiskOverlap!Del!ErrorHasCause
       /\ DiskOverlap!Del!SlotsComeBack
  /\ part = "chat" => Talk!Chat!KeptAsShown

(* No record refers to a deleted one, no jump host to itself.              *)
ReferencesHold ==
  /\ part = "records" => Records!ReferencesHold /\ Records!NoJumpLoops
  /\ part = "shared records" => SharedRecords!ReferencesHold /\ SharedRecords!NoJumpLoops

(* A server gets a password or an answer only once its key is trusted, and *)
(* then no more often than it must; a remembered key stays.                *)
TrustBeforeSecrets ==
  /\ part = "login" =>
       Talk!Shake!SecretsAreGuarded /\ Talk!Shake!PasswordIsSpared /\ Talk!Shake!RememberedStays
  /\ part = "remembering" =>
       /\ Meeting!Shake!SecretsAreGuarded /\ Meeting!Shake!PasswordIsSpared
       /\ Meeting!Shake!RememberedStays

(* The schedule starts what is due, once, and never beside a run.          *)
ScheduleIsKept == part = "tasks" => Work!Tasks!ScheduleIsKept

(* However devices list, upload, prune and clear across each other, the    *)
(* store keeps the newest versions and all that is none of them, a listing *)
(* misses none, and a device keeps its newest refresh token.               *)
StoreServes ==
  /\ part = "stores" =>
       /\ Stores!NewestAreKept /\ Stores!OthersStay /\ Stores!ListsAreComplete
       /\ Stores!TokensAreKept
  /\ part = "own store" =>
       /\ OwnStore!NewestAreKept /\ OwnStore!OthersStay /\ OwnStore!ListsAreComplete
       /\ OwnStore!TokensAreKept

(* What runs in the backend belongs to somebody who can end it: a shell to *)
(* a pane, a command to the step that runs, a run on many hosts to the     *)
(* dialog, a busy status of the updater to a check or an installation, an  *)
(* account to connect to a sign-in, a request to a chat.                   *)
OwnersAreTrue ==
  /\ part = "run" => Work!Path!NothingIsLeft
  /\ part = "terminals" => Talk!Panes!ShellsAreKept
  /\ part = "account" => Talk!Account!ConnectsAsShown
  /\ part = "updates" => Talk!Updates!BusyHasOwner
  /\ part = "update views" => Meeting!Updates!BusyHasOwner
  /\ part = "batch" => Work!Batch!NoOrphanRun
  /\ part = "batches" => Overlap!Batch!NoOrphanRun
  /\ part = "chat" => Talk!Chat!RunningIsRegistered

(* Once nothing is on its way, the pages show what the backend has, and    *)
(* every question a connection waits on is asked, and no other.            *)
ViewIsTrue ==
  /\ part = "asking" => Talk!Asking!PromptsAreTrue
  /\ part = "terminals" => Talk!Panes!PanesAreTrue
  /\ part = "account" => Talk!Account!PhaseIsTrue
  /\ part = "updates" => Talk!Updates!ViewIsTrue
  /\ part = "update views" => Meeting!Updates!ViewIsTrue
  /\ part = "batch" => Work!Batch!ResultsAreTrue
  /\ part = "batches" => Overlap!Batch!ResultsAreTrue
  /\ part = "chat" => Talk!Chat!ShownInOrder
=============================================================================
