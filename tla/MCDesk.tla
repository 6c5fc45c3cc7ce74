------------------------------- MODULE MCDesk -------------------------------
(***************************************************************************)
(* The components of the app window, checked side by side.  They share no  *)
(* state, so their interleavings show nothing that each of them alone does *)
(* not show: in a behavior of this module one component moves, part says   *)
(* which one, and the others stay as the app starts them.  Every reachable *)
(* state of each component is reached.                                     *)
(***************************************************************************)
EXTENDS Integers, TLC

CONSTANTS
  None,
  Local, Remote, Dirs, Home, MaxTabs, HistoryLimit, MaxLoads, MaxOpenings,
  readme, notes, MaxOperations, MaxConns, MaxRunning, Slots,
  Text, MaxOpens, MaxSaves,
  Chat, Stored, Kind, Operation, Manual, Untrusted, Images, MaxSteps, MaxAttempts,
  MaxCalls, MaxRuns, MaxGets, MaxRestarts,
  MaxSessions, MaxFiles, MaxRow, MaxColumn, MaxRestored, MaxDepth,
  MaxBytes, MaxInputs, MaxPrompts,
  Value, Unset, MaxChoices, MaxDirect,
  newHost, open, zoomIn, Binding, n1, o1, z1, Disabled, Inherited, MaxOverrides,
  Endpoint,
  Blank

VARIABLES
  part,
  (* SftpPanes *)
  tabs, navReq, connReq, waits, loads, conns, pending, opening, openings, events,
  asked, early, crossed,
  (* TransferQueue *)
  call, owner, closing, entry, transferQueue, requests, made, deletions, conn,
  remoteTabs, up, commands, op, flag, told, unheard, chosen,
  (* FileEditing *)
  ui, disk, backup, fileWrites, opens, saves,
  (* AiRunner *)
  row, load, listed, runtime, created, deleting, gets, run, chatRuns, saveQueue, save,
  restarts, unsaved, undone, removed,
  (* Workbench *)
  workTabs, activeId, lastPane, snapshots,
  (* TerminalInput *)
  status, ended, disposed, inputReady, connectSettled, disconnectRequested,
  pendingInput, pendingInputBytes, sending, handled, flushTimer, watchdog, connect,
  remote, channel, prompt, prompts, accepted, received,
  (* SettingSync *)
  stored, shown, cache, revision, get, writes, direct, choices, directs, last, mixed,
  failed,
  (* Keybindings *)
  overrides, editing, conflict, changes,
  (* AiSettings *)
  aiRows, config, fetch, copy, form, mutations, at, previous, tool, list, limits,
  edits, tools, raced, untold,
  (* RecordEditing *)
  kind, beside, record, shownList, shownHost, dialog, saved, drag, osHint, hinted,
  assistant, news, typed, alterations, forms, mine, overtaken

Registry == <<newHost, open, zoomIn>>
Shortcuts == newHost :> <<n1>> @@ open :> <<o1>> @@ zoomIn :> <<z1>>

Panes == INSTANCE SftpPanes WITH Local <- {}
LocalPanes == INSTANCE SftpPanes WITH Remote <- {}
Queue == INSTANCE TransferQueue WITH
  Name <- {readme, notes}, Call <- {1}, Batch <- {<<readme, notes>>, <<readme>>},
  Deletion <- {MaxOperations + 1},
  queue <- transferQueue, conns <- remoteTabs, events <- told
Editing == INSTANCE FileEditing WITH
  File <- {readme, notes}, Remote <- {readme}, writes <- fileWrites
Ai == INSTANCE AiRunner WITH
  runs <- chatRuns, queue <- saveQueue, failed <- unsaved, crossed <- undone
\* One run of several steps with several calls, undisturbed by other readers.
LongAi == INSTANCE AiRunner WITH
  MaxSteps <- 2, MaxAttempts <- 1, MaxCalls <- 2,
  MaxRuns <- 1, MaxGets <- 0, MaxRestarts <- 0,
  runs <- chatRuns, queue <- saveQueue, failed <- unsaved, crossed <- undone
Work == INSTANCE Workbench WITH tabs <- workTabs, stored <- snapshots
Input == INSTANCE TerminalInput WITH Limit <- MaxBytes
Settings == INSTANCE SettingSync WITH crossed <- mixed
Keys == INSTANCE Keybindings WITH
  Default <- Shortcuts, pending <- conflict, edits <- changes, MaxEdits <- MaxOverrides
\* Several changes by the page, or one beside one by the tool.
AiForm == INSTANCE AiSettings WITH MaxEdits <- 2, MaxTools <- 0, row <- aiRows
AiTool == INSTANCE AiSettings WITH MaxEdits <- 1, MaxTools <- 1, row <- aiRows

\* One edit of a record that holds secrets, or two dialogs of one that does not,
\* beside one other that changes it.
Secrets == INSTANCE RecordEditing WITH
  RecordKind <- {"host", "identity", "key"}, Given <- {"text", "secret"},
  Beside <- {{"drag"}, {"system"}, {"tool"}, {"removal"}, {"sync"}},
  MaxTyped <- 1, MaxOthers <- 1, MaxForms <- 1, changes <- alterations
Records == INSTANCE RecordEditing WITH
  RecordKind <- {"group", "forward", "proxy", "snippet", "task", "bookmark"},
  Given <- {"text", "place"}, Beside <- {{"drag"}, {"tool"}, {"removal"}, {"sync"}},
  MaxTyped <- 1, MaxOthers <- 1, MaxForms <- 2, changes <- alterations

ASSUME DeskAssumption ==
  /\ Panes!PanesAssumption /\ Queue!QueueAssumption /\ Editing!FileEditingAssumption
  /\ Ai!AiAssumption /\ LongAi!AiAssumption /\ Work!WorkbenchAssumption
  /\ Input!TerminalInputAssumption
  /\ Settings!SettingSyncAssumption /\ Keys!KeybindingsAssumption
  /\ AiForm!AiSettingsAssumption /\ AiTool!AiSettingsAssumption
  /\ Secrets!RecordAssumption /\ Records!RecordAssumption

Init ==
  /\ part \in {"panes", "local panes", "queue", "editing", "ai", "long ai", "work",
               "input", "settings", "keys", "ai form", "ai tool", "secrets", "records"}
  /\ IF part = "local panes" THEN LocalPanes!Init ELSE Panes!Init
  /\ IF part = "long ai" THEN LongAi!Init ELSE Ai!Init
  /\ Queue!Init /\ Editing!Init /\ Work!Init /\ Input!Init /\ Settings!Init /\ Keys!Init
  \* Endpoints are alike: it does not matter which one is in use at first.
  /\ AiForm!Init /\ aiRows.endpoint = CHOOSE e \in Endpoint : TRUE
  /\ part \notin {"ai form", "ai tool"} => aiRows.model = None
  /\ IF part = "records" THEN Records!Init ELSE Secrets!Init
  /\ part \notin {"secrets", "records"} => kind = "host" /\ beside = {"tool"}
  /\ part # "settings" => stored = Unset /\ shown = CHOOSE v \in Value : TRUE

panes == <<tabs, navReq, connReq, waits, loads, conns, pending, opening,
           openings, events, asked, early, crossed>>
transfers == <<call, owner, closing, entry, transferQueue, requests, made,
               deletions, conn, remoteTabs, up, commands, op, flag, told,
               unheard, chosen>>
files == <<ui, disk, backup, fileWrites, opens, saves>>
chats == <<row, load, listed, runtime, created, deleting, gets, run, chatRuns,
           saveQueue, save, restarts, unsaved, undone, removed>>
work == <<workTabs, activeId, lastPane, snapshots>>
input == <<status, ended, disposed, inputReady, connectSettled,
           disconnectRequested, pendingInput, pendingInputBytes, sending,
           handled, flushTimer, watchdog, connect, remote, channel, prompt,
           prompts, accepted, received>>
settings == <<stored, shown, cache, revision, get, writes, direct, choices,
              directs, last, mixed, failed>>
keys == <<overrides, editing, conflict, changes>>
aiSettings == <<aiRows, config, fetch, copy, form, mutations, at, previous, tool, list,
                limits, edits, tools, raced, untold>>
records == <<kind, beside, record, shownList, shownHost, dialog, saved, drag, osHint,
             hinted, assistant, news, typed, alterations, forms, mine, overtaken>>

Moves(name) == part = name /\ UNCHANGED part
Files == <<panes, transfers, files>>
Views == <<work, input, settings, keys, aiSettings, records>>

Next ==
  \/ Moves("panes") /\ UNCHANGED <<transfers, files, chats, Views>> /\ Panes!Next
  \/ /\ Moves("local panes") /\ UNCHANGED <<transfers, files, chats, Views>>
     /\ LocalPanes!Next
  \/ Moves("queue") /\ UNCHANGED <<panes, files, chats, Views>> /\ Queue!Next
  \/ Moves("editing") /\ UNCHANGED <<panes, transfers, chats, Views>> /\ Editing!Next
  \/ Moves("ai") /\ UNCHANGED <<Files, Views>> /\ Ai!Next
  \/ Moves("long ai") /\ UNCHANGED <<Files, Views>> /\ LongAi!Next
  \/ /\ UNCHANGED <<Files, chats, records>>
     /\ \/ Moves("work") /\ UNCHANGED <<input, settings, keys, aiSettings>> /\ Work!Next
        \/ Moves("input") /\ UNCHANGED <<work, settings, keys, aiSettings>> /\ Input!Next
        \/ Moves("settings") /\ UNCHANGED <<work, input, keys, aiSettings>> /\ Settings!Next
        \/ Moves("keys") /\ UNCHANGED <<work, input, settings, aiSettings>> /\ Keys!Next
        \/ Moves("ai form") /\ UNCHANGED <<work, input, settings, keys>> /\ AiForm!Next
        \/ Moves("ai tool") /\ UNCHANGED <<work, input, settings, keys>> /\ AiTool!Next
  \/ /\ Moves("secrets") /\ UNCHANGED <<Files, chats, work, input, settings, keys, aiSettings>>
     /\ Secrets!Next
  \/ /\ Moves("records") /\ UNCHANGED <<Files, chats, work, input, settings, keys, aiSettings>>
     /\ Records!Next

vars == <<part, Files, chats, Views>>

Spec == Init /\ [][Next]_vars

-----------------------------------------------------------------------------
(* The properties of the components, by their own names where one says it  *)
(* all, and together where they belong together.                           *)

(* Every variable has its type: those of the component that moves.         *)
TypeOK ==
  CASE part = "panes" -> Panes!TypeOK
    [] part = "local panes" -> LocalPanes!TypeOK
    [] part = "queue" -> Queue!TypeOK
    [] part = "editing" -> Editing!TypeOK
    [] part = "ai" -> Ai!TypeOK
    [] part = "long ai" -> LongAi!TypeOK
    [] part = "work" -> Work!TypeOK
    [] part = "input" -> Input!TypeOK
    [] part = "settings" -> Settings!TypeOK
    [] part = "keys" -> Keys!TypeOK
    [] part = "ai form" -> AiForm!TypeOK
    [] part = "ai tool" -> AiTool!TypeOK
    [] part = "secrets" -> Secrets!TypeOK
    [] part = "records" -> Records!TypeOK

(* SFTP tabs show the directory they say they are in; the navigation asked *)
(* for last wins; nothing is left loading, connecting or behind.           *)
PanesAreTrue ==
  /\ part = "panes" =>
       Panes!VisibleIsCurrent /\ Panes!LastNavigationWins /\ Panes!QuietIsSettled
  /\ part = "local panes" =>
       /\ LocalPanes!VisibleIsCurrent /\ LocalPanes!LastNavigationWins
       /\ LocalPanes!QuietIsSettled

(* Transfers start when there is room, come to an end and can be stopped.  *)
TransfersServe ==
  part = "queue" => Queue!NoIdleSlot /\ Queue!NothingHangs /\ Queue!CancelIsHeard

(* A save never loses a file, and no tab goes with text nobody saved; a    *)
(* write to a record keeps what it was not given, its secrets first.       *)
TextSurvives == part = "editing" => Editing!TextSurvives
EditsSurvive ==
  /\ Editing!EditsSurvive
  \* The bounds of the two instances do not matter to these.
  /\ Records!KeepsTheRest /\ Records!SecretsKept /\ Records!OwnSavesSeen

(* A chat's history is one the backend accepts; its operations are         *)
(* approved and stop when told; one run works on it and its row follows.   *)
HistoryIsAccepted ==
  /\ part = "ai" => Ai!HistoryIsAccepted
  /\ part = "long ai" => LongAi!HistoryIsAccepted
OperationsAreAllowed == Ai!ApprovalRespected /\ Ai!NothingStartsAfterStop
ChatsAgree ==
  /\ part = "ai" => Ai!PendingIsOneRun /\ Ai!RowsAgree
  /\ part = "long ai" => LongAi!PendingIsOneRun /\ LongAi!RowsAgree

(* Panes, layouts, focus and the stored copy of the tabs fit together.     *)
TabsHoldTogether == part = "work" => Work!TabsHoldTogether

(* Terminal input arrives in order, and no connect is left unwatched.      *)
SessionServes == part = "input" => Input!SessionServes

(* The setting the user chose last is the one that is stored; those of the *)
(* assistant fit together, and the page shows and uses what is stored.     *)
ChoiceSurvives ==
  /\ part = "settings" => Settings!ChoiceSurvives
  /\ part = "ai form" => AiForm!ModelFits /\ AiForm!QuietIsTrue /\ AiForm!LimitsFit
  /\ part = "ai tool" => AiTool!ModelFits /\ AiTool!QuietIsTrue /\ AiTool!LimitsFit

(* What the window shows is so: the shortcut a command is shown with runs  *)
(* it, a record is as it is in the vault, and a dialog as it is cached.    *)
ShownIsTrue ==
  /\ part = "keys" => Keys!ShownShortcutRuns
  /\ part = "secrets" => Secrets!CachesAgree /\ Secrets!DialogFollows
  /\ part = "records" => Records!CachesAgree /\ Records!DialogFollows
=============================================================================
