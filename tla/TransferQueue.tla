--------------------------- MODULE TransferQueue ----------------------------
(***************************************************************************)
(* Transfers and deletions of the SFTP panel: the loop that asks about     *)
(* conflicts and fills the queue, the queue, the list of operations        *)
(* (features/sftp/store.ts), the dialog (SftpPanel.tsx, ConfirmDialog.tsx) *)
(* and the operations of the backend (commands/sftp.rs, sftp/mod.rs).      *)
(*                                                                         *)
(* The panel has one thread: between two awaits nothing of it interleaves  *)
(* (Idle).  The backend's threads do, but they touch nothing the panel     *)
(* looks at before its next turn, so their steps are put between turns     *)
(* too.  One side of the panel is local, the other holds one remote tab at *)
(* a time, known by its connection.                                        *)
(***************************************************************************)
EXTENDS Integers, Sequences, FiniteSets, SequencesExt

CONSTANTS
  Name,             \* names of entries
  Call,             \* bound: calls of transfer that can be under way
  Batch,            \* bound: the selections a call may be made for
  MaxOperations,    \* bound: transfers and deletions
  Deletion,         \* bound: ids of deletions
  MaxConns,         \* bound: connections the remote side has had
  MaxRunning,       \* the 4 of drainTransferQueue
  Slots             \* MAX_CONCURRENT_OPERATIONS

QueueAssumption ==
  /\ MaxOperations \in Nat /\ MaxConns \in Nat
  /\ Deletion \cap (1 .. MaxOperations) = {}
  /\ \A b \in Batch : b \in Seq(Name) /\ b # <<>> /\ IsInjective(b)
  /\ MaxRunning \in Nat \ {0} /\ Slots \in Nat \ {0}

VARIABLES
  call,       \* call[c]: a call of transfer
  owner,      \* the call that conflictResolver resolves, or NoCall
  closing,    \* the dialog is about to call onClose
  entry,      \* entry[o]: o in the lists transfers and deletions
  queue,      \* transferQueue
  requests,   \* the keys of queuedRequests
  made,       \* transfers so far
  deletions,  \* deletions so far
  conn,       \* the connection of the remote tab, 0 without a tab
  conns,      \* connections so far
  up,         \* the status of that tab is "connected"
  commands,   \* commands nobody has handled
  op,         \* op[o]: the operation's task
  flag,       \* flag[o]: its cancel flag, FALSE without a task
  events,     \* events emitted and not yet heard
  unheard,    \* history: cancels that were handled before their start
  chosen      \* history: chosen[c]: nobody skipped an item of c unasked

panel == <<entry, queue, requests, made, deletions>>
dialog == <<call, owner, closing, chosen>>
remote == <<conn, conns, up>>
backend == <<op, flag, events>>
vars == <<dialog, panel, remote, commands, backend, unheard>>

NoCall == 0
Op == Deletion \cup (1 .. MaxOperations)
Copies == 1 .. Cardinality(Name) + 1
Target == Name \X Copies                \* a name, or the n-th copy of it
Rule == {"skip", "rename", "overwrite"}
CallState == [pc : {"idle", "go", "ask"}, todo : Seq(Name),
              occupied : SUBSET Target, rule : Rule \cup {"none"}, answer : Rule \cup {"none"}]
IdleCall == [pc |-> "idle", todo |-> <<>>, occupied |-> {}, rule |-> "none", answer |-> "none"]
Entry == [state : {"none", "queued", "running"}, cancelled : BOOLEAN, conn : 0 .. MaxConns]
NoEntry == [state |-> "none", cancelled |-> FALSE, conn |-> 0]

Init ==
  /\ call = [c \in Call |-> IdleCall] /\ owner = NoCall /\ closing = FALSE
  /\ entry = [o \in Op |-> NoEntry] /\ queue = <<>> /\ requests = {}
  /\ made = 0 /\ deletions = 0
  /\ conn = 0 /\ conns = 0 /\ up = FALSE
  /\ commands = {}
  /\ op = [o \in Op |-> "none"] /\ flag = [o \in Op |-> FALSE] /\ events = <<>>
  /\ unheard = {} /\ chosen = [c \in Call |-> TRUE]

Idle == ~closing /\ \A c \in Call : call[c].pc # "go"
Command(cmd, o) == [cmd |-> cmd, op |-> o]

-----------------------------------------------------------------------------
(* The queue.  drainTransferQueue is a function of the panel's state:      *)
(* every operation that calls it goes through Drained.                     *)

Running(e) == {o \in Op \ Deletion : e[o].state = "running"}
First(n, q) == ToSet(SubSeq(q, 1, IF n > Len(q) THEN Len(q) ELSE n))

CountsQueued(e, q) ==           \* a fault: waiting transfers take up room
  First(MaxRunning - Cardinality({o \in Op : e[o].state # "none"}), q)

Starting(e, q) == First(MaxRunning - Cardinality(Running(e)), q)

Drained(e, q, asked, cmds) ==
  LET s == Starting(e, q) \cap asked
  IN  /\ entry' = [o \in Op |-> IF o \in s THEN [e[o] EXCEPT !.state = "running"] ELSE e[o]]
      /\ queue' = SelectSeq(q, LAMBDA o : o \notin s)
      /\ requests' = asked \ s
      /\ commands' = cmds \cup {Command("start", o) : o \in s}

-----------------------------------------------------------------------------
(* transfer                                                                *)

Transfer(c, items, occupied) ==
  /\ Idle /\ call[c].pc = "idle" /\ conn # 0 /\ up
  /\ made + deletions + Len(items) <= MaxOperations
  /\ call' = [call EXCEPT ![c] = [IdleCall EXCEPT !.pc = "go", !.todo = items,
                                                  !.occupied = {<<n, 1>> : n \in occupied}]]
  /\ UNCHANGED <<owner, closing, chosen, panel, remote, commands, backend, unheard>>

CopyOf(name, occupied) ==               \* uniqueCopyName
  CHOOSE t \in {name} \X (Copies \ {1}) :
    t \notin occupied /\ \A i \in 2 .. t[2] - 1 : <<name, i>> \in occupied

Onward(c, target) ==             \* on to the next item, after target was taken
  [call EXCEPT ![c] = IF Len(@.todo) = 1 THEN IdleCall
                      ELSE [@ EXCEPT !.todo = Tail(@), !.occupied = @ \cup target,
                                     !.answer = "none"]]

Enqueue(c, target) ==
  /\ made' = made + 1
  /\ call' = Onward(c, {target})
  /\ Drained([entry EXCEPT ![made'] = [state |-> "queued", cancelled |-> FALSE, conn |-> conn]],
             Append(queue, made'), requests \cup {made'}, commands)
  /\ UNCHANGED <<owner, closing, chosen, deletions>>

Ask(c) ==                       \* a conflict that was open is skipped
  /\ call' = [d \in Call |-> CASE d = c     -> [call[d] EXCEPT !.pc = "ask"]
                               [] d = owner -> [call[d] EXCEPT !.pc = "go", !.answer = "skip"]
                               [] OTHER     -> call[d]]
  /\ owner' = c
  /\ chosen' = [d \in Call |-> chosen[d] /\ d # owner]
  /\ UNCHANGED <<closing, panel, commands>>

Skip(c) == call' = Onward(c, {}) /\ UNCHANGED <<owner, closing, chosen, panel, commands>>

Step(c) ==
  /\ call[c].pc = "go"
  /\ LET k    == call[c]
         name == Head(k.todo)
         how  == IF k.answer # "none" THEN k.answer ELSE k.rule
     IN  IF <<name, 1>> \notin k.occupied
         THEN Enqueue(c, <<name, 1>>)
         ELSE \/ how = "none" /\ Ask(c)
              \/ how = "skip" /\ Skip(c)
              \/ how = "rename" /\ Enqueue(c, CopyOf(name, k.occupied))
              \/ how = "overwrite" /\ Enqueue(c, <<name, 1>>)
  /\ UNCHANGED <<remote, backend, unheard>>

Answered(c, decision, all) ==
  [call EXCEPT ![c] = [@ EXCEPT !.pc = "go", !.answer = decision,
                                !.rule = IF all THEN decision ELSE @]]

(* The user answers the dialog.  An action of a ConfirmDialog is followed  *)
(* by onClose, one turn later.                                             *)
ResolveConflict(decision, all) ==
  /\ Idle /\ owner # NoCall
  /\ call' = Answered(owner, decision, all)
  /\ owner' = NoCall /\ closing' = (decision # "skip")
  /\ UNCHANGED <<chosen, panel, remote, commands, backend, unheard>>

(* onClose, after the loop has run to its next await: resolves "skip".     *)
CloseDialog ==
  /\ closing /\ \A c \in Call : call[c].pc # "go"
  /\ closing' = FALSE /\ owner' = NoCall
  /\ call' = IF owner = NoCall THEN call ELSE Answered(owner, "skip", FALSE)
  /\ chosen' = [c \in Call |-> chosen[c] /\ c # owner]
  /\ UNCHANGED <<panel, remote, commands, backend, unheard>>

(* cancelConflict: the call returns.                                       *)
Cancelled == IF owner = NoCall THEN call ELSE [call EXCEPT ![owner] = IdleCall]

HidePanel ==
  /\ Idle /\ owner # NoCall /\ call' = Cancelled /\ owner' = NoCall
  /\ UNCHANGED <<closing, chosen, panel, remote, commands, backend, unheard>>

-----------------------------------------------------------------------------
(* The list of operations.                                                 *)

WithoutQueued(dead) ==
  /\ entry' = [o \in Op |-> IF o \in dead \cap requests THEN NoEntry
                            ELSE IF o \in dead /\ entry[o].state = "running"
                                 THEN [entry[o] EXCEPT !.cancelled = TRUE] ELSE entry[o]]
  /\ queue' = SelectSeq(queue, LAMBDA o : o \notin dead \cap requests)
  /\ requests' = requests \ dead
CancelCommands(dead) == {Command("cancel", o) : o \in dead \ requests}

(* cancelTransfer and cancelDelete: offered once.                          *)
Cancel(o) ==
  /\ Idle /\ entry[o].state # "none" /\ ~entry[o].cancelled
  /\ WithoutQueued({o}) /\ commands' = commands \cup CancelCommands({o})
  /\ UNCHANGED <<dialog, made, deletions, remote, backend, unheard>>

MoveQueuedTransfer(i) ==
  /\ Idle /\ i \in 1 .. Len(queue) - 1
  /\ queue' = [queue EXCEPT ![i] = queue[i + 1], ![i + 1] = queue[i]]
  /\ UNCHANGED <<dialog, entry, requests, made, deletions, remote, commands, backend, unheard>>

DeleteEntries(o) ==
  /\ Idle /\ o \in Deletion /\ op[o] = "none" /\ entry[o] = NoEntry /\ up
  /\ Command("start", o) \notin commands
  /\ made + deletions < MaxOperations /\ deletions' = deletions + 1
  /\ entry' = [entry EXCEPT ![o] = [state |-> "running", cancelled |-> FALSE, conn |-> conn]]
  /\ commands' = commands \cup {Command("start", o)}
  /\ UNCHANGED <<dialog, queue, requests, made, remote, backend, unheard>>

(* The remote tab: opened, broken, connected again, closed.                *)
OpenTab ==
  /\ Idle /\ conn = 0 /\ conns < MaxConns
  /\ conns' = conns + 1 /\ conn' = conns' /\ up' = TRUE
  /\ UNCHANGED <<dialog, panel, commands, backend, unheard>>

ReconnectTab ==
  /\ Idle /\ conn # 0 /\ ~up /\ up' = TRUE
  /\ UNCHANGED <<dialog, panel, conn, conns, commands, backend, unheard>>

CloseTab ==
  /\ Idle /\ conn # 0 /\ conn' = 0 /\ up' = FALSE
  /\ call' = Cancelled /\ owner' = NoCall
  /\ LET dead == {o \in Op \ Deletion : entry[o].state # "none" /\ entry[o].conn = conn}
     IN  WithoutQueued(dead) /\ commands' = commands \cup CancelCommands(dead)
  /\ UNCHANGED <<closing, chosen, made, deletions, conns, backend, unheard>>

-----------------------------------------------------------------------------
(* The backend: fs_transfer and fs_delete_batch register the operation and *)
(* spawn its task, which waits for a slot or its cancellation.             *)

Handle(cmd, o) == Idle /\ Command(cmd, o) \in commands /\ commands' = commands \ {Command(cmd, o)}
Tell(o, what) == Append(events, [op |-> o, what |-> what])

HandleStart(o) ==
  /\ Handle("start", o)
  /\ \/ op' = [op EXCEPT ![o] = "waiting"] /\ UNCHANGED events
     \/ op' = [op EXCEPT ![o] = "ended"] /\ events' = Tell(o, "rejected")
  /\ UNCHANGED <<dialog, panel, remote, flag, unheard>>

HasSlot(o) == op[o] = "running"                             \* a fault

IsRegistered(o) == op[o] \in {"waiting", "running"}

HandleCancel(o) ==
  /\ Handle("cancel", o)
  /\ flag' = [flag EXCEPT ![o] = @ \/ IsRegistered(o)]
  /\ unheard' = IF op[o] = "none" THEN unheard \cup {o} ELSE unheard
  /\ UNCHANGED <<dialog, panel, remote, op, events>>

Begin(o) ==
  /\ Idle /\ op[o] = "waiting" /\ (flag[o] \/ Cardinality({p \in Op : op[p] = "running"}) < Slots)
  /\ op' = [op EXCEPT ![o] = "running"] /\ events' = Tell(o, "active")
  /\ UNCHANGED <<dialog, panel, remote, commands, flag, unheard>>

End(o, how) ==
  /\ Idle /\ op[o] = "running" /\ (how = "cancelled" <=> flag[o])
  /\ op' = [op EXCEPT ![o] = "ended"] /\ flag' = [flag EXCEPT ![o] = FALSE]
  /\ events' = Tell(o, how)
  /\ UNCHANGED <<dialog, panel, remote, commands, unheard>>

(* applyTransfer and applyDelete: progress brings back the entry of a      *)
(* transfer it does not find, the last event removes it and lets the next  *)
(* ones start; the network's errors break the tab.                         *)
HearActive(e) ==
  /\ entry' = IF e.op \in Deletion \/ entry[e.op].state # "none" THEN entry
              ELSE [entry EXCEPT ![e.op] = [NoEntry EXCEPT !.state = "running"]]
  /\ UNCHANGED <<queue, requests, commands, up>>

OnlyEnds(e) ==                  \* a fault: refused commands leave their entry
  IF e.what = "rejected" THEN UNCHANGED <<entry, queue, requests, commands, up>>
  ELSE /\ Drained([entry EXCEPT ![e.op] = NoEntry], queue, requests, commands)
       /\ UNCHANGED up

HearEnd(e) ==
  /\ LET rest == [entry EXCEPT ![e.op] = NoEntry]
     IN  IF e.op \in Deletion
         THEN entry' = rest /\ UNCHANGED <<queue, requests, commands>>
         ELSE Drained(rest, queue, requests, commands)
  /\ up' = (up /\ ~(e.what = "network" /\ entry[e.op].conn = conn))

Hear ==
  /\ Idle /\ events # <<>> /\ events' = Tail(events)
  /\ IF Head(events).what = "active" THEN HearActive(Head(events)) ELSE HearEnd(Head(events))
  /\ UNCHANGED <<dialog, made, deletions, conn, conns, op, flag, unheard>>

(* A page load: a new panel, and disconnect_all cancels what is registered.*)
PageLoad ==
  /\ \E o \in Op : entry[o].state # "none"
  /\ call' = [c \in Call |-> IdleCall] /\ owner' = NoCall /\ closing' = FALSE
  /\ entry' = [o \in Op |-> NoEntry] /\ queue' = <<>> /\ requests' = {}
  /\ conn' = 0 /\ up' = FALSE /\ events' = <<>>
  /\ flag' = [o \in Op |-> flag[o] \/ IsRegistered(o)]
  /\ UNCHANGED <<chosen, made, deletions, conns, commands, op, unheard>>

-----------------------------------------------------------------------------
Next ==
  \/ \E c \in Call :
       \/ \E items \in Batch, occupied \in SUBSET Name : Transfer(c, items, occupied)
       \/ Step(c)
  \/ \E decision \in Rule, all \in BOOLEAN : ResolveConflict(decision, all)
  \/ CloseDialog \/ HidePanel
  \/ \E o \in Op :
       \/ Cancel(o) \/ DeleteEntries(o)
       \/ HandleStart(o) \/ HandleCancel(o) \/ Begin(o)
       \/ \E how \in {"done", "network", "cancelled"} : End(o, how)
  \/ \E i \in 1 .. MaxOperations : MoveQueuedTransfer(i)
  \/ OpenTab \/ ReconnectTab \/ CloseTab \/ Hear \/ PageLoad

Spec == Init /\ [][Next]_vars

-----------------------------------------------------------------------------
Alive(o) == op[o] \in {"waiting", "running"}

TypeOK ==
  /\ call \in [Call -> CallState] /\ owner \in Call \cup {NoCall} /\ closing \in BOOLEAN
  /\ entry \in [Op -> Entry] /\ queue \in Seq(Op) /\ requests \subseteq Op
  /\ made \in 0 .. MaxOperations /\ deletions \in 0 .. MaxOperations
  /\ conn \in 0 .. MaxConns /\ conns \in 0 .. MaxConns
  /\ up \in BOOLEAN /\ commands \subseteq [cmd : {"start", "cancel"}, op : Op]
  /\ op \in [Op -> {"none", "waiting", "running", "ended"}]
  /\ flag \in [Op -> BOOLEAN] /\ unheard \subseteq Op /\ chosen \in [Call -> BOOLEAN]
  /\ events \in Seq([op : Op, what : {"active", "done", "network", "cancelled", "rejected"}])

(* The queue, the requests behind it and the entries marked as queued are  *)
(* the same transfers, and nobody waits while there is room to run.        *)
NoIdleSlot ==
  /\ IsInjective(queue) /\ ToSet(queue) = requests
  /\ requests = {o \in Op : entry[o].state = "queued"}
  /\ queue # <<>> => Cardinality(Running(entry)) >= MaxRunning

(* What the list shows as running has a command, a task or an event ahead  *)
(* that will end it: no operation stays in the list for good.              *)
RunningIsReal ==
  \A o \in Op : entry[o].state = "running" =>
    \/ Command("start", o) \in commands \/ Alive(o)
    \/ \E i \in DOMAIN events : events[i].op = o /\ events[i].what # "active"

(* Somebody who cancelled an operation is heard, unless the cancel arrived *)
(* before the start: the flag is set while the operation goes on.          *)
CancelIsHeard ==
  \A o \in Op : entry[o].cancelled /\ Alive(o) /\ o \notin unheard =>
    flag[o] \/ Command("cancel", o) \in commands

(* A call that waits for an answer owns the dialog: nobody waits unseen.   *)
DialogHasOwner == \A c \in Call : call[c].pc = "ask" <=> owner = c

(* Neither an operation nor a call waits for an answer nobody will give.   *)
NothingHangs == RunningIsReal /\ DialogHasOwner

(* What the dialog says: an item is skipped when the user skips it, or all *)
(* that remain.                                                            *)
SkipIsChosen == \A c \in Call : chosen[c]
=============================================================================
