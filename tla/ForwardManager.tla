--------------------------- MODULE ForwardManager ---------------------------
(***************************************************************************)
(* Port forwards: the ForwardManager (ssh/forward.rs) and the commands     *)
(* that drive it (commands/forwards.rs).                                   *)
(*                                                                         *)
(* Every map of the manager is keyed by the id of the forward, so this is  *)
(* one forward: its row, its entries in the active, retiring and runtime   *)
(* maps, the tasks that serve it and the calls that are under way.  A call *)
(* is a thread; it is advanced from one lock or await to the next.  Of two *)
(* neighbouring steps only those are joined that no other thread can come  *)
(* between with a different result:                                        *)
(*   - taking an entry out of the active map and telling its task to shut  *)
(*     down (stop, stop_if_spec): nobody else can reach that entry;        *)
(*   - remove_finished and the finished signal: who waits for the signal   *)
(*     has taken the entry out of the map before;                          *)
(*   - the first look at the active map, the look at the retiring map and  *)
(*     the unlocked test of the lifecycle: start repeats the first and the *)
(*     last under the lock.                                                *)
(*                                                                         *)
(* What a forward is to do (ForwardSpec: addresses, ports, hops) is a      *)
(* number, the state of the rows it was built from; 0 is a deleted row.    *)
(***************************************************************************)
EXTENDS Integers, FiniteSets

CONSTANTS
  Caller,           \* threads that run commands, one at a time each
  MaxGenerations,   \* bound: tasks that are ever started
  MaxEdits,         \* bound: changes of the row
  MaxReloads        \* bound: page loads and exits (stop_all)

ASSUME ForwardAssumption ==
  /\ Caller # {} /\ IsFiniteSet(Caller)
  /\ MaxGenerations \in Nat /\ MaxEdits \in Nat /\ MaxReloads \in Nat

VARIABLES
  row,          \* the stored forward
  edits,        \* the latest state a row was given
  active,       \* the generation in the active map, 0 if there is none
  retiring,     \* the generation in the retiring map, 0 if there is none
  generations,  \* the generations given out
  task,         \* task[g]: the task of generation g
  runtime,      \* the latest StatusEvent
  lifecycle,    \* counts the page loads
  reload,       \* how far stop_all has come
  drained,      \* the generation stop_all has in its hands
  call,         \* call[c]: what c is doing
  raced         \* history: a start got in behind a change of the row

vars == <<row, edits, active, retiring, generations, task, runtime, lifecycle,
          reload, drained, call, raced>>
manager == <<active, retiring, generations, task, lifecycle, reload, drained>>
rows == <<row, edits>>

Deleted == 0
Broken == -1                    \* no spec can be built: say, the host is gone
None == 0
Generation == 1 .. MaxGenerations

Running == {"connecting", "active", "retrying"}
TaskState == {"unborn", "inserted", "ended", "finished"} \cup Running
Unborn == [pc |-> "unborn", spec |-> 0, told |-> FALSE, life |-> 0, ready |-> FALSE]
Finished == [Unborn EXCEPT !.pc = "finished"]

LiveStatus == {"starting", "active", "reconnecting"}
Event == [status : {"none", "error", "stopped"} \cup LiveStatus, gen : {None} \cup Generation]
NoEvent == [status |-> "none", gen |-> None]

CallState ==
  {"idle", "enter", "look", "wait", "insert", "announce", "await",
   "stop", "finishing", "report", "fail", "forget", "edit", "commit", "check"}
NoCall ==
  [cmd |-> "none", pc |-> "idle", spec |-> 0, old |-> 0, gen |-> None,
   life |-> 0, was |-> FALSE]

Init ==
  /\ row = 1 /\ edits = 1
  /\ active = None /\ retiring = None
  /\ generations = 0
  /\ task = [g \in Generation |-> Unborn]
  /\ runtime = NoEvent
  /\ lifecycle = 0
  /\ reload = "idle" /\ drained = None
  /\ call = [c \in Caller |-> NoCall]
  /\ raced = FALSE

(* Where a call stands, and how it goes on.                                *)
At(c, pc) == call[c].pc = pc
Goes(c, pc) == call' = [call EXCEPT ![c].pc = pc]
Return(c) == call' = [call EXCEPT ![c] = NoCall]

(* StatusReporter::emit                                                    *)
EmitUnknown(status, g) ==       \* a fault: a status the frontend does not know
  runtime' = [status |-> IF status = "error" THEN "failed" ELSE status, gen |-> g]

Emit(status, g) == runtime' = [status |-> status, gen |-> g]

-----------------------------------------------------------------------------
(* The task of generation g: run_local_forward, run_remote_forward.        *)

TaskIn(g, pcs) == task[g].pc \in pcs

EndsQuietly(g, status) ==       \* a fault: a cancelled task says nothing
  /\ task' = [task EXCEPT ![g].pc = "ended", ![g].ready = TRUE]
  /\ IF status = "error" THEN Emit(status, g) ELSE UNCHANGED runtime

Ends(g, status) ==
  /\ task' = [task EXCEPT ![g].pc = "ended", ![g].ready = TRUE]
  /\ Emit(status, g)

(* Bound and connected, for the first time or again.                       *)
Established(g) ==
  /\ TaskIn(g, {"connecting", "retrying"})
  /\ task' = [task EXCEPT ![g].pc = "active", ![g].ready = TRUE]
  /\ Emit("active", g)
  /\ UNCHANGED <<rows, active, retiring, generations, lifecycle, reload, drained, call, raced>>

(* The first attempt must succeed: no retry.                               *)
CannotStart(g) ==
  /\ TaskIn(g, {"connecting"})
  /\ Ends(g, "error")
  /\ UNCHANGED <<rows, active, retiring, generations, lifecycle, reload, drained, call, raced>>

(* The connection is lost, or a later attempt fails.                       *)
Lost(g) ==
  /\ TaskIn(g, {"active", "retrying"})
  /\ task' = [task EXCEPT ![g].pc = "retrying"]
  /\ Emit("reconnecting", g)
  /\ UNCHANGED <<rows, active, retiring, generations, lifecycle, reload, drained, call, raced>>

(* The shutdown signal is seen, or the user turns a prompt of the          *)
(* connection attempt down.                                                *)
Halt(g) ==
  /\ TaskIn(g, Running)
  /\ task[g].told \/ TaskIn(g, {"connecting", "retrying"})
  /\ Ends(g, "stopped")
  /\ UNCHANGED <<rows, active, retiring, generations, lifecycle, reload, drained, call, raced>>

(* remove_finished                                                         *)
WithoutAnyTask(g) == None       \* a fault: the generation is not compared

WithoutTask(g) == IF active = g THEN None ELSE active

Finish(g) ==
  /\ TaskIn(g, {"ended"})
  /\ active' = WithoutTask(g)
  /\ task' = [task EXCEPT ![g] = Finished]
  /\ UNCHANGED <<rows, retiring, generations, runtime, lifecycle, reload, drained, call, raced>>

-----------------------------------------------------------------------------
(* ForwardManager::start                                                   *)

Enter(c) ==
  /\ At(c, "enter")
  /\ call' = [call EXCEPT ![c].pc = "look", ![c].life = lifecycle]
  /\ UNCHANGED <<rows, manager, runtime, raced>>

(* A forward that runs is left alone; a retiring one must have finished.   *)
Look(c) ==
  /\ At(c, "look")
  /\ \/ active # None /\ Return(c)
     \/ active = None /\ retiring = None /\ Goes(c, "insert")
     \/ /\ active = None /\ retiring # None
        /\ call' = [call EXCEPT ![c].pc = "wait", ![c].gen = retiring]
  /\ UNCHANGED <<rows, manager, runtime, raced>>

(* wait_finished and clear_retiring                                        *)
ClearRetiring(g) == retiring' = IF retiring = g THEN None ELSE retiring

Wait(c) ==
  /\ At(c, "wait")
  /\ TaskIn(call[c].gen, {"finished"})
  /\ ClearRetiring(call[c].gen)
  /\ Goes(c, "look")
  /\ UNCHANGED <<rows, active, generations, task, lifecycle, reload, drained, runtime, raced>>

AlwaysInTime(c) == TRUE         \* a fault: a page load is not noticed

InTime(c) == lifecycle = call[c].life

TooLate(c) ==
  /\ At(c, "insert")
  /\ active # None \/ ~InTime(c)
  /\ Return(c)
  /\ UNCHANGED <<rows, manager, runtime, raced>>

(* An import that has already listed the running forwards, and a row that  *)
(* has changed since the call read it, are what a start can race with.     *)
Behind(c) == call[c].spec # row \/ \E i \in Caller : At(i, "commit")

Insert(c) ==
  /\ At(c, "insert")
  /\ active = None /\ InTime(c)
  /\ generations < MaxGenerations
  /\ generations' = generations + 1
  /\ active' = generations'
  /\ task' = [task EXCEPT ![generations'] =
       [pc |-> "inserted", spec |-> call[c].spec, told |-> FALSE,
        life |-> call[c].life, ready |-> FALSE]]
  /\ call' = [call EXCEPT ![c].pc = "announce", ![c].gen = generations']
  /\ raced' = (raced \/ Behind(c))
  /\ UNCHANGED <<rows, retiring, lifecycle, reload, drained, runtime>>

(* Report the start, then spawn the task.                                  *)
Announce(c) ==
  /\ At(c, "announce")
  /\ Emit("starting", call[c].gen)
  /\ task' = [task EXCEPT ![call[c].gen].pc = "connecting"]
  /\ Goes(c, "await")
  /\ UNCHANGED <<rows, active, retiring, generations, lifecycle, reload, drained, raced>>

Ready(c) ==
  /\ At(c, "await")
  /\ task[call[c].gen].ready \/ TaskIn(call[c].gen, {"finished"})
  /\ Return(c)
  /\ UNCHANGED <<rows, manager, runtime, raced>>

-----------------------------------------------------------------------------
(* stop, stop_if_spec and the commands built on them.                      *)

(* retire: a reconciliation only stops the forward it has compared.        *)
RetiresAny(c) == active # None  \* a fault: the spec is not compared

Retires(c) ==
  active # None /\ (call[c].cmd = "import" => task[active].spec = call[c].old)

(* What a command does once stop has returned whether it found a task.     *)
AfterStop(c, found) ==
  LET cmd == call[c].cmd IN
  \/ cmd = "stop" /\ found /\ Return(c)
  \/ cmd = "stop" /\ ~found /\ Goes(c, "report")
  \/ cmd = "update" /\ call[c].was /\ (Goes(c, "enter") \/ Goes(c, "fail"))
  \/ cmd = "update" /\ ~call[c].was /\ Goes(c, "report")
  \/ cmd = "delete" /\ Goes(c, "forget")
  \/ cmd = "import" /\ found /\ Goes(c, "forget")
  \/ cmd = "import" /\ ~found /\ Return(c)

Retire(c) ==
  /\ At(c, "stop")
  /\ Retires(c)
  /\ active' = None /\ retiring' = active
  /\ task' = [task EXCEPT ![active].told = TRUE]
  /\ call' = [call EXCEPT ![c].pc = "finishing", ![c].gen = active]
  /\ UNCHANGED <<rows, generations, lifecycle, reload, drained, runtime, raced>>

NothingToStop(c) ==
  /\ At(c, "stop")
  /\ ~Retires(c)
  /\ AfterStop(c, FALSE)
  /\ UNCHANGED <<rows, manager, runtime, raced>>

Stopped(c) ==
  /\ At(c, "finishing")
  /\ TaskIn(call[c].gen, {"finished"})
  /\ ClearRetiring(call[c].gen)
  /\ AfterStop(c, TRUE)
  /\ UNCHANGED <<rows, active, generations, task, lifecycle, reload, drained, runtime, raced>>

ReportStopped(c) ==
  /\ At(c, "report")
  /\ Emit("stopped", None)
  /\ Return(c)
  /\ UNCHANGED <<rows, manager, raced>>

ReportError(c) ==
  /\ At(c, "fail")
  /\ Emit("error", None)
  /\ Return(c)
  /\ UNCHANGED <<rows, manager, raced>>

(* forget, and for a reconciled forward what its row says now.  Nothing is *)
(* reported when the row is gone, or its host.                             *)
Forget(c) ==
  /\ At(c, "forget")
  /\ runtime' = NoEvent
  /\ \/ call[c].cmd = "delete" /\ Return(c)
     \/ call[c].cmd = "import" /\ call[c].spec \in {Deleted, Broken} /\ Return(c)
     \/ call[c].cmd = "import" /\ call[c].spec = Broken /\ Goes(c, "fail")
     \/ call[c].cmd = "import" /\ call[c].spec > 0 /\ Goes(c, "enter")
  /\ UNCHANGED <<rows, manager, raced>>

-----------------------------------------------------------------------------
(* The commands begin, if there is room for the task each may start.       *)

Room == generations + Cardinality({c \in Caller : ~At(c, "idle")}) < MaxGenerations

Begins(c, cmd, pc, spec) ==
  call' = [call EXCEPT ![c] = [NoCall EXCEPT !.cmd = cmd, !.pc = pc, !.spec = spec]]

(* forward_start, start_auto_forwards: read the row and build the spec.    *)
StartCommand(c) ==
  /\ At(c, "idle") /\ row # Deleted
  /\ Begins(c, "start", "enter", row) \/ Begins(c, "start", "fail", Broken)
  /\ UNCHANGED <<rows, manager, runtime, raced>>

StopCommand(c) ==
  /\ At(c, "idle") /\ row # Deleted
  /\ Begins(c, "stop", "stop", 0)
  /\ UNCHANGED <<rows, manager, runtime, raced>>

(* forwards_update: notes whether the forward runs, changes the row, stops *)
(* the forward and starts it again if it ran.                              *)
UpdateCommand(c) ==
  /\ At(c, "idle") /\ edits < MaxEdits
  /\ call' = [call EXCEPT ![c] =
       [NoCall EXCEPT !.cmd = "update", !.pc = "edit", !.was = (active # None)]]
  /\ UNCHANGED <<rows, manager, runtime, raced>>

UpdateRow(c) ==
  /\ At(c, "edit")
  /\ \/ /\ row # Deleted /\ edits < MaxEdits
        /\ edits' = edits + 1 /\ row' = edits'
        /\ call' = [call EXCEPT ![c].pc = "stop", ![c].spec = row']
     \/ (row = Deleted \/ edits = MaxEdits) /\ Return(c) /\ UNCHANGED rows
  /\ UNCHANGED <<manager, runtime, raced>>

DeleteCommand(c) ==
  /\ At(c, "idle") /\ row # Deleted
  /\ row' = Deleted
  /\ Begins(c, "delete", "stop", 0)
  /\ UNCHANGED <<edits, manager, runtime, raced>>

(* A sync merge or restore: notes the specs of the running forwards,       *)
(* changes rows in a transaction, and reconciles what it has noted if the  *)
(* transaction succeeds.                                                   *)
OnlyConnected ==                \* a fault: what is still connecting is not noted
  IF active # None /\ TaskIn(active, {"active"}) THEN task[active].spec ELSE Deleted

ActiveSpec == IF active # None THEN task[active].spec ELSE Deleted

ImportCommand(c) ==
  /\ At(c, "idle") /\ edits < MaxEdits
  /\ call' = [call EXCEPT ![c] =
       [NoCall EXCEPT !.cmd = "import", !.pc = "commit", !.old = ActiveSpec]]
  /\ UNCHANGED <<rows, manager, runtime, raced>>

ImportCommit(c) ==
  /\ At(c, "commit")
  /\ \/ UNCHANGED rows
     \/ row' = Deleted /\ UNCHANGED edits
     \/ edits < MaxEdits /\ edits' = edits + 1 /\ row' = edits'
  /\ \/ call[c].old # Deleted /\ Goes(c, "check")
     \/ (call[c].old = Deleted \/ UNCHANGED rows) /\ Return(c)
  /\ UNCHANGED <<manager, runtime, raced>>

(* reconcile_running_forwards                                              *)
Check(c) ==
  /\ At(c, "check")
  /\ \/ row = call[c].old /\ Return(c)
     \/ row # call[c].old /\ call' = [call EXCEPT ![c].pc = "stop", ![c].spec = row]
     \/ row # Deleted /\ call' = [call EXCEPT ![c].pc = "stop", ![c].spec = Broken]
  /\ UNCHANGED <<rows, manager, runtime, raced>>

-----------------------------------------------------------------------------
(* stop_all, when a page load begins and when the app exits.               *)

Bump ==
  /\ reload = "idle" /\ lifecycle < MaxReloads
  /\ lifecycle' = lifecycle + 1
  /\ reload' = "drain"
  /\ UNCHANGED <<rows, active, retiring, generations, task, drained, call, runtime, raced>>

Drain ==
  /\ reload = "drain"
  /\ active' = None /\ drained' = active
  /\ reload' = "retire"
  /\ UNCHANGED <<rows, retiring, generations, task, lifecycle, call, runtime, raced>>

RetireUntold ==                 \* a fault: the shutdown signal is not sent
  /\ reload = "retire"
  /\ retiring' = IF drained = None THEN retiring ELSE drained
  /\ drained' = None
  /\ reload' = "idle"
  /\ UNCHANGED <<rows, active, generations, task, lifecycle, call, runtime, raced>>

RetireDrained ==
  /\ reload = "retire"
  /\ IF drained = None THEN UNCHANGED <<task, retiring>>
     ELSE /\ task' = [task EXCEPT ![drained].told = TRUE]
          /\ retiring' = drained
  /\ drained' = None
  /\ reload' = "idle"
  /\ UNCHANGED <<rows, active, generations, lifecycle, call, runtime, raced>>

StopAll == Bump \/ Drain \/ RetireDrained

-----------------------------------------------------------------------------
Begin(c) ==
  /\ Room
  /\ \/ StartCommand(c) \/ StopCommand(c) \/ UpdateCommand(c) \/ DeleteCommand(c)
     \/ ImportCommand(c)

GoOn(c) ==
  \/ Enter(c) \/ Look(c) \/ Wait(c) \/ TooLate(c) \/ Insert(c) \/ Announce(c) \/ Ready(c)
  \/ Retire(c) \/ NothingToStop(c) \/ Stopped(c)
  \/ ReportStopped(c) \/ ReportError(c) \/ Forget(c)
  \/ UpdateRow(c) \/ ImportCommit(c) \/ Check(c)

Serve(g) == Established(g) \/ CannotStart(g) \/ Lost(g) \/ Halt(g) \/ Finish(g)

Next ==
  \/ \E c \in Caller : Begin(c) \/ GoOn(c)
  \/ \E g \in Generation : Serve(g)
  \/ StopAll

Spec == Init /\ [][Next]_vars

-----------------------------------------------------------------------------
(* Properties.                                                             *)

TaskRecord ==
  [pc : TaskState, spec : Int, told : BOOLEAN, life : Nat, ready : BOOLEAN]
CallRecord ==
  [cmd : {"none", "start", "stop", "update", "delete", "import"}, pc : CallState,
   spec : Int, old : Int, gen : {None} \cup Generation, life : Nat, was : BOOLEAN]

(* Every variable has the shape the code gives it.                         *)
TypeOK ==
  /\ row \in Nat /\ edits \in Nat
  /\ active \in {None} \cup Generation /\ retiring \in {None} \cup Generation
  /\ drained \in {None} \cup Generation
  /\ generations \in 0 .. MaxGenerations
  /\ task \in [Generation -> TaskRecord]
  /\ runtime \in Event
  /\ lifecycle \in Nat /\ reload \in {"idle", "drain", "retire"}
  /\ call \in [Caller -> CallRecord]
  /\ raced \in BOOLEAN

AtWork(g) == TaskIn(g, {"inserted"} \cup Running)

(* No task gets lost: whichever calls cross each other, a task that has    *)
(* not been told to shut down is still in the active map, where stop finds *)
(* it, or in the hands of stop_all.                                        *)
NoLeak ==
  \A g \in Generation : AtWork(g) /\ ~task[g].told => g \in {active, drained}

(* A page load ends every forward, also one whose start was under way and  *)
(* enters the active map only afterwards.                                  *)
ReloadEndsAll ==
  reload = "idle" =>
    \A g \in Generation : AtWork(g) /\ ~task[g].told => task[g].life = lifecycle

(* What is reported as starting, active or reconnecting has a task that    *)
(* is: the last word about a task is that it stopped or failed.            *)
StatusHasOwner ==
  runtime.status \in LiveStatus => runtime.gen # None /\ TaskIn(runtime.gen, Running)

(* When the calls are through, a forward runs as its row says, unless its  *)
(* start got in behind a change of the row.                                *)
QuietIsFresh ==
  /\ ~raced /\ reload = "idle" /\ active # None
  /\ \A c \in Caller : call[c].pc \in {"idle", "await"}
  => task[active].spec = row

(* Reconciling after an import never stops a forward that already runs as  *)
(* its row says.                                                           *)
ReconcileSparesCurrent ==
  [][\A c \in Caller :
       call[c].cmd = "import" /\ call[c].spec # Broken
         /\ At(c, "stop") /\ call'[c].pc = "finishing"
       => task[active].spec # row]_vars

=============================================================================
