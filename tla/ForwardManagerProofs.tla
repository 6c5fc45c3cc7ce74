------------------------ MODULE ForwardManagerProofs ------------------------
(***************************************************************************)
(* Theorems about port forwards, for any threads and any number of starts, *)
(* changes and page loads.                                                 *)
(***************************************************************************)
EXTENDS ForwardManager, TLAPS

-----------------------------------------------------------------------------
(* What a step may write keeps its type.                                   *)

CallType == call \in [Caller -> CallRecord]
TaskType == task \in [Generation -> TaskRecord]

LEMMA NoCallType == NoCall \in CallRecord
  BY DEF NoCall, CallRecord, CallState, None

LEMMA GoesType ==
  ASSUME CallType, NEW c \in Caller, NEW pc \in CallState, Goes(c, pc)
  PROVE  CallType'
  BY DEF CallType, Goes, CallRecord

LEMMA ReturnType ==
  ASSUME CallType, NEW c \in Caller, Return(c)
  PROVE  CallType'
  BY NoCallType DEF CallType, Return

LEMMA BecomesType ==
  ASSUME CallType, NEW c \in Caller, NEW r \in CallRecord, call' = [call EXCEPT ![c] = r]
  PROVE  CallType'
  BY DEF CallType

LEMMA BeginsType ==
  ASSUME CallType, NEW c \in Caller, NEW spec \in Int,
         NEW cmd \in {"none", "start", "stop", "update", "delete", "import"},
         NEW pc \in CallState, Begins(c, cmd, pc, spec)
  PROVE  CallType'
  <1>1. [NoCall EXCEPT !.cmd = cmd, !.pc = pc, !.spec = spec] \in CallRecord
    BY NoCallType DEF CallRecord
  <1>2. QED
    BY <1>1 DEF CallType, Begins

LEMMA TargetType ==
  ASSUME CallType, NEW c \in Caller, NEW spec \in Int
  PROVE  [call EXCEPT ![c].pc = "stop", ![c].spec = spec] \in [Caller -> CallRecord]
  <1>1. "stop" \in CallState
    BY DEF CallState
  <1>2. [call[c] EXCEPT !.pc = "stop", !.spec = spec] \in CallRecord
    BY <1>1 DEF CallType, CallRecord
  <1>3. QED
    BY <1>2 DEF CallType

LEMMA PcType ==
  ASSUME TaskType, NEW g \in Generation, NEW pc \in TaskState,
         task' = [task EXCEPT ![g].pc = pc]
  PROVE  TaskType'
  BY DEF TaskType, TaskRecord

LEMMA ReadyType ==
  ASSUME TaskType, NEW g \in Generation, NEW pc \in TaskState,
         task' = [task EXCEPT ![g].pc = pc, ![g].ready = TRUE]
  PROVE  TaskType'
  BY DEF TaskType, TaskRecord

LEMMA ToldType ==
  ASSUME TaskType, NEW g \in Generation, task' = [task EXCEPT ![g].told = TRUE]
  PROVE  TaskType'
  BY DEF TaskType, TaskRecord

LEMMA FinishedType == Finished \in TaskRecord
  <1>1. Unborn \in TaskRecord /\ "finished" \in TaskState
    BY DEF Unborn, TaskRecord, TaskState
  <1>2. QED
    BY <1>1 DEF Finished, TaskRecord

LEMMA EmitType ==
  ASSUME NEW status \in {"error", "stopped"} \cup LiveStatus,
         NEW g \in {None} \cup Generation, Emit(status, g)
  PROVE  runtime' \in Event
  BY DEF Emit, Event

LEMMA AfterStopType ==
  ASSUME CallType, NEW c \in Caller, NEW found \in BOOLEAN, AfterStop(c, found)
  PROVE  CallType'
  <1>1. {"report", "enter", "fail", "forget"} \subseteq CallState
    BY DEF CallState
  <1>2. QED
    BY <1>1, GoesType, ReturnType DEF AfterStop

-----------------------------------------------------------------------------
(* Type correctness, one step of the proof for each action.                *)

LEMMA InitType == Init => TypeOK
  <1>1. Unborn \in TaskRecord /\ NoEvent \in Event
    BY DEF Unborn, TaskRecord, TaskState, NoEvent, Event, None
  <1>2. Init => generations \in 0 .. MaxGenerations
    BY ForwardAssumption DEF Init
  <1>3. Init => CallType /\ TaskType
    BY <1>1, NoCallType DEF Init, CallType, TaskType
  <1>4. Init => row \in Nat /\ edits \in Nat /\ lifecycle \in Nat /\ raced \in BOOLEAN
    <2>1. Init => row = 1 /\ edits = 1 /\ lifecycle = 0
      BY DEF Init
    <2>2. Init => raced \in BOOLEAN
      BY DEF Init
    <2>3. QED
      BY <2>1, <2>2
  <1>5. Init => /\ active \in {None} \cup Generation /\ retiring \in {None} \cup Generation
                /\ drained \in {None} \cup Generation
                /\ runtime \in Event /\ reload \in {"idle", "drain", "retire"}
    BY <1>1 DEF Init
  <1>6. QED
    BY <1>2, <1>3, <1>4, <1>5 DEF TypeOK, CallType, TaskType

LEMMA ServeTypes ==
  ASSUME TypeOK, NEW g \in Generation, Serve(g)
  PROVE  TypeOK'
  <1>0. TaskType /\ {"ended", "active", "retrying"} \subseteq TaskState
    BY DEF TypeOK, TaskType, TaskState, Running
  <1>1. CASE Established(g)
    <2>1. TaskType' /\ runtime' \in Event
      BY <1>0, <1>1, ReadyType, EmitType DEF Established, LiveStatus
    <2>2. QED
      BY <1>1, <2>1 DEF Established, TypeOK, TaskType, rows
  <1>2. CASE CannotStart(g)
    <2>1. TaskType' /\ runtime' \in Event
      BY <1>0, <1>2, ReadyType, EmitType DEF CannotStart, Ends
    <2>2. QED
      BY <1>2, <2>1 DEF CannotStart, TypeOK, TaskType, rows
  <1>3. CASE Lost(g)
    <2>1. TaskType' /\ runtime' \in Event
      BY <1>0, <1>3, PcType, EmitType DEF Lost, LiveStatus
    <2>2. QED
      BY <1>3, <2>1 DEF Lost, TypeOK, TaskType, rows
  <1>4. CASE Halt(g)
    <2>1. TaskType' /\ runtime' \in Event
      BY <1>0, <1>4, ReadyType, EmitType DEF Halt, Ends
    <2>2. QED
      BY <1>4, <2>1 DEF Halt, TypeOK, TaskType, rows
  <1>5. CASE Finish(g)
    <2>1. TaskType'
      BY <1>0, <1>5, FinishedType DEF Finish, TaskType
    <2>2. QED
      BY <1>5, <2>1 DEF Finish, WithoutTask, TypeOK, TaskType, rows
  <1>6. QED
    BY <1>1, <1>2, <1>3, <1>4, <1>5 DEF Serve

LEMMA StopAllTypes ==
  ASSUME TypeOK, StopAll
  PROVE  TypeOK'
  <1>1. CASE Bump
    BY <1>1 DEF Bump, TypeOK, rows
  <1>2. CASE Drain
    BY <1>2 DEF Drain, TypeOK, rows
  <1>3. CASE RetireDrained
    <2>1. TaskType'
      BY <1>3, ToldType DEF RetireDrained, TypeOK, TaskType
    <2>2. QED
      BY <1>3, <2>1 DEF RetireDrained, TypeOK, TaskType, rows
  <1>4. QED
    BY <1>1, <1>2, <1>3 DEF StopAll

(* The steps of a call that leave the manager and the rows alone.          *)
LEMMA CallOnlyTypes ==
  ASSUME TypeOK, CallType', UNCHANGED <<rows, manager, raced>>,
         runtime' \in Event
  PROVE  TypeOK'
  BY DEF TypeOK, CallType, rows, manager

LEMMA StartTypes ==
  ASSUME TypeOK, NEW c \in Caller,
         Enter(c) \/ Look(c) \/ Wait(c) \/ TooLate(c) \/ Insert(c) \/ Announce(c) \/ Ready(c)
  PROVE  TypeOK'
  <1>0. /\ CallType /\ TaskType /\ runtime \in Event
        /\ {"look", "insert", "wait", "announce", "await"} \subseteq CallState
        /\ call[c] \in CallRecord /\ lifecycle \in Nat
    BY DEF TypeOK, CallType, TaskType, CallState
  <1>1. CASE Enter(c)
    <2>1. CallType'
      BY <1>0, <1>1 DEF Enter, CallType, CallRecord
    <2>2. QED
      BY <1>0, <1>1, <2>1, CallOnlyTypes DEF Enter
  <1>2. CASE Look(c)
    <2>1. CASE active = None /\ retiring # None
                /\ call' = [call EXCEPT ![c].pc = "wait", ![c].gen = retiring]
      <3>1. CallType'
        BY <1>0, <2>1 DEF TypeOK, CallType, CallRecord
      <3>2. QED
        BY <1>0, <1>2, <3>1, CallOnlyTypes DEF Look
    <2>2. CallType'
      BY <1>0, <1>2, <2>1, GoesType, ReturnType DEF Look, TypeOK, CallType, CallRecord
    <2>3. QED
      BY <1>0, <1>2, <2>2, CallOnlyTypes DEF Look
  <1>3. CASE Wait(c)
    <2>1. CallType'
      BY <1>0, <1>3, GoesType DEF Wait
    <2>2. QED
      BY <1>3, <2>1 DEF Wait, ClearRetiring, TypeOK, CallType, rows
  <1>4. CASE TooLate(c)
    BY <1>0, <1>4, ReturnType, CallOnlyTypes DEF TooLate
  <1>5. CASE Insert(c)
    <2>1. generations' \in Generation /\ generations' \in 0 .. MaxGenerations
      BY <1>5, ForwardAssumption DEF Insert, TypeOK, Generation
    <2>2. CallType'
      BY <1>0, <1>5, <2>1 DEF Insert, CallType, CallRecord
    <2>3. TaskType'
      <3>1. [pc |-> "inserted", spec |-> call[c].spec, told |-> FALSE,
             life |-> call[c].life, ready |-> FALSE] \in TaskRecord
        BY <1>0 DEF CallRecord, TaskRecord, TaskState
      <3>2. QED
        BY <1>0, <1>5, <2>1, <3>1 DEF Insert, TaskType
    <2>4. raced' \in BOOLEAN
      BY <1>5 DEF Insert, Behind, TypeOK
    <2>5. QED
      BY <1>5, <2>1, <2>2, <2>3, <2>4 DEF Insert, TypeOK, CallType, TaskType, rows
  <1>6. CASE Announce(c)
    <2>1. CallType'
      BY <1>0, <1>6, GoesType DEF Announce
    <2>2. runtime' \in Event
      BY <1>0, <1>6, EmitType DEF Announce, CallRecord, LiveStatus
    <2>3. TaskType'
      BY <1>0, <1>6 DEF Announce, TaskType, TaskRecord, TaskState, Running
    <2>4. QED
      BY <1>6, <2>1, <2>2, <2>3 DEF Announce, TypeOK, CallType, TaskType, rows
  <1>7. CASE Ready(c)
    BY <1>0, <1>7, ReturnType, CallOnlyTypes DEF Ready
  <1>8. QED
    BY <1>1, <1>2, <1>3, <1>4, <1>5, <1>6, <1>7

LEMMA StopTypes ==
  ASSUME TypeOK, NEW c \in Caller,
         \/ Retire(c) \/ NothingToStop(c) \/ Stopped(c)
         \/ ReportStopped(c) \/ ReportError(c) \/ Forget(c)
  PROVE  TypeOK'
  <1>0. /\ CallType /\ TaskType /\ runtime \in Event
        /\ {"finishing", "fail", "enter"} \subseteq CallState
    BY DEF TypeOK, CallType, TaskType, CallState
  <1>1. CASE Retire(c)
    <2>1. active \in Generation
      BY <1>1 DEF Retire, Retires, TypeOK
    <2>2. CallType' /\ TaskType'
      BY <1>0, <1>1, <2>1, ToldType DEF Retire, CallType, CallRecord
    <2>3. QED
      BY <1>1, <2>1, <2>2 DEF Retire, TypeOK, CallType, TaskType, rows
  <1>2. CASE NothingToStop(c)
    BY <1>0, <1>2, AfterStopType, CallOnlyTypes DEF NothingToStop
  <1>3. CASE Stopped(c)
    <2>1. CallType'
      BY <1>0, <1>3, AfterStopType DEF Stopped
    <2>2. QED
      BY <1>3, <2>1 DEF Stopped, ClearRetiring, TypeOK, CallType, rows
  <1>4. CASE ReportStopped(c)
    BY <1>0, <1>4, EmitType, ReturnType, CallOnlyTypes DEF ReportStopped
  <1>5. CASE ReportError(c)
    BY <1>0, <1>5, EmitType, ReturnType, CallOnlyTypes DEF ReportError
  <1>6. CASE Forget(c)
    <2>1. CallType'
      BY <1>0, <1>6, GoesType, ReturnType DEF Forget
    <2>2. runtime' \in Event
      BY <1>6 DEF Forget, NoEvent, Event
    <2>3. QED
      BY <1>6, <2>1, <2>2, CallOnlyTypes DEF Forget
  <1>7. QED
    BY <1>1, <1>2, <1>3, <1>4, <1>5, <1>6

LEMMA CommandTypes ==
  ASSUME TypeOK, NEW c \in Caller,
         Begin(c) \/ UpdateRow(c) \/ ImportCommit(c) \/ Check(c)
  PROVE  TypeOK'
  <1>0. /\ CallType /\ TaskType /\ runtime \in Event
        /\ {"enter", "fail", "stop", "edit", "commit", "check"} \subseteq CallState
        /\ row \in Int /\ Broken \in Int /\ Deleted \in Nat
        /\ call[c] \in CallRecord
    BY DEF TypeOK, CallType, TaskType, CallState, Broken, Deleted
  <1>1. CASE StartCommand(c)
    BY <1>0, <1>1, BeginsType, CallOnlyTypes DEF StartCommand
  <1>2. CASE StopCommand(c)
    BY <1>0, <1>2, BeginsType, CallOnlyTypes DEF StopCommand
  <1>3. CASE UpdateCommand(c)
    <2>1. [NoCall EXCEPT !.cmd = "update", !.pc = "edit", !.was = (active # None)]
            \in CallRecord
      BY <1>0, NoCallType DEF CallRecord
    <2>2. QED
      BY <1>0, <1>3, <2>1, BecomesType, CallOnlyTypes DEF UpdateCommand
  <1>4. CASE DeleteCommand(c)
    <2>1. CallType'
      BY <1>0, <1>4, BeginsType DEF DeleteCommand
    <2>2. QED
      BY <1>0, <1>4, <2>1 DEF DeleteCommand, TypeOK, CallType, manager
  <1>5. CASE ImportCommand(c)
    <2>1. ActiveSpec \in Int
      BY <1>0 DEF ActiveSpec, TypeOK, TaskRecord
    <2>2. [NoCall EXCEPT !.cmd = "import", !.pc = "commit", !.old = ActiveSpec]
            \in CallRecord
      BY <1>0, <2>1, NoCallType DEF CallRecord
    <2>3. QED
      BY <1>0, <1>5, <2>2, BecomesType, CallOnlyTypes DEF ImportCommand
  <1>6. CASE UpdateRow(c)
    <2>1. CASE Return(c) /\ UNCHANGED rows
      BY <1>0, <1>6, <2>1, ReturnType, CallOnlyTypes DEF UpdateRow
    <2>2. CASE /\ edits' = edits + 1 /\ row' = edits'
               /\ call' = [call EXCEPT ![c].pc = "stop", ![c].spec = row']
      <3>1. row' \in Nat /\ edits' \in Nat
        BY <2>2 DEF TypeOK
      <3>2. CallType'
        <4>1. [call EXCEPT ![c].pc = "stop", ![c].spec = row'] \in [Caller -> CallRecord]
          BY <1>0, <3>1, TargetType
        <4>2. QED
          BY <2>2, <4>1 DEF CallType
      <3>3. QED
        BY <1>6, <3>1, <3>2 DEF UpdateRow, TypeOK, CallType, manager
    <2>3. QED
      BY <1>6, <2>1, <2>2 DEF UpdateRow
  <1>7. CASE ImportCommit(c)
    <2>1. CallType'
      BY <1>0, <1>7, GoesType, ReturnType DEF ImportCommit
    <2>2. row' \in Nat /\ edits' \in Nat
      BY <1>0, <1>7 DEF ImportCommit, TypeOK, rows
    <2>3. QED
      BY <1>7, <2>1, <2>2 DEF ImportCommit, TypeOK, CallType, manager
  <1>8. CASE Check(c)
    <2>1. CallType'
      <3>1. CASE Return(c)
        BY <1>0, <3>1, ReturnType
      <3>2. CASE call' = [call EXCEPT ![c].pc = "stop", ![c].spec = row]
        BY <1>0, <3>2, TargetType DEF CallType
      <3>3. CASE call' = [call EXCEPT ![c].pc = "stop", ![c].spec = Broken]
        BY <1>0, <3>3, TargetType DEF CallType
      <3>4. QED
        BY <1>8, <3>1, <3>2, <3>3 DEF Check
    <2>2. QED
      BY <1>0, <1>8, <2>1, CallOnlyTypes DEF Check
  <1>9. QED
    BY <1>1, <1>2, <1>3, <1>4, <1>5, <1>6, <1>7, <1>8 DEF Begin

LEMMA TypeStep ==
  ASSUME TypeOK, [Next]_vars
  PROVE  TypeOK'
  <1>1. ASSUME NEW c \in Caller, Begin(c) \/ GoOn(c) PROVE TypeOK'
    BY <1>1, StartTypes, StopTypes, CommandTypes DEF GoOn
  <1>2. CASE UNCHANGED vars
    BY <1>2 DEF vars, TypeOK
  <1>3. QED
    BY <1>1, <1>2, ServeTypes, StopAllTypes DEF Next

(* The variables keep their types: a generation is one that was given out  *)
(* room for, a call never leaves the states the code has.                  *)
THEOREM TypeCorrect == Spec => []TypeOK
  <1>1. QED
    BY InitType, TypeStep, PTL DEF Spec


-----------------------------------------------------------------------------
(* The inductive invariant about tasks.                                    *)

(* Generations are given out once and in order.                            *)
FreshGenerations ==
  /\ \A g \in Generation : g > generations => task[g].pc = "unborn"
  /\ active <= generations /\ drained <= generations

(* Between its insertion and its spawn a task belongs to one call.         *)
Announcing ==
  /\ \A c \in Caller : At(c, "announce") =>
       call[c].gen \in Generation /\ TaskIn(call[c].gen, {"inserted"})
  /\ \A c, d \in Caller :
       c # d /\ At(c, "announce") /\ At(d, "announce") => call[c].gen # call[d].gen

(* Once stop_all has emptied the active map, what is in it was started     *)
(* since.                                                                  *)
StartedSince ==
  /\ drained # None => reload = "retire"
  /\ reload # "drain" /\ active # None /\ AtWork(active) => task[active].life = lifecycle

Inv == TypeOK /\ FreshGenerations /\ Announcing /\ NoLeak /\ StartedSince /\ StatusHasOwner

LEMMA InitInv == Init => Inv
  <1> SUFFICES ASSUME Init PROVE Inv
    OBVIOUS
  <1>1. /\ active = 0 /\ drained = 0 /\ generations = 0 /\ runtime.status = "none"
        /\ \A g \in Generation : task[g].pc = "unborn"
        /\ \A c \in Caller : call[c].pc = "idle"
    BY DEF Init, Unborn, NoCall, NoEvent, None
  <1>2. FreshGenerations /\ Announcing /\ NoLeak /\ StatusHasOwner
    BY <1>1 DEF FreshGenerations, Announcing, NoLeak, AtWork, StatusHasOwner, At, TaskIn,
                Running, LiveStatus
  <1>3. StartedSince
    BY <1>1 DEF StartedSince, None
  <1>4. QED
    BY <1>2, <1>3, InitType DEF Inv

(* No call gets to the point between insertion and spawn by this step.     *)
NoneInserts ==
  \A d \in Caller : call'[d].pc = "announce" => call'[d] = call[d]

LEMMA GoesQuietly ==
  ASSUME CallType, NEW c \in Caller, NEW pc \in CallState \ {"announce"}, Goes(c, pc)
  PROVE  NoneInserts
  BY DEF NoneInserts, CallType, CallRecord, Goes

LEMMA ReturnQuietly ==
  ASSUME CallType, NEW c \in Caller, Return(c)
  PROVE  NoneInserts
  BY DEF NoneInserts, CallType, Return, NoCall

LEMMA BeginsQuietly ==
  ASSUME CallType, NEW c \in Caller, NEW cmd, NEW spec,
         NEW pc \in CallState \ {"announce"}, Begins(c, cmd, pc, spec)
  PROVE  NoneInserts
  BY DEF NoneInserts, CallType, Begins, NoCall

(* A step of a call that leaves the tasks and the active map alone and     *)
(* reports nothing but an end.                                             *)
LEMMA BystanderInv ==
  ASSUME Inv, TypeOK', UNCHANGED <<active, generations, task, lifecycle, reload, drained>>,
         runtime' = runtime \/ runtime'.status \notin LiveStatus,
         NoneInserts
  PROVE  Inv'
  <1>1. FreshGenerations' /\ NoLeak' /\ StartedSince'
    BY DEF Inv, FreshGenerations, NoLeak, StartedSince, AtWork, TaskIn
  <1>2. StatusHasOwner'
    BY DEF Inv, StatusHasOwner, TaskIn
  <1>3. Announcing'
    BY DEF Inv, Announcing, NoneInserts, At, TaskIn
  <1>4. QED
    BY <1>1, <1>2, <1>3 DEF Inv

LEMMA ServeInv ==
  ASSUME Inv, NEW g \in Generation, Serve(g)
  PROVE  Inv'
  <1>0. TypeOK' /\ TaskType /\ g # None
    BY ServeTypes DEF Inv, TypeOK, TaskType, Generation, None
  <1>1. /\ TaskIn(g, {"ended"} \cup Running)
        /\ task'[g].pc \in {"finished", "ended"} \cup Running
        /\ task'[g].pc # "finished" =>
             task'[g].told = task[g].told /\ task'[g].life = task[g].life
        /\ task'[g].pc \in Running => TaskIn(g, Running)
        /\ \A h \in Generation \ {g} : task'[h] = task[h]
    <2>1. CASE Established(g)
      BY <1>0, <2>1 DEF Established, TaskType, TaskRecord, TaskIn, Running
    <2>2. CASE CannotStart(g)
      BY <1>0, <2>2 DEF CannotStart, Ends, TaskType, TaskRecord, TaskIn, Running
    <2>3. CASE Lost(g)
      BY <1>0, <2>3 DEF Lost, TaskType, TaskRecord, TaskIn, Running
    <2>4. CASE Halt(g)
      BY <1>0, <2>4 DEF Halt, Ends, TaskType, TaskRecord, TaskIn, Running
    <2>5. CASE Finish(g)
      BY <1>0, <2>5 DEF Finish, Finished, Unborn, TaskType, TaskRecord, TaskIn, Running
    <2>6. QED
      BY <2>1, <2>2, <2>3, <2>4, <2>5 DEF Serve
  <1>2. /\ active' = active \/ (TaskIn(g, {"ended"}) /\ active = g /\ active' = None)
        /\ UNCHANGED <<generations, lifecycle, reload, drained, call>>
    BY DEF Serve, Established, CannotStart, Lost, Halt, Finish, WithoutTask
  <1>3. \/ runtime' = runtime /\ ~TaskIn(g, Running)
        \/ runtime'.status \notin LiveStatus
        \/ runtime'.gen = g /\ task'[g].pc \in Running
    <2>1. CASE Established(g)
      BY <1>0, <2>1 DEF Established, Emit, TaskType, TaskRecord, Running
    <2>2. CASE CannotStart(g) \/ Halt(g)
      BY <2>2 DEF CannotStart, Halt, Ends, Emit, LiveStatus
    <2>3. CASE Lost(g)
      BY <1>0, <2>3 DEF Lost, Emit, TaskType, TaskRecord, Running
    <2>4. CASE Finish(g)
      BY <2>4 DEF Finish, TaskIn, Running
    <2>5. QED
      BY <2>1, <2>2, <2>3, <2>4 DEF Serve
  <1>4. FreshGenerations'
    BY <1>1, <1>2 DEF Inv, FreshGenerations, TaskIn, Running, TypeOK, None
  <1>5. Announcing'
    BY <1>1, <1>2 DEF Inv, Announcing, At, TaskIn, Running
  <1>6. NoLeak'
    BY <1>1, <1>2 DEF Inv, NoLeak, AtWork, TaskIn, Running
  <1>7. StartedSince'
    BY <1>1, <1>2 DEF Inv, StartedSince, AtWork, TaskIn, Running, TypeOK
  <1>8. StatusHasOwner'
    BY <1>0, <1>1, <1>3 DEF Inv, StatusHasOwner, TaskIn, TypeOK, Event
  <1>9. QED
    BY <1>0, <1>4, <1>5, <1>6, <1>7, <1>8 DEF Inv


LEMMA StopAllInv ==
  ASSUME Inv, StopAll
  PROVE  Inv'
  <1>0. TypeOK' /\ TaskType
    BY StopAllTypes DEF Inv, TypeOK, TaskType
  <1>1. CASE Bump
    <2>1. FreshGenerations' /\ NoLeak'
      BY <1>1 DEF Inv, Bump, FreshGenerations, NoLeak, AtWork, TaskIn
    <2>2. Announcing' /\ StatusHasOwner'
      BY <1>1 DEF Inv, Bump, Announcing, StatusHasOwner, At, TaskIn
    <2>3. StartedSince'
      BY <1>1 DEF Inv, Bump, StartedSince
    <2>4. QED
      BY <1>0, <2>1, <2>2, <2>3 DEF Inv
  <1>2. CASE Drain
    <2>1. FreshGenerations' /\ NoLeak'
      BY <1>2 DEF Inv, TypeOK, Drain, FreshGenerations, NoLeak, StartedSince, AtWork, TaskIn, None
    <2>2. Announcing' /\ StatusHasOwner'
      BY <1>2 DEF Inv, Drain, Announcing, StatusHasOwner, At, TaskIn
    <2>3. StartedSince'
      BY <1>2 DEF Inv, Drain, StartedSince
    <2>4. QED
      BY <1>0, <2>1, <2>2, <2>3 DEF Inv
  <1>3. CASE RetireDrained
    <2>1. \A g \in Generation : /\ task'[g].pc = task[g].pc /\ task'[g].life = task[g].life
                                /\ task[g].told => task'[g].told
                                /\ g = drained => task'[g].told
      <3>1. CASE drained = None
        BY <1>3, <3>1 DEF RetireDrained, Generation, None
      <3>2. CASE drained # None
        <4>1. drained \in Generation /\ TaskType
          BY <3>2 DEF Inv, TypeOK, TaskType
        <4>2. QED
          BY <1>3, <3>2, <4>1 DEF RetireDrained, TaskType, TaskRecord
      <3>3. QED
        BY <3>1, <3>2
    <2>2. FreshGenerations' /\ NoLeak'
      BY <1>3, <2>1 DEF Inv, TypeOK, RetireDrained, FreshGenerations, NoLeak, AtWork, TaskIn, None
    <2>3. Announcing' /\ StatusHasOwner'
      BY <1>3, <2>1 DEF Inv, TypeOK, Event, RetireDrained, Announcing, StatusHasOwner, At, TaskIn
    <2>4. StartedSince'
      BY <1>3, <2>1 DEF Inv, TypeOK, RetireDrained, StartedSince, AtWork, TaskIn
    <2>5. QED
      BY <1>0, <2>2, <2>3, <2>4 DEF Inv
  <1>4. QED
    BY <1>1, <1>2, <1>3 DEF StopAll

LEMMA InsertInv ==
  ASSUME Inv, NEW c \in Caller, Insert(c)
  PROVE  Inv'
  <1> DEFINE new == generations + 1
  <1>0. TypeOK' /\ TaskType /\ CallType
    BY StartTypes DEF Inv, TypeOK, TaskType, CallType
  <1>1. /\ new \in Generation /\ generations' = new /\ active' = new /\ new # None
        /\ task'[new].pc = "inserted" /\ task'[new].life = lifecycle
        /\ \A g \in Generation \ {new} : task'[g] = task[g]
        /\ call'[c].gen = new /\ \A d \in Caller \ {c} : call'[d] = call[d]
        /\ active = None /\ task[new].pc = "unborn"
        /\ UNCHANGED <<lifecycle, reload, drained, runtime>>
    <2>1. new \in Generation /\ new > generations /\ new # None
      BY ForwardAssumption DEF Inv, TypeOK, Insert, Generation, None
    <2>2. generations' = new /\ active' = new /\ active = None
          /\ UNCHANGED <<lifecycle, reload, drained, runtime>>
      BY DEF Insert
    <2>3. task'[new].pc = "inserted" /\ task'[new].life = lifecycle
          /\ \A g \in Generation \ {new} : task'[g] = task[g]
      BY <1>0, <2>1, <2>2 DEF Insert, InTime, TaskType
    <2>4. call'[c].gen = new /\ \A d \in Caller \ {c} : call'[d] = call[d]
      BY <1>0, <2>2 DEF Insert, CallType, CallRecord
    <2>5. QED
      BY <2>1, <2>2, <2>3, <2>4 DEF Inv, FreshGenerations
  <1>2. FreshGenerations'
    BY <1>1 DEF Inv, TypeOK, FreshGenerations, Generation, None
  <1>3. Announcing'
    BY <1>1 DEF Inv, Announcing, At, TaskIn
  <1>4. NoLeak'
    <2>1. \A g \in Generation : g # None
      BY DEF Generation, None
    <2>2. QED
      BY <1>1, <2>1 DEF Inv, NoLeak, AtWork, TaskIn
  <1>5. StartedSince'
    BY <1>1 DEF Inv, StartedSince
  <1>6. StatusHasOwner'
    BY <1>1 DEF Inv, TypeOK, Event, StatusHasOwner, TaskIn, Running
  <1>7. QED
    BY <1>0, <1>2, <1>3, <1>4, <1>5, <1>6 DEF Inv

LEMMA AnnounceInv ==
  ASSUME Inv, NEW c \in Caller, Announce(c)
  PROVE  Inv'
  <1> DEFINE g == call[c].gen
  <1>0. TypeOK' /\ TaskType /\ CallType
    BY StartTypes DEF Inv, TypeOK, TaskType, CallType
  <1>1. g \in Generation /\ g # None /\ task[g].pc = "inserted"
    BY DEF Inv, Announce, Announcing, TaskIn, Generation, None
  <1>2. /\ task'[g].pc = "connecting"
        /\ task'[g].told = task[g].told /\ task'[g].life = task[g].life
        /\ \A h \in Generation \ {g} : task'[h] = task[h]
    BY <1>0, <1>1 DEF Announce, TaskType, TaskRecord
  <1>3. call'[c].pc = "await" /\ \A d \in Caller \ {c} : call'[d] = call[d]
    BY <1>0 DEF Announce, Goes, CallType, CallRecord
  <1>4. FreshGenerations' /\ NoLeak' /\ StartedSince'
    BY <1>1, <1>2 DEF Inv, TypeOK, Announce, FreshGenerations, NoLeak, StartedSince, AtWork,
                      TaskIn, Running
  <1>5. Announcing'
    BY <1>1, <1>2, <1>3 DEF Inv, Announcing, Announce, At, TaskIn
  <1>6. StatusHasOwner'
    BY <1>1, <1>2 DEF Announce, Emit, StatusHasOwner, TaskIn, Running
  <1>7. QED
    BY <1>0, <1>4, <1>5, <1>6 DEF Inv

LEMMA RetireInv ==
  ASSUME Inv, NEW c \in Caller, Retire(c)
  PROVE  Inv'
  <1>0. TypeOK' /\ TaskType /\ CallType
    BY StopTypes DEF Inv, TypeOK, TaskType, CallType
  <1>1. active \in Generation /\ active' = None
        /\ UNCHANGED <<generations, lifecycle, reload, drained, runtime>>
    BY DEF Inv, TypeOK, Retire, Retires
  <1>2. /\ task'[active].told
        /\ \A g \in Generation : /\ task'[g].pc = task[g].pc /\ task'[g].life = task[g].life
                                 /\ task[g].told => task'[g].told
    BY <1>0, <1>1 DEF Retire, TaskType, TaskRecord
  <1>3. call'[c].pc = "finishing" /\ \A d \in Caller \ {c} : call'[d] = call[d]
    BY <1>0 DEF Retire, CallType, CallRecord
  <1>4. FreshGenerations' /\ NoLeak' /\ StartedSince'
    BY <1>1, <1>2 DEF Inv, TypeOK, FreshGenerations, NoLeak, StartedSince, AtWork, TaskIn, None
  <1>5. Announcing' /\ StatusHasOwner'
    BY <1>1, <1>2, <1>3 DEF Inv, TypeOK, Event, Announcing, StatusHasOwner, At, TaskIn
  <1>6. QED
    BY <1>0, <1>4, <1>5 DEF Inv


(* Every other step of a call.                                             *)
LEMMA BystanderSteps ==
  ASSUME Inv, NEW c \in Caller,
         \/ Enter(c) \/ Look(c) \/ Wait(c) \/ TooLate(c) \/ Ready(c)
         \/ NothingToStop(c) \/ Stopped(c)
         \/ ReportStopped(c) \/ ReportError(c) \/ Forget(c)
         \/ Begin(c) \/ UpdateRow(c) \/ ImportCommit(c) \/ Check(c)
  PROVE  Inv'
  <1>0. /\ TypeOK' /\ CallType /\ call[c] \in CallRecord
        /\ CallState \ {"announce"} =
             {"idle", "enter", "look", "wait", "insert", "await", "stop", "finishing",
              "report", "fail", "forget", "edit", "commit", "check"}
    BY StartTypes, StopTypes, CommandTypes DEF Inv, TypeOK, CallType, CallState
  <1>1. UNCHANGED <<active, generations, task, lifecycle, reload, drained>>
    BY DEF Enter, Look, Wait, TooLate, Ready, NothingToStop, Stopped, ReportStopped, ReportError,
           Forget, Begin, StartCommand, StopCommand, UpdateCommand, DeleteCommand, ImportCommand,
           UpdateRow, ImportCommit, Check, manager
  <1>2. runtime' = runtime \/ runtime'.status \notin LiveStatus
    <2>1. CASE ReportStopped(c) \/ ReportError(c)
      BY <2>1 DEF ReportStopped, ReportError, Emit, LiveStatus
    <2>2. CASE Forget(c)
      BY <2>2 DEF Forget, NoEvent, LiveStatus
    <2>3. QED
      BY <2>1, <2>2
      DEF Enter, Look, Wait, TooLate, Ready, NothingToStop, Stopped, Begin, StartCommand,
          StopCommand, UpdateCommand, DeleteCommand, ImportCommand, UpdateRow, ImportCommit, Check
  <1>3. NoneInserts
    <2>1. CASE \E pc \in CallState \ {"announce"} : Goes(c, pc)
      BY <1>0, <2>1, GoesQuietly
    <2>2. CASE Return(c)
      BY <1>0, <2>2, ReturnQuietly
    <2>3. CASE Enter(c)
      BY <1>0, <2>3 DEF Enter, NoneInserts, CallType, CallRecord
    <2>4. CASE Look(c)
      <3>1. CASE call' = [call EXCEPT ![c].pc = "wait", ![c].gen = retiring]
        BY <1>0, <3>1 DEF NoneInserts, CallType, CallRecord
      <3>2. QED
        BY <1>0, <2>1, <2>2, <2>4, <3>1 DEF Look
    <2>5. CASE NothingToStop(c) \/ Stopped(c)
      BY <1>0, <2>1, <2>2, <2>5 DEF NothingToStop, Stopped, AfterStop
    <2>6. CASE Begin(c)
      <3>1. CASE StartCommand(c) \/ StopCommand(c) \/ DeleteCommand(c)
        BY <1>0, <3>1, BeginsQuietly DEF StartCommand, StopCommand, DeleteCommand
      <3>2. CASE UpdateCommand(c) \/ ImportCommand(c)
        BY <1>0, <3>2 DEF UpdateCommand, ImportCommand, NoneInserts, CallType, NoCall
      <3>3. QED
        BY <2>6, <3>1, <3>2 DEF Begin
    <2>7. CASE UpdateRow(c) \/ Check(c)
      <3>1. ASSUME NEW spec, call' = [call EXCEPT ![c].pc = "stop", ![c].spec = spec]
            PROVE  NoneInserts
        BY <1>0, <3>1 DEF NoneInserts, CallType, CallRecord
      <3>2. QED
        BY <2>2, <2>7, <3>1 DEF UpdateRow, Check
    <2>8. QED
      BY <1>0, <2>1, <2>2, <2>3, <2>4, <2>5, <2>6, <2>7
      DEF Wait, TooLate, Ready, ReportStopped, ReportError, Forget, ImportCommit
  <1>4. QED
    BY <1>0, <1>1, <1>2, <1>3, BystanderInv

LEMMA InvStep ==
  ASSUME Inv, [Next]_vars
  PROVE  Inv'
  <1>1. ASSUME NEW c \in Caller, Begin(c) \/ GoOn(c) PROVE Inv'
    BY <1>1, InsertInv, AnnounceInv, RetireInv, BystanderSteps DEF GoOn
  <1>2. CASE UNCHANGED vars
    BY <1>2, TypeStep DEF vars, Inv, FreshGenerations, Announcing, NoLeak, StartedSince,
                          StatusHasOwner, AtWork, At, TaskIn
  <1>3. QED
    BY <1>1, <1>2, ServeInv, StopAllInv DEF Next

LEMMA InvHolds == Spec => []Inv
  <1>1. QED
    BY InitInv, InvStep, PTL DEF Spec

(* No task gets lost: stop or stop_all still has its hands on every task   *)
(* that has not been told to shut down.                                    *)
THEOREM NothingLeaks == Spec => []NoLeak
  <1>1. Inv => NoLeak
    BY DEF Inv
  <1>2. QED
    BY <1>1, InvHolds, PTL

(* After a page load nothing goes on that was begun before it.             *)
THEOREM ReloadIsComplete == Spec => []ReloadEndsAll
  <1>1. ASSUME Inv PROVE ReloadEndsAll
    BY <1>1 DEF Inv, NoLeak, StartedSince, ReloadEndsAll, Generation, None
  <1>2. QED
    BY <1>1, InvHolds, PTL

(* A live status in the interface always has a live task behind it.        *)
THEOREM StatusIsOwned == Spec => []StatusHasOwner
  <1>1. Inv => StatusHasOwner
    BY DEF Inv
  <1>2. QED
    BY <1>1, InvHolds, PTL


-----------------------------------------------------------------------------
(* The invariant about what forwards are to do: rows are numbered in the   *)
(* order of their changes, and what is started was a row once.             *)

Starting == {"enter", "look", "wait", "insert"}

CallOK(c) ==
  /\ call[c].spec <= edits
  /\ call[c].pc \in Starting => call[c].spec > 0
  /\ call[c].cmd = "update" /\ call[c].pc \in {"stop", "finishing"} => call[c].spec > 0
  /\ call[c].pc = "edit" => call[c].cmd = "update"
  /\ call[c].pc \in {"commit", "check"} => call[c].cmd = "import"
  /\ call[c].cmd = "import" => call[c].old <= edits
  /\ call[c].cmd = "import" /\ call[c].pc \in {"check", "stop"} => call[c].old # Deleted
  /\ call[c].cmd = "import" /\ call[c].pc = "stop" /\ call[c].spec # Broken
       => call[c].old # row

Numbered ==
  /\ row <= edits
  /\ \A c \in Caller : CallOK(c)
  /\ \A g \in Generation : task[g].spec <= edits
  /\ active # None => task[active].spec > 0

(* A call that will find that the forward is to be stopped.                *)
WillStop(c, spec) ==
  \/ call[c].pc = "stop" /\ call[c].cmd \in {"update", "delete"}
  \/ call[c].pc \in {"check", "stop"} /\ call[c].cmd = "import" /\ call[c].old = spec

(* Whoever changes the row sees to it that the forward is stopped.         *)
Followed ==
  ~raced /\ active # None =>
    /\ task[active].spec = row \/ \E c \in Caller : WillStop(c, task[active].spec)
    /\ \A c \in Caller : call[c].pc = "commit" => call[c].old = task[active].spec

RowInv == Inv /\ Numbered /\ Followed

LEMMA InitRowInv == Init => RowInv
  <1> SUFFICES ASSUME Init PROVE RowInv
    OBVIOUS
  <1>1. /\ row = 1 /\ edits = 1 /\ active = None
        /\ \A g \in Generation : task[g].spec = 0
        /\ \A c \in Caller : call[c].pc = "idle" /\ call[c].spec = 0 /\ call[c].cmd = "none"
    BY DEF Init, Unborn, NoCall
  <1>2. Numbered /\ Followed
    BY <1>1 DEF Numbered, Followed, CallOK, Starting
  <1>3. QED
    BY <1>2, InitInv DEF RowInv

(* What a step does to the rows.                                           *)
RowsMove ==
  \/ UNCHANGED rows
  \/ row' = Deleted /\ edits' = edits
  \/ row' = edits + 1 /\ edits' = edits + 1

LEMMA OtherCallOK ==
  ASSUME TypeOK, NEW c \in Caller, CallOK(c), RowsMove, call'[c] = call[c]
  PROVE  CallOK(c)'
  <1>1. call[c].spec \in Int /\ call[c].old \in Int /\ edits \in Nat
    BY DEF TypeOK, CallRecord
  <1>2. QED
    BY <1>1 DEF CallOK, RowsMove, rows, Deleted

(* A step that does not touch the row, the call of c excepted.             *)
LEMMA GoesOK ==
  ASSUME TypeOK, NEW c \in Caller, CallOK(c), UNCHANGED rows, NEW pc \in CallState, Goes(c, pc),
         pc \notin {"stop", "finishing", "edit", "commit", "check"},
         pc \in Starting => call[c].spec > 0
  PROVE  CallOK(c)'
  <1>1. /\ call'[c].pc = pc /\ call'[c].spec = call[c].spec
        /\ call'[c].cmd = call[c].cmd /\ call'[c].old = call[c].old
    BY DEF TypeOK, Goes, CallRecord
  <1>2. QED
    BY <1>1 DEF CallOK, rows

LEMMA ReturnOK ==
  ASSUME TypeOK, NEW c \in Caller, UNCHANGED rows, Return(c)
  PROVE  CallOK(c)'
  <1>1. call'[c] = NoCall /\ edits' \in Nat
    BY DEF TypeOK, Return, rows
  <1>2. QED
    BY <1>1 DEF CallOK, NoCall, Starting

LEMMA AfterStopOK ==
  ASSUME TypeOK, NEW c \in Caller, CallOK(c), UNCHANGED rows, NEW found \in BOOLEAN,
         call[c].pc \in {"stop", "finishing"}, AfterStop(c, found)
  PROVE  CallOK(c)'
  <1>1. CASE Return(c)
    BY <1>1, ReturnOK
  <1>2. CASE Goes(c, "report") \/ Goes(c, "fail") \/ Goes(c, "forget")
    BY <1>2, GoesOK DEF CallState, Starting
  <1>3. CASE call[c].cmd = "update" /\ Goes(c, "enter")
    BY <1>3, GoesOK DEF CallState, CallOK
  <1>4. QED
    BY <1>1, <1>2, <1>3 DEF AfterStop

LEMMA OwnCallOK ==
  ASSUME RowInv, NEW c \in Caller, Begin(c) \/ GoOn(c)
  PROVE  CallOK(c)'
  <1>0. /\ TypeOK /\ CallOK(c) /\ row <= edits /\ row \in Nat /\ edits \in Nat
        /\ call \in [Caller -> CallRecord] /\ call[c] \in CallRecord
        /\ call[c].spec \in Int /\ call[c].old \in Int
    BY DEF RowInv, Inv, Numbered, TypeOK, CallRecord
  <1>1. CASE Enter(c)
    <2>1. /\ call'[c].pc = "look" /\ call'[c].spec = call[c].spec
          /\ call'[c].cmd = call[c].cmd /\ call'[c].old = call[c].old
      BY <1>0, <1>1 DEF Enter, CallRecord
    <2>2. QED
      BY <1>0, <1>1, <2>1 DEF Enter, CallOK, Starting, rows, At
  <1>2. CASE Look(c)
    <2>1. CASE call' = [call EXCEPT ![c].pc = "wait", ![c].gen = retiring]
      <3>1. /\ call'[c].pc = "wait" /\ call'[c].spec = call[c].spec
            /\ call'[c].cmd = call[c].cmd /\ call'[c].old = call[c].old
        BY <1>0, <2>1 DEF CallRecord
      <3>2. QED
        BY <1>0, <1>2, <3>1 DEF Look, CallOK, Starting, rows, At
    <2>2. CASE Goes(c, "insert")
      BY <1>0, <1>2, <2>2, GoesOK DEF Look, CallOK, CallState, Starting, At
    <2>3. QED
      BY <1>0, <1>2, <2>1, <2>2, ReturnOK DEF Look
  <1>3. CASE Wait(c)
    BY <1>0, <1>3, GoesOK DEF Wait, CallOK, CallState, Starting, At
  <1>4. CASE TooLate(c) \/ Ready(c) \/ ReportStopped(c) \/ ReportError(c)
    BY <1>0, <1>4, ReturnOK DEF TooLate, Ready, ReportStopped, ReportError
  <1>5. CASE Insert(c)
    <2>1. /\ call'[c].pc = "announce" /\ call'[c].spec = call[c].spec
          /\ call'[c].cmd = call[c].cmd /\ call'[c].old = call[c].old
      BY <1>0, <1>5 DEF Insert, CallRecord
    <2>2. QED
      BY <1>0, <1>5, <2>1 DEF Insert, CallOK, Starting, rows
  <1>6. CASE Announce(c)
    BY <1>0, <1>6, GoesOK DEF Announce, CallState, Starting
  <1>7. CASE Retire(c)
    <2>1. /\ call'[c].pc = "finishing" /\ call'[c].spec = call[c].spec
          /\ call'[c].cmd = call[c].cmd /\ call'[c].old = call[c].old
      BY <1>0, <1>7 DEF Retire, CallRecord
    <2>2. QED
      BY <1>0, <1>7, <2>1 DEF Retire, CallOK, Starting, rows, At
  <1>8. CASE NothingToStop(c)
    BY <1>0, <1>8, AfterStopOK DEF NothingToStop, At
  <1>9. CASE Stopped(c)
    BY <1>0, <1>9, AfterStopOK DEF Stopped, At
  <1>10. CASE Forget(c)
    <2>1. CASE call[c].spec > 0 /\ Goes(c, "enter")
      BY <1>0, <1>10, <2>1, GoesOK DEF Forget, CallState
    <2>2. CASE Goes(c, "fail")
      BY <1>0, <1>10, <2>2, GoesOK DEF Forget, CallState, Starting
    <2>3. QED
      BY <1>0, <1>10, <2>1, <2>2, ReturnOK DEF Forget
  <1>11. CASE StartCommand(c) \/ StopCommand(c) \/ DeleteCommand(c)
    <2>1. /\ call'[c].pc \in {"enter", "fail", "stop"} /\ call'[c].spec \in {row, 0, -1}
          /\ call'[c].cmd \in {"start", "stop", "delete"}
          /\ call'[c].pc = "enter" => call'[c].spec = row /\ row # 0
      BY <1>0, <1>11 DEF StartCommand, StopCommand, DeleteCommand, Begins, NoCall, Broken, Deleted
    <2>2. QED
      BY <1>0, <1>11, <2>1 DEF StartCommand, StopCommand, DeleteCommand, CallOK, Starting, rows
  <1>12. CASE UpdateCommand(c)
    <2>1. call'[c].pc = "edit" /\ call'[c].spec = 0 /\ call'[c].cmd = "update"
      BY <1>0, <1>12 DEF UpdateCommand, NoCall
    <2>2. QED
      BY <1>0, <1>12, <2>1 DEF UpdateCommand, CallOK, Starting, rows
  <1>13. CASE ImportCommand(c)
    <2>1. /\ call'[c].pc = "commit" /\ call'[c].spec = 0 /\ call'[c].cmd = "import"
          /\ call'[c].old = ActiveSpec
      BY <1>0, <1>13 DEF ImportCommand, NoCall
    <2>2. ActiveSpec <= edits
      BY DEF RowInv, Inv, TypeOK, Numbered, ActiveSpec, Deleted
    <2>3. QED
      BY <1>0, <1>13, <2>1, <2>2 DEF ImportCommand, CallOK, Starting, rows
  <1>14. CASE UpdateRow(c)
    <2>1. CASE /\ edits' = edits + 1 /\ row' = edits'
               /\ call' = [call EXCEPT ![c].pc = "stop", ![c].spec = row']
      <3>1. /\ call'[c].pc = "stop" /\ call'[c].spec = row'
            /\ call'[c].cmd = call[c].cmd
        BY <1>0, <2>1 DEF CallRecord
      <3>2. QED
        BY <1>0, <1>14, <2>1, <3>1 DEF UpdateRow, CallOK, Starting, At
    <2>2. QED
      BY <1>0, <1>14, <2>1, ReturnOK DEF UpdateRow
  <1>15. CASE ImportCommit(c)
    <2>1. CASE Goes(c, "check") /\ call[c].old # Deleted
      <3>1. /\ call'[c].pc = "check" /\ call'[c].spec = call[c].spec
            /\ call'[c].cmd = call[c].cmd /\ call'[c].old = call[c].old
        BY <1>0, <2>1 DEF Goes, CallRecord
      <3>2. QED
        BY <1>0, <1>15, <2>1, <3>1 DEF ImportCommit, CallOK, Starting, rows, At
    <2>2. CASE Return(c)
      <3>1. call'[c] = NoCall
        BY <1>0, <2>2 DEF Return
      <3>2. QED
        BY <1>0, <1>15, <3>1 DEF ImportCommit, CallOK, NoCall, Starting, rows
    <2>3. QED
      BY <1>15, <2>1, <2>2 DEF ImportCommit
  <1>16. CASE Check(c)
    <2>1. CASE row # call[c].old /\ call' = [call EXCEPT ![c].pc = "stop", ![c].spec = row]
      <3>1. /\ call'[c].pc = "stop" /\ call'[c].spec = row
            /\ call'[c].cmd = call[c].cmd /\ call'[c].old = call[c].old
        BY <1>0, <2>1 DEF CallRecord
      <3>2. QED
        BY <1>0, <1>16, <2>1, <3>1 DEF Check, CallOK, Starting, rows, At
    <2>2. CASE call' = [call EXCEPT ![c].pc = "stop", ![c].spec = Broken]
      <3>1. /\ call'[c].pc = "stop" /\ call'[c].spec = Broken
            /\ call'[c].cmd = call[c].cmd /\ call'[c].old = call[c].old
        BY <1>0, <2>2 DEF CallRecord
      <3>2. QED
        BY <1>0, <1>16, <3>1 DEF Check, CallOK, Starting, rows, At, Broken
    <2>3. QED
      BY <1>0, <1>16, <2>1, <2>2, ReturnOK DEF Check
  <1>17. QED
    BY <1>1, <1>2, <1>3, <1>4, <1>5, <1>6, <1>7, <1>8, <1>9, <1>10, <1>11, <1>12, <1>13, <1>14,
       <1>15, <1>16 DEF Begin, GoOn


(* What a step of a call leaves of the others, and of the rows.            *)
LEMMA CallFrame ==
  ASSUME TypeOK, NEW c \in Caller, Begin(c) \/ GoOn(c)
  PROVE  /\ \A d \in Caller \ {c} : call'[d] = call[d]
         /\ RowsMove
  <1>0. call \in [Caller -> CallRecord]
    BY DEF TypeOK
  <1>1. \A d \in Caller \ {c} : call'[d] = call[d]
    <2>1. CASE Begin(c)
      BY <1>0, <2>1 DEF Begin, StartCommand, StopCommand, UpdateCommand, DeleteCommand,
                      ImportCommand, Begins
    <2>2. CASE Retire(c) \/ NothingToStop(c) \/ Stopped(c) \/ Forget(c)
      BY <1>0, <2>2 DEF Retire, NothingToStop, Stopped, Forget, AfterStop, Goes, Return
    <2>3. CASE UpdateRow(c) \/ ImportCommit(c) \/ Check(c)
      BY <1>0, <2>3 DEF UpdateRow, ImportCommit, Check, Goes, Return
    <2>4. QED
      BY <1>0, <2>1, <2>2, <2>3
      DEF GoOn, Enter, Look, Wait, TooLate, Insert, Announce, Ready, ReportStopped, ReportError,
          Goes, Return
  <1>2. RowsMove
    <2>1. CASE UpdateRow(c) \/ ImportCommit(c) \/ DeleteCommand(c)
      BY <2>1 DEF UpdateRow, ImportCommit, DeleteCommand, RowsMove, rows
    <2>2. QED
      BY <2>1 DEF RowsMove, Begin, StartCommand, StopCommand, UpdateCommand, ImportCommand, GoOn,
                  Enter, Look, Wait, TooLate, Insert, Announce, Ready, Retire, NothingToStop,
                  Stopped, ReportStopped, ReportError, Forget, Check
  <1>3. QED
    BY <1>1, <1>2

(* What each step leaves of the tasks and the active map.                  *)
SpecsKept ==
  /\ \A g \in Generation : task'[g].spec = task[g].spec
  /\ active' \in {active, None}

LEMMA CallSpecs ==
  ASSUME TypeOK, FreshGenerations, Announcing, NEW c \in Caller, Begin(c) \/ GoOn(c), ~Insert(c)
  PROVE  SpecsKept
  <1>0. TaskType
    BY DEF TypeOK, TaskType
  <1>1. CASE Announce(c)
    BY <1>0, <1>1 DEF Announce, SpecsKept, TaskType, TaskRecord
  <1>2. CASE Retire(c)
    BY <1>0, <1>2 DEF Retire, SpecsKept, TaskType, TaskRecord
  <1>3. QED
    BY <1>1, <1>2
    DEF SpecsKept, manager, Begin, StartCommand, StopCommand, UpdateCommand, DeleteCommand,
        ImportCommand, GoOn, Enter, Look, Wait, TooLate, Ready, NothingToStop, Stopped,
        ReportStopped, ReportError, Forget, UpdateRow, ImportCommit, Check

LEMMA ServeSpecs ==
  ASSUME TypeOK, NEW g \in Generation, Serve(g)
  PROVE  /\ SpecsKept \/ Finish(g)
         /\ UNCHANGED <<row, edits, call, raced>>
  <1>0. TaskType
    BY DEF TypeOK, TaskType
  <1>1. SpecsKept \/ Finish(g)
    BY <1>0 DEF SpecsKept, Serve, Established, CannotStart, Lost, Halt, Ends, TaskType, TaskRecord
  <1>2. UNCHANGED <<row, edits, call, raced>>
    BY DEF Serve, Established, CannotStart, Lost, Halt, Finish, rows
  <1>3. QED
    BY <1>1, <1>2

LEMMA StopAllSpecs ==
  ASSUME TypeOK, StopAll
  PROVE  SpecsKept /\ UNCHANGED <<row, edits, call, raced>>
  <1>0. TaskType
    BY DEF TypeOK, TaskType
  <1>1. CASE RetireDrained
    BY <1>0, <1>1 DEF RetireDrained, SpecsKept, TaskType, TaskRecord, rows
  <1>2. QED
    BY <1>1 DEF StopAll, Bump, Drain, SpecsKept, rows

LEMMA KeptNumbered ==
  ASSUME RowInv, SpecsKept, RowsMove, \A c \in Caller : CallOK(c)'
  PROVE  Numbered'
  <1>1. /\ row' <= edits' /\ edits <= edits' /\ edits' \in Nat
        /\ \A g \in Generation : task[g].spec \in Int
    BY DEF RowInv, Inv, TypeOK, Numbered, RowsMove, rows, Deleted, TaskRecord
  <1>2. \A g \in Generation : task'[g].spec <= edits'
    BY <1>1 DEF RowInv, Inv, TypeOK, Numbered, SpecsKept
  <1>3. active' # None => task'[active'].spec > 0
    BY DEF RowInv, Inv, TypeOK, Numbered, SpecsKept
  <1>4. QED
    BY <1>1, <1>2, <1>3 DEF Numbered

(* Steps of the tasks and of stop_all.                                     *)
LEMMA IdleRows ==
  ASSUME RowInv, UNCHANGED <<row, edits, call, raced>>, SpecsKept
  PROVE  Numbered' /\ Followed'
  <1>1. RowsMove /\ \A c \in Caller : CallOK(c)'
    BY DEF RowInv, Numbered, RowsMove, rows, CallOK
  <1>2. Followed'
    BY DEF RowInv, Inv, TypeOK, Followed, SpecsKept, WillStop
  <1>3. QED
    BY <1>1, <1>2, KeptNumbered

LEMMA FinishRows ==
  ASSUME RowInv, NEW g \in Generation, Finish(g)
  PROVE  Numbered' /\ Followed'
  <1>1. /\ task'[g].spec = 0 /\ \A h \in Generation \ {g} : task'[h] = task[h]
        /\ active' # g /\ active' \in {active, None}
        /\ UNCHANGED <<row, edits, call, raced>>
    BY DEF RowInv, Inv, TypeOK, Finish, WithoutTask, Finished, Unborn, Generation, None, rows
  <1>2. Numbered'
    BY <1>1 DEF RowInv, Inv, TypeOK, Numbered, CallOK
  <1>3. Followed'
    BY <1>1 DEF RowInv, Inv, TypeOK, Followed, WillStop
  <1>4. QED
    BY <1>2, <1>3

LEMMA InsertRows ==
  ASSUME RowInv, NEW c \in Caller, Insert(c)
  PROVE  Numbered' /\ Followed'
  <1> DEFINE new == generations + 1
  <1>0. TypeOK /\ TaskType /\ CallOK(c) /\ RowsMove
        /\ \A d \in Caller \ {c} : call'[d] = call[d]
    BY CallFrame DEF RowInv, Inv, TypeOK, TaskType, Numbered, GoOn
  <1>1. /\ new \in Generation /\ active' = new
        /\ task'[new].spec = call[c].spec
        /\ \A g \in Generation \ {new} : task'[g] = task[g]
        /\ UNCHANGED <<row, edits>>
    <2>1. new \in Generation /\ active' = new
      BY <1>0, ForwardAssumption DEF TypeOK, Insert, Generation
    <2>2. QED
      BY <1>0, <2>1 DEF Insert, TaskType, rows
  <1>2. call'[c].pc = "announce"
    BY <1>0 DEF Insert, TypeOK, CallRecord
  <1>3. \A d \in Caller : CallOK(d)'
    BY <1>0, OwnCallOK, OtherCallOK DEF RowInv, Numbered, GoOn
  <1>4. Numbered'
    BY <1>0, <1>1, <1>3 DEF RowInv, Numbered, CallOK, Starting, Insert, At
  <1>5. Followed'
    BY <1>0, <1>1, <1>2 DEF Followed, Insert, Behind, At
  <1>6. QED
    BY <1>4, <1>5


(* A step of c that changes neither the tasks' specs nor the history keeps *)
(* Followed if c goes on caring for what it cared for.                     *)
StillCares(c) ==
  ~raced /\ active' # None =>
    LET spec == task[active].spec
    IN /\ call'[c].pc = "commit" => call'[c].old = spec
       /\ \/ WillStop(c, spec)'
          \/ row' = spec
          \/ row' = row /\ ~WillStop(c, spec)

LEMMA CaringFollows ==
  ASSUME RowInv, NEW c \in Caller, SpecsKept, raced' = raced, StillCares(c),
         \A d \in Caller \ {c} : call'[d] = call[d]
  PROVE  Followed'
  <1> SUFFICES ASSUME ~raced, active' # None
               PROVE  /\ \/ task'[active'].spec = row'
                         \/ \E d \in Caller : WillStop(d, task[active].spec)'
                      /\ task'[active'].spec = task[active].spec
                      /\ \A d \in Caller :
                           call'[d].pc = "commit" => call'[d].old = task[active].spec
    BY DEF Followed, WillStop
  <1>1. active' = active /\ active \in Generation /\ task'[active].spec = task[active].spec
    BY DEF RowInv, Inv, TypeOK, SpecsKept
  <1>2. \A d \in Caller \ {c} : WillStop(d, task[active].spec)' <=> WillStop(d, task[active].spec)
    BY <1>1 DEF WillStop
  <1>3. task[active].spec = row \/ \E d \in Caller : WillStop(d, task[active].spec)
    BY <1>1 DEF RowInv, Followed
  <1>4. \A d \in Caller : call'[d].pc = "commit" => call'[d].old = task[active].spec
    BY <1>1 DEF RowInv, Followed, StillCares
  <1>5. \/ task[active].spec = row' \/ \E d \in Caller : WillStop(d, task[active].spec)'
    BY <1>1, <1>2, <1>3 DEF StillCares
  <1>6. QED
    BY <1>1, <1>4, <1>5

LEMMA CallKeepsHistory ==
  ASSUME NEW c \in Caller, Begin(c) \/ GoOn(c), ~Insert(c)
  PROVE  raced' = raced
  BY DEF Begin, StartCommand, StopCommand, UpdateCommand, DeleteCommand, ImportCommand, GoOn,
         Enter, Look, Wait, TooLate, Announce, Ready, Retire, NothingToStop, Stopped,
         ReportStopped, ReportError, Forget, UpdateRow, ImportCommit, Check

LEMMA CallCares ==
  ASSUME RowInv, NEW c \in Caller, Begin(c) \/ GoOn(c), ~Insert(c)
  PROVE  StillCares(c)
  <1> DEFINE spec == task[active].spec
  <1>0. /\ call \in [Caller -> CallRecord] /\ call[c] \in CallRecord /\ CallOK(c)
        /\ row \in Nat
        /\ active' # None => active' = active /\ task'[active].spec = spec
    BY CallSpecs DEF RowInv, Inv, TypeOK, Numbered, SpecsKept
  <1>1. ASSUME row' = row, call[c].pc \notin {"check", "stop"}, call'[c].pc # "commit"
        PROVE  StillCares(c)
    BY <1>1 DEF StillCares, WillStop
  <1>2. CASE Enter(c) \/ Look(c) \/ Wait(c) \/ TooLate(c) \/ Announce(c) \/ Ready(c)
    <2>1. row' = row /\ call[c].pc \notin {"check", "stop"}
      BY <1>2 DEF Enter, Look, Wait, TooLate, Announce, Ready, At, rows
    <2>2. call'[c].pc # "commit"
      BY <1>0, <1>2 DEF Enter, Look, Wait, TooLate, Announce, Ready, Goes, Return, NoCall, CallRecord
    <2>3. QED
      BY <1>1, <2>1, <2>2
  <1>3. CASE Stopped(c) \/ ReportStopped(c) \/ ReportError(c) \/ Forget(c)
    <2>1. row' = row /\ call[c].pc \notin {"check", "stop"}
      BY <1>3 DEF Stopped, ReportStopped, ReportError, Forget, At, rows
    <2>2. call'[c].pc # "commit"
      BY <1>0, <1>3 DEF Stopped, AfterStop, ReportStopped, ReportError, Forget, Goes, Return,
                        NoCall, CallRecord
    <2>3. QED
      BY <1>1, <2>1, <2>2
  <1>4. CASE StartCommand(c) \/ StopCommand(c) \/ UpdateCommand(c)
    <2>1. row' = row /\ call[c].pc \notin {"check", "stop"}
      BY <1>4 DEF StartCommand, StopCommand, UpdateCommand, At, rows
    <2>2. call'[c].pc # "commit"
      BY <1>0, <1>4 DEF StartCommand, StopCommand, UpdateCommand, Begins, NoCall
    <2>3. QED
      BY <1>1, <2>1, <2>2
  <1>5. CASE DeleteCommand(c)
    <2>1. call'[c].pc = "stop" /\ call'[c].cmd = "delete"
      BY <1>0, <1>5 DEF DeleteCommand, Begins, NoCall
    <2>2. QED
      BY <2>1 DEF StillCares, WillStop
  <1>6. CASE ImportCommand(c)
    <2>1. call'[c].pc = "commit" /\ call'[c].old = ActiveSpec /\ row' = row
          /\ call[c].pc = "idle" /\ active' = active
      BY <1>0, <1>6 DEF ImportCommand, NoCall, At, rows, manager
    <2>2. QED
      BY <2>1 DEF StillCares, WillStop, ActiveSpec
  <1>7. CASE Retire(c)
    BY <1>7 DEF Retire, StillCares
  <1>8. CASE NothingToStop(c)
    <2>1. row' = row /\ active' = active /\ ~Retires(c)
      BY <1>8 DEF NothingToStop, rows, manager
    <2>2. call'[c].pc # "commit"
      BY <1>0, <1>8 DEF NothingToStop, AfterStop, Goes, Return, NoCall, CallRecord
    <2>3. active # None => ~WillStop(c, spec)
      BY <2>1 DEF Retires, WillStop
    <2>4. QED
      BY <2>1, <2>2, <2>3 DEF StillCares
  <1>9. CASE UpdateRow(c)
    <2>1. CASE Return(c) /\ UNCHANGED rows
      <3>1. call'[c].pc # "commit" /\ call[c].pc = "edit" /\ row' = row
        BY <1>0, <1>9, <2>1 DEF UpdateRow, Return, NoCall, At, rows
      <3>2. QED
        BY <1>1, <3>1
    <2>2. CASE call' = [call EXCEPT ![c].pc = "stop", ![c].spec = row']
      <3>1. call'[c].pc = "stop" /\ call'[c].cmd = "update"
        BY <1>0, <1>9, <2>2 DEF UpdateRow, CallOK, At, CallRecord
      <3>2. QED
        BY <3>1 DEF StillCares, WillStop
    <2>3. QED
      BY <1>9, <2>1, <2>2 DEF UpdateRow
  <1>10. CASE ImportCommit(c)
    <2>1. ASSUME ~raced, active # None PROVE call[c].old = spec /\ spec # Deleted
      BY <1>10, <2>1 DEF RowInv, Followed, Numbered, ImportCommit, At, Deleted
    <2>2. CASE Goes(c, "check")
      <3>1. call'[c].pc = "check" /\ call'[c].cmd = "import" /\ call'[c].old = call[c].old
            /\ active' = active
        BY <1>0, <1>10, <2>2 DEF ImportCommit, Goes, CallOK, At, CallRecord, manager
      <3>2. QED
        BY <1>0, <2>1, <3>1 DEF StillCares, WillStop
    <2>3. CASE call[c].old = Deleted /\ active' = active
      BY <2>1, <2>3 DEF StillCares
    <2>4. CASE UNCHANGED rows /\ Return(c)
      <3>1. row' = row /\ call[c].pc = "commit" /\ call'[c].pc # "commit"
        BY <1>0, <1>10, <2>4 DEF ImportCommit, Return, NoCall, At, rows
      <3>2. QED
        BY <1>1, <3>1
    <2>5. QED
      BY <1>10, <2>2, <2>3, <2>4 DEF ImportCommit, manager
  <1>11. CASE Check(c)
    <2>0. row' = row /\ active' = active /\ call[c].pc = "check" /\ call[c].cmd = "import"
      BY <1>0, <1>11 DEF Check, CallOK, At, rows, manager
    <2>1. CASE row = call[c].old /\ Return(c)
      <3>1. call'[c].pc # "commit"
        BY <1>0, <2>1 DEF Return, NoCall
      <3>2. QED
        BY <2>0, <2>1, <3>1 DEF StillCares, WillStop
    <2>2. CASE \/ call' = [call EXCEPT ![c].pc = "stop", ![c].spec = row]
               \/ call' = [call EXCEPT ![c].pc = "stop", ![c].spec = Broken]
      <3>1. call'[c].pc = "stop" /\ call'[c].cmd = call[c].cmd /\ call'[c].old = call[c].old
        BY <1>0, <2>2 DEF CallRecord
      <3>2. QED
        BY <1>0, <2>0, <3>1 DEF StillCares, WillStop
    <2>3. QED
      BY <1>11, <2>1, <2>2 DEF Check
  <1>12. QED
    BY <1>2, <1>3, <1>4, <1>5, <1>6, <1>7, <1>8, <1>9, <1>10, <1>11 DEF Begin, GoOn

LEMMA RowInvStep ==
  ASSUME RowInv, [Next]_vars
  PROVE  RowInv'
  <1>0. Inv' /\ TypeOK /\ FreshGenerations /\ Announcing
    BY InvStep DEF RowInv, Inv
  <1>1. ASSUME NEW c \in Caller, Begin(c) \/ GoOn(c)
        PROVE  Numbered' /\ Followed'
    <2>1. CASE Insert(c)
      BY <2>1, InsertRows
    <2>2. CASE ~Insert(c)
      <3>1. SpecsKept /\ RowsMove /\ \A d \in Caller \ {c} : call'[d] = call[d]
        BY <1>0, <1>1, <2>2, CallSpecs, CallFrame
      <3>2. \A d \in Caller : CallOK(d)'
        BY <1>0, <1>1, <3>1, OwnCallOK, OtherCallOK DEF RowInv, Numbered
      <3>3. Followed'
        BY <1>1, <2>2, <3>1, CallCares, CallKeepsHistory, CaringFollows
      <3>4. QED
        BY <3>1, <3>2, <3>3, KeptNumbered
    <2>3. QED
      BY <2>1, <2>2
  <1>2. ASSUME NEW g \in Generation, Serve(g) PROVE Numbered' /\ Followed'
    BY <1>0, <1>2, ServeSpecs, IdleRows, FinishRows
  <1>3. ASSUME StopAll PROVE Numbered' /\ Followed'
    BY <1>0, <1>3, StopAllSpecs, IdleRows
  <1>4. ASSUME UNCHANGED vars PROVE Numbered' /\ Followed'
    <2>1. SpecsKept /\ UNCHANGED <<row, edits, call, raced>>
      BY <1>4 DEF vars, SpecsKept
    <2>2. QED
      BY <2>1, IdleRows
  <1>5. QED
    BY <1>0, <1>1, <1>2, <1>3, <1>4 DEF Next, RowInv

LEMMA RowInvHolds == Spec => []RowInv
  <1>1. QED
    BY InitRowInv, RowInvStep, PTL DEF Spec

(* When the calls are through, a forward runs as its row says, unless its  *)
(* start got in behind a change of the row: of all other crossings of      *)
(* starts, updates, deletions and imports none leaves an outdated forward. *)
THEOREM RunsAsStored == Spec => []QuietIsFresh
  <1>1. ASSUME RowInv PROVE QuietIsFresh
    BY <1>1 DEF RowInv, Followed, WillStop, QuietIsFresh
  <1>2. QED
    BY <1>1, RowInvHolds, PTL

(* Reconciling after an import never stops a forward that already runs as  *)
(* its row says, however many changes and restarts came in between.        *)
THEOREM ReconciliationSpares == Spec => ReconcileSparesCurrent
  <1> DEFINE A == \A c \in Caller :
                    call[c].cmd = "import" /\ call[c].spec # Broken
                      /\ At(c, "stop") /\ call'[c].pc = "finishing"
                    => task[active].spec # row
  <1>1. ASSUME RowInv, [Next]_vars PROVE [A]_vars
    <2> SUFFICES ASSUME Next, NEW c \in Caller, call[c].cmd = "import", call[c].spec # Broken,
                        At(c, "stop"), call'[c].pc = "finishing"
                 PROVE  task[active].spec # row
      BY <1>1
    <2>0. /\ TypeOK /\ call \in [Caller -> CallRecord] /\ call[c].pc = "stop" /\ call'[c] # call[c]
          /\ CallOK(c)
      BY <1>1 DEF RowInv, Inv, TypeOK, At, Numbered
    <2>1. PICK d \in Caller : Begin(d) \/ GoOn(d)
      BY <2>0, ServeSpecs, StopAllSpecs DEF Next
    <2>2. d = c
      BY <2>0, <2>1, CallFrame
    <2>3. CASE NothingToStop(c)
      BY <2>0, <2>3 DEF NothingToStop, AfterStop, Goes, Return, NoCall, CallRecord
    <2>4. Retire(c) \/ NothingToStop(c)
      BY <2>0, <2>1, <2>2
      DEF Begin, StartCommand, StopCommand, UpdateCommand, DeleteCommand, ImportCommand, GoOn,
          Enter, Look, Wait, TooLate, Insert, Announce, Ready, Stopped, ReportStopped,
          ReportError, Forget, UpdateRow, ImportCommit, Check, At
    <2>5. QED
      BY <2>0, <2>3, <2>4 DEF Retire, Retires, CallOK
  <1>2. QED
    BY <1>1, RowInvHolds, PTL DEF Spec, ReconcileSparesCurrent

=============================================================================
