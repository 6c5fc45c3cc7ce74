----------------------------- MODULE BatchRuns ------------------------------
(***************************************************************************)
(* One command on many hosts: hosts_run_command and hosts_cancel_run       *)
(* (commands/batch.rs) with the registry of runs that can be cancelled,    *)
(* and the dialog that begins, follows and cancels a run                   *)
(* (BatchRunDialog.tsx).                                                   *)
(*                                                                         *)
(* Every run has an id of its own.  Commands are handled in any order.     *)
(* The events of a run arrive in their order, the answer of the command    *)
(* whenever it likes: large outputs are fetched separately.                *)
(***************************************************************************)
EXTENDS Naturals, Sequences, FiniteSets

CONSTANTS
  Host,
  Chosen,           \* Chosen[r]: the hosts the user may choose for the r-th run;
                    \* bound: no more runs than that
  Limit,            \* BATCH_CONCURRENCY
  MaxLoads          \* bound: page loads

BatchAssumption ==
  Chosen \in Seq(SUBSET SUBSET Host) /\ Limit \in Nat \ {0} /\ MaxLoads \in Nat

VARIABLES
  open,        \* the dialog is open
  current,     \* requestRef: the run it follows
  shown,       \* shown[h]: what it shows of h: [run, status]
  begun,       \* runs begun so far
  calls,       \* commands on their way: <<"run" or "cancel", run>>
  run,         \* run[r]: [state, listens, cancelled, hosts, todo, task]
  events,      \* events[r]: on their way to the page: <<host, status>>
  answers,     \* on their way: <<run, how>>
  loads,       \* page loads
  lost,        \* history: runs whose cancel came before they were registered
  late         \* history: runs whose answer came before their last event

vars == <<open, current, shown, begun, calls, run, events, answers, loads, lost, late>>
page == <<open, current, shown, begun, loads>>

Run == DOMAIN Chosen
Nil == 0
Blank == [h \in Host |-> [run |-> Nil, status |-> "none"]]
NoRun == [state |-> "none", listens |-> FALSE, cancelled |-> FALSE, hosts |-> {},
          todo |-> {}, task |-> [h \in Host |-> "none"]]

Init ==
  /\ open = FALSE /\ current = Nil /\ shown = Blank /\ begun = 0 /\ calls = {}
  /\ run = [r \in Run |-> NoRun] /\ events = [r \in Run |-> <<>>] /\ answers = {}
  /\ loads = 0 /\ lost = {} /\ late = {}

-----------------------------------------------------------------------------
(* The dialog.                                                             *)

OpenDialog ==
  /\ ~open /\ open' = TRUE /\ shown' = Blank
  /\ UNCHANGED <<current, begun, calls, run, events, answers, loads, lost, late>>

Begin ==
  /\ open /\ current = Nil /\ begun' = begun + 1 /\ begun' \in Run
  /\ \E hosts \in Chosen[begun'] \ {{}} :
       /\ run' = [run EXCEPT ![begun'].state = "sent", ![begun'].hosts = hosts]
       /\ shown' = [h \in Host |-> IF h \in hosts THEN [run |-> begun', status |-> "queued"]
                                   ELSE Blank[h]]
  /\ current' = begun' /\ calls' = calls \cup {<<"run", begun'>>}
  /\ UNCHANGED <<open, events, answers, loads, lost, late>>

Cancels == IF current = Nil THEN calls ELSE calls \cup {<<"cancel", current>>}

CloseDialog ==
  /\ open /\ open' = FALSE /\ current' = Nil /\ shown' = Blank /\ calls' = Cancels
  /\ UNCHANGED <<begun, run, events, answers, loads, lost, late>>

(* Events of a run the dialog does not follow are dropped.                 *)
Follows(r) == current = r

Anyway(r) == open               \* a fault: the id is not compared

HearEvent(r) ==
  /\ events[r] # <<>> /\ events' = [events EXCEPT ![r] = Tail(@)]
  /\ LET e == Head(events[r]) IN
       shown' = IF Follows(r) THEN [shown EXCEPT ![e[1]] = [run |-> r, status |-> e[2]]]
                ELSE shown
  /\ UNCHANGED <<open, current, begun, calls, run, answers, loads, lost, late>>

HearAnswer(a) ==
  /\ a \in answers /\ answers' = answers \ {a}
  /\ current' = IF current = a[1] THEN Nil ELSE current
  /\ late' = IF events[a[1]] = <<>> THEN late ELSE late \cup {a[1]}
  /\ UNCHANGED <<open, shown, begun, calls, run, events, loads, lost>>

-----------------------------------------------------------------------------
(* The backend.                                                            *)

Handle(c) == c \in calls /\ calls' = calls \ {c}
backend == <<run, events, answers>>

Register(r) ==
  /\ Handle(<<"run", r>>)
  /\ run' = [run EXCEPT ![r].state = "preparing", ![r].listens = TRUE,
                        ![r].todo = run[r].hosts]
  /\ UNCHANGED <<page, events, answers, lost, late>>

HandleCancel(r) ==
  /\ Handle(<<"cancel", r>>)
  /\ run' = IF run[r].listens THEN [run EXCEPT ![r].cancelled = TRUE] ELSE run
  /\ lost' = IF run[r].state = "sent" THEN lost \cup {r} ELSE lost
  /\ UNCHANGED <<page, events, answers, late>>

Ended(r, how, task) ==
  /\ run' = [run EXCEPT ![r].state = "ended", ![r].listens = FALSE, ![r].task = task]
  /\ answers' = answers \cup {<<r, how>>}

(* The hops of a host are looked up, one host after the other; a cancel is *)
(* heard before each and after the last.                                   *)
Prepare(r) ==
  /\ run[r].state = "preparing"
  /\ IF run[r].cancelled THEN Ended(r, "cancelled", run[r].task)
     ELSE /\ UNCHANGED answers
          /\ IF run[r].todo # {}
             THEN \E h \in run[r].todo : run' = [run EXCEPT ![r].todo = @ \ {h}]
             ELSE run' = [run EXCEPT ![r].state = "working", ![r].task =
                            [h \in Host |-> IF h \in run[r].hosts THEN "queued" ELSE "none"]]
  /\ UNCHANGED <<page, calls, events, lost, late>>

In(r, status) == {h \in Host : run[r].task[h] = status}

Works(r, h, from, to) ==
  /\ run[r].state = "working" /\ run[r].task[h] = from
  /\ run' = [run EXCEPT ![r].task[h] = to]
  /\ events' = [events EXCEPT ![r] = Append(@, <<h, to>>)]
  /\ UNCHANGED <<page, calls, answers, lost, late>>

Acquire(r, h) == Cardinality(In(r, "running")) < Limit /\ Works(r, h, "queued", "running")

(* Connecting, the command or its time is over, well or not.               *)
TaskEnds(r, h) == Works(r, h, "running", "ended")

(* The loop hears a cancel, whatever the tasks do, or that all have ended. *)
Abort(r) ==
  /\ run[r].state = "working" /\ run[r].cancelled
  /\ Ended(r, "cancelled", [h \in Host |->
       IF run[r].task[h] \in {"queued", "running"} THEN "aborted" ELSE run[r].task[h]])
  /\ UNCHANGED <<page, calls, events, lost, late>>

Finish(r) ==
  /\ run[r].state = "working" /\ In(r, "queued") \cup In(r, "running") = {}
  /\ Ended(r, "ok", run[r].task)
  /\ UNCHANGED <<page, calls, events, lost, late>>

(* A page load clears the registry, and a sender that is gone is a cancel. *)
PageLoad ==
  /\ loads < MaxLoads /\ loads' = loads + 1
  /\ run' = [r \in Run |-> [run[r] EXCEPT !.cancelled = @ \/ run[r].listens, !.listens = FALSE]]
  /\ lost' = lost \cup {r \in Run : run[r].state = "sent"}
  /\ open' = FALSE /\ current' = Nil /\ shown' = Blank
  /\ events' = [r \in Run |-> <<>>] /\ answers' = {}
  /\ UNCHANGED <<begun, calls, late>>

Next ==
  \/ OpenDialog \/ Begin \/ CloseDialog \/ PageLoad
  \/ \E a \in answers : HearAnswer(a)
  \/ \E r \in Run :
       \/ HearEvent(r) \/ Register(r) \/ HandleCancel(r)
       \/ Prepare(r) \/ Abort(r) \/ Finish(r)
       \/ \E h \in Host : Acquire(r, h) \/ TaskEnds(r, h)

Spec == Init /\ [][Next]_vars

-----------------------------------------------------------------------------
States == {"none", "sent", "preparing", "working", "ended"}
Statuses == {"none", "queued", "running", "ended", "aborted"}

TypeOK ==
  /\ current \in {Nil} \cup Run
  /\ shown \in [Host -> [run : {Nil} \cup Run, status : Statuses]]
  /\ run \in [Run -> [state : States, listens : BOOLEAN, cancelled : BOOLEAN,
                      hosts : SUBSET Host, todo : SUBSET Host, task : [Host -> Statuses]]]

(* The dialog shows results of the run that was begun last, and once that  *)
(* has ended by itself it shows an end for each host.  Exempt is a run     *)
(* whose answer came before its last events: the dialog drops them.        *)
ResultsAreTrue ==
  /\ \A h \in Host : shown[h].run \in {Nil, begun}
  /\ open /\ current = Nil /\ begun # 0 /\ begun \notin late
       /\ (\E h \in Host : shown[h].run = begun) /\ ~run[begun].cancelled =>
       \A h \in run[begun].hosts : shown[h].status = "ended"

(* A run nobody follows has ended, or its cancel is on its way to it.      *)
(* Exempt is a cancel that was handled before the run was registered.      *)
NoOrphanRun ==
  \A r \in Run \ lost :
    run[r].state \notin {"none", "ended"} /\ r # current =>
      run[r].cancelled \/ <<"cancel", r>> \in calls
=============================================================================
