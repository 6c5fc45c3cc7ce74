------------------------------ MODULE TaskRuns ------------------------------
(***************************************************************************)
(* Tasks: the scheduler of the page (tasks/scheduler.ts), the runs it      *)
(* shows (tasks/store.ts, TaskRunDialog.tsx), the command that executes a  *)
(* run (commands/tasks.rs) and its row in the history (task_run_repo.rs).  *)
(*                                                                         *)
(* Time is counted in ticks.  A schedule is the set of the times at which  *)
(* its cron expression is due.  What a step does is left out: it succeeds, *)
(* fails, or is cut short by a cancellation.                               *)
(***************************************************************************)
EXTENDS Integers, Sequences, FiniteSets, Functions

CONSTANTS
  Task,
  NeedsHost,   \* tasks with a remote step
  Schedule,    \* cron expressions
  DueAt,       \* [Schedule -> SUBSET Nat]
  None,
  Steps,       \* how many steps a task has
  MaxTime, MaxRuns, MaxChanges   \* bounds: MaxChanges of edits, reloads and restarts

TaskRunsAssumption ==
  /\ NeedsHost \subseteq Task /\ IsFiniteSet(Task)
  /\ DueAt \in [Schedule -> SUBSET Nat]
  /\ None \notin Schedule
  /\ Steps \in Nat \ {0}
  /\ {MaxTime, MaxRuns, MaxChanges} \subseteq Nat

VARIABLES
  now,
  task,      \* the saved tasks: their schedule, or None when it is off, and host
  baseline,  \* sageport.task-schedule-runs in localStorage
  runs,      \* every run started, in order
  dialog,    \* the TaskRunDialog: its task and the run it follows
  cancels,   \* tasks_cancel calls on their way
  edits, reloads

vars == <<now, task, baseline, runs, dialog, cancels, edits, reloads>>

Status == {"running", "done", "error", "cancelled"}

NoRun == 0

NoDialog == [task |-> None, run |-> NoRun]

Baselines == [last : Nat, sig : Schedule]

RunIds == DOMAIN runs

\* A run has a side in the page and one in the backend:
\*   page    its status in the store, or "gone" when it is dismissed or the
\*           page that had it was left
\*   failed  a step is shown as failed
\*   call    "sent" until tasks_run registers, "active" while the steps run,
\*           "ended" with the answer on the way, "over"
\*   left    steps still to run
\*   cancel  the run's cancellation was asked
\*   result  how run_all ended
\*   row     its status in the history, or "none"
\* `at' is when the schedule started it.
Run(t, auto, page) ==
  [task |-> t, auto |-> auto, at |-> IF auto THEN now ELSE 0,
   sig |-> IF auto THEN task[t].schedule ELSE None, page |-> "running",
   pages |-> page, failed |-> FALSE, call |-> "sent",
   left |-> Steps, cancel |-> FALSE, result |-> None, row |-> "none"]

-----------------------------------------------------------------------------
(* dueTasks *)

\* nextCronTime(sig, from) <= now
IsDue(sig, from) == \E time \in DueAt[sig] : from < time /\ time <= now

\* selectRunningRunForTask
RunsOf(t) == {r \in RunIds : runs[r].task = t /\ runs[r].page = "running"}

Scheduled == {t \in Task : task[t].schedule # None}

IsKnown(t) == baseline[t] # None /\ baseline[t].sig = task[t].schedule

Overdue(t) ==
  t \in Scheduled /\ IsKnown(t) /\ IsDue(task[t].schedule, baseline[t].last)

Startable == {t \in Task : Overdue(t) /\ RunsOf(t) = {}}

\* preflightSkip: a task with a remote step and no host is not run.
Skipped(t) == t \in NeedsHost /\ ~task[t].host

\* Mutant: a task that starts keeps its old baseline.
BaselineKept(t) ==
  CASE t \notin Scheduled -> None
    [] t \in Scheduled /\ IsKnown(t) -> baseline[t]
    [] OTHER -> [last |-> now, sig |-> task[t].schedule]

\* The schedule state saved by a tick: a new schedule starts counting now, a
\* task that is started or skipped too, any other keeps its last run.
NextBaseline(t) ==
  CASE t \notin Scheduled -> None
    [] t \in Scheduled /\ IsKnown(t) /\ t \notin Startable -> baseline[t]
    [] OTHER -> [last |-> now, sig |-> task[t].schedule]

-----------------------------------------------------------------------------

Init ==
  /\ now = 0
  /\ task \in [Task -> [schedule : Schedule \cup {None}, host : BOOLEAN]]
  /\ baseline = [t \in Task |-> None]
  /\ runs = <<>>
  /\ dialog = NoDialog
  /\ cancels = {}
  /\ edits = 0
  /\ reloads = 0

Pass ==
  /\ now < MaxTime
  /\ now' = now + 1
  /\ UNCHANGED <<task, baseline, runs, dialog, cancels, edits, reloads>>

\* Creating, changing, enabling or disabling a task, here or by a sync.
SaveTask(t) ==
  /\ edits + reloads < MaxChanges
  /\ edits' = edits + 1
  /\ \E schedule \in Schedule \cup {None}, host \in BOOLEAN :
       task' = [task EXCEPT ![t] = [schedule |-> schedule, host |-> host]]
  /\ UNCHANGED <<now, baseline, runs, dialog, cancels, reloads>>

\* tick of useTaskScheduler: the state is saved, then the due tasks start.
Tick ==
  LET fired == {t \in Startable : ~Skipped(t)}
  IN  /\ Len(runs) + Cardinality(fired) <= MaxRuns
      /\ baseline' = [t \in Task |-> NextBaseline(t)]
      /\ \E order \in [1..Cardinality(fired) -> fired] :
           /\ Range(order) = fired
           /\ runs' = runs \o [i \in DOMAIN order |-> Run(order[i], TRUE, reloads)]
      /\ <<baseline', runs'>> # <<baseline, runs>>
      /\ UNCHANGED <<now, task, dialog, cancels, edits, reloads>>

-----------------------------------------------------------------------------
(* The dialog.  It attaches to the run it follows; when it lets go of one    *)
(* that is over, the run is dismissed.                                       *)

Dismissed(r) ==
  IF r # NoRun /\ runs[r].page # "running"
  THEN [runs EXCEPT ![r].page = "gone"] ELSE runs

OpenDialog(t) ==
  /\ dialog = NoDialog
  /\ \/ /\ RunsOf(t) = {}
        /\ dialog' = [task |-> t, run |-> NoRun]
     \/ \E r \in RunsOf(t) :
          /\ \A other \in RunsOf(t) : r <= other
          /\ dialog' = [task |-> t, run |-> r]
  /\ UNCHANGED <<now, task, baseline, runs, cancels, edits, reloads>>

CloseDialog ==
  /\ dialog # NoDialog
  /\ dialog' = NoDialog
  /\ runs' = Dismissed(dialog.run)
  /\ UNCHANGED <<now, task, baseline, cancels, edits, reloads>>

\* onRun: the dialog knows only of its own run.
PressRun ==
  /\ dialog # NoDialog
  /\ ~Skipped(dialog.task)
  /\ dialog.run # NoRun => runs[dialog.run].page # "running"
  /\ Len(runs) < MaxRuns
  /\ runs' = Append(Dismissed(dialog.run), Run(dialog.task, FALSE, reloads))
  /\ dialog' = [dialog EXCEPT !.run = Len(runs) + 1]
  /\ UNCHANGED <<now, task, baseline, cancels, edits, reloads>>

\* cancelRun, by the dialog or by the assistant that started the run.
PressCancel ==
  /\ \E r \in RunIds :
       /\ runs[r].page = "running"
       /\ r = dialog.run \/ ~runs[r].auto
       /\ r \notin cancels
       /\ cancels' = cancels \cup {r}
  /\ UNCHANGED <<now, task, baseline, runs, dialog, edits, reloads>>

-----------------------------------------------------------------------------
(* The backend *)

\* tasks_cancel finds the run only while it is registered.
HandleCancel ==
  /\ \E r \in cancels :
       /\ cancels' = cancels \ {r}
       /\ runs' = IF runs[r].call = "active"
                  THEN [runs EXCEPT ![r].cancel = TRUE] ELSE runs
  /\ UNCHANGED <<now, task, baseline, dialog, edits, reloads>>

\* The status tasks_run gives the row: a run whose step failed ends in error
\* although run_all answers Ok.
RowStatus(run) ==
  IF run.result \in {"failed", "error"} THEN "error" ELSE run.result

\* finalize, for the answer of ipc.tasks.run.
PageStatus(run) ==
  CASE run.result = "cancelled" -> "cancelled"
    [] run.result # "cancelled" /\ (run.failed \/ run.result = "error") -> "error"
    [] OTHER -> "done"

\* tasks_run: the run is registered and gets its row.  The task may be gone, or
\* its stored steps unreadable: then there is neither.
Register(r) ==
  /\ runs[r].call = "sent"
  /\ \/ runs' = [runs EXCEPT ![r].call = "active", ![r].row = "running"]
     \/ runs' = [runs EXCEPT ![r].call = "ended", ![r].result = "error"]
  /\ UNCHANGED <<now, task, baseline, dialog, cancels, edits, reloads>>

Ends(r, result) ==
  runs' = [runs EXCEPT ![r].result = result,
                       ![r].failed = result = "failed"]

\* connect_task_session and execute_steps.  The events of a step reach the page
\* in order and before the answer of the call.
Step(r) ==
  /\ runs[r].call = "active" /\ runs[r].result = None
  /\ \/ /\ runs[r].left > 0 /\ ~runs[r].cancel
        /\ runs' = [runs EXCEPT ![r].left = @ - 1]
     \/ runs[r].left = 0 /\ Ends(r, "done")
     \/ runs[r].left > 0 /\ Ends(r, "failed")
     \/ runs[r].left = Steps /\ Ends(r, "error")
     \/ runs[r].cancel /\ runs[r].left > 0 /\ Ends(r, "cancelled")
  /\ UNCHANGED <<now, task, baseline, dialog, cancels, edits, reloads>>

\* The run leaves task_cancels and task_run_repo::finish writes its row.
Finish(r) ==
  /\ runs[r].call = "active" /\ runs[r].result # None
  /\ runs' = [runs EXCEPT ![r].call = "ended",
                ![r].row = IF @ = "running" THEN RowStatus(runs[r]) ELSE @]
  /\ UNCHANGED <<now, task, baseline, dialog, cancels, edits, reloads>>

\* Nothing is left of the call but what the page and the history say.
Over(run) ==
  [run EXCEPT !.call = "over", !.left = 0, !.cancel = FALSE, !.result = None,
              !.failed = FALSE]

\* The answer: finalize, and a run nobody looks at is reported and dismissed.
Answer(r) ==
  /\ runs[r].call = "ended"
  /\ runs' = [runs EXCEPT ![r] = Over([runs[r] EXCEPT
                !.page = IF runs[r].page = "gone" \/ dialog.run # r
                         THEN "gone" ELSE PageStatus(runs[r])])]
  /\ UNCHANGED <<now, task, baseline, dialog, cancels, edits, reloads>>

\* tasks_runs_delete and tasks_runs_clear: never a running one.
DeleteRow(r) ==
  /\ runs[r].row \in {"done", "error", "cancelled"}
  /\ runs' = [runs EXCEPT ![r].row = "none"]
  /\ UNCHANGED <<now, task, baseline, dialog, cancels, edits, reloads>>

\* The page is loaded again: its store is empty and cleanup_orphaned_sessions
\* cancels what is registered.
Reload ==
  /\ edits + reloads < MaxChanges
  /\ reloads' = reloads + 1
  /\ runs' = [r \in RunIds |->
                [runs[r] EXCEPT !.page = "gone",
                                !.cancel = @ \/ runs[r].call = "active"]]
  /\ dialog' = NoDialog
  /\ UNCHANGED <<now, task, baseline, cancels, edits>>

\* Mutant: nobody looks after the rows of an earlier life.
LeftAsIs(row) == row

\* mark_interrupted
Interrupted(row) == IF row = "running" THEN "error" ELSE row

\* The application ends, at any moment, and is started again.
Restart ==
  /\ edits + reloads < MaxChanges
  /\ reloads' = reloads + 1
  /\ runs' = [r \in RunIds |->
                Over([runs[r] EXCEPT !.page = "gone", !.row = Interrupted(@)])]
  /\ dialog' = NoDialog
  /\ cancels' = {}
  /\ UNCHANGED <<now, task, baseline, edits>>

Next ==
  \/ Pass
  \/ \E t \in Task : SaveTask(t) \/ OpenDialog(t)
  \/ Tick
  \/ CloseDialog \/ PressRun \/ PressCancel \/ HandleCancel
  \/ \E r \in RunIds :
       Register(r) \/ Step(r) \/ Finish(r) \/ Answer(r) \/ DeleteRow(r)
  \/ Reload \/ Restart

Spec == Init /\ [][Next]_vars

-----------------------------------------------------------------------------
(* Properties *)

\* The variables have the values the code gives them.
TypeOK ==
  /\ now \in 0..MaxTime
  /\ task \in [Task -> [schedule : Schedule \cup {None}, host : BOOLEAN]]
  /\ \A t \in Task : baseline[t] \in Baselines \cup {None}
  /\ Len(runs) <= MaxRuns
  /\ \A r \in RunIds :
       /\ runs[r].page \in Status \cup {"gone"}
       /\ runs[r].row \in Status \cup {"none"}
       /\ runs[r].call \in {"sent", "active", "ended", "over"}
       /\ runs[r].left \in 0..Steps
  /\ dialog.run \in RunIds \cup {NoRun}
  /\ cancels \subseteq RunIds

\* The history says "running" of exactly the runs the backend is executing,
\* whatever is cancelled, deleted, reloaded or restarted meanwhile
\* (task_run_repo.rs, tasks_run).
HistoryIsTrue ==
  \A r \in RunIds : runs[r].row = "running" <=> runs[r].call = "active"

\* What the page says of a run that is over is what the history says of it
\* (finalize in store.ts, the status match of tasks_run).
PageAgreesWithHistory ==
  \A r \in RunIds :
    runs[r].page # "gone" /\ runs[r].call = "over" /\ runs[r].row # "none"
    => runs[r].page = runs[r].row

\* Both records of a run are true.
RunsAreTrue == HistoryIsTrue /\ PageAgreesWithHistory

\* Between two starts of a task by its schedule there is a time at which that
\* schedule was due: a tick, a reload or a restart never starts a task twice
\* for the same time, and missed times collapse into one run (dueTasks).
OneRunPerDueTime ==
  \A r, later \in RunIds :
    /\ r < later /\ runs[r].task = runs[later].task
    /\ runs[r].auto /\ runs[later].auto
    => \E time \in DueAt[runs[later].sig] :
         runs[r].at < time /\ time <= runs[later].at

\* The schedule never starts a task while a run of it that this page knows of
\* is going on in the backend (dueTasks, selectRunningRunForTask).
ScheduleWaits ==
  \A r, later \in RunIds :
    /\ r < later /\ runs[r].task = runs[later].task
    /\ runs[later].auto /\ runs[r].pages = runs[later].pages
    => runs[r].call = "over"

\* The schedule starts what is due, once, and never beside a run.
ScheduleIsKept == OneRunPerDueTime /\ ScheduleWaits
=============================================================================
