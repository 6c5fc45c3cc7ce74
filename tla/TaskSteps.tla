------------------------------ MODULE TaskSteps ------------------------------
(***************************************************************************)
(* What one run of a task does: run_all of commands/tasks.rs with its      *)
(* connection, its steps and their retries, the commands it leaves behind, *)
(* its events on their way to the page and the states of the steps there.  *)
(* TaskRuns takes all of it for one action.                                *)
(***************************************************************************)
EXTENDS Integers, Sequences, SequencesExt

CONSTANTS
  Plans,             \* the tasks: sequences of steps [kind, retries]
  ConnectAttempts    \* CONNECT_ATTEMPTS

TaskStepsAssumption ==
  /\ ConnectAttempts \in Nat \ {0}
  /\ \A p \in Plans : p \in Seq([kind : {"local", "remote", "transfer"}, retries : Nat])

VARIABLES
  plan, pc,
  cancel,      \* the run's flag
  conn,        \* the connection of the run: "none", "open" or "lost"
  tries,       \* attempts to connect
  index,       \* the step that runs
  attempts,    \* attempts[i]: how often step i was begun
  alive,       \* processes <<step, kind>> that were begun and have not ended
  abandoned,   \* steps of which a remote command was left to itself
  outcomes,    \* as they will be written into the row
  row,         \* the status in the row
  channel,     \* events <<step, status>> on their way to the page
  answer,      \* the answer of tasks_run on its way
  view,        \* view[i]: the state of step i on the page
  shown,       \* the status of the run on the page
  overtaken    \* history: the answer was heard before the last event

vars == <<plan, pc, cancel, conn, tries, index, attempts, alive, abandoned, outcomes, row,
          channel, answer, view, shown, overtaken>>
page == <<view, shown, overtaken>>
report == <<outcomes, row, channel, answer>>
process == <<alive, abandoned, attempts>>

Count == Len(plan)
NeedsRemote == \E i \in DOMAIN plan : plan[i].kind # "local"
Here == plan[index]

Init ==
  /\ plan \in Plans
  /\ pc = (IF NeedsRemote THEN "connect" ELSE "next") /\ tries = 0 /\ index = 1
  /\ cancel = FALSE /\ conn = "none" /\ alive = {} /\ abandoned = {}
  /\ attempts = [i \in DOMAIN plan |-> 0]
  /\ outcomes = [i \in DOMAIN plan |-> "skipped"] /\ row = "running"
  /\ channel = <<>> /\ answer = "none"
  /\ view = [i \in DOMAIN plan |-> "pending"] /\ shown = "running" /\ overtaken = FALSE

-----------------------------------------------------------------------------
(* How steps and runs end.                                                 *)

Sends(events) == channel' = channel \o events
Skipped(from) == [k \in 1 .. Count - from + 1 |-> <<from + k - 1, "skipped">>]

(* run_all returns; the connection goes if the run got as far as to have one. *)
Ends(how) == pc' = how /\ UNCHANGED <<index, tries>>

(* What the row says of it.                                                *)
RowStatus(how) ==
  IF how = "ends" /\ (\E i \in DOMAIN plan : outcomes[i] = "error") THEN "error"
  ELSE IF how = "ends" THEN "done" ELSE how
AnswerStatus(how) == IF how = "ends" THEN "done" ELSE how

Succeeds ==
  /\ outcomes' = [outcomes EXCEPT ![index] = "done"] /\ Sends(<<<<index, "done">>>>)
  /\ index' = index + 1 /\ pc' = "next" /\ UNCHANGED tries

StepCancelled == Sends(Skipped(index)) /\ Ends("cancelled") /\ UNCHANGED outcomes

(* A failed attempt is repeated while there are retries and no cancel.     *)
GivesUp == attempts[index] > Here.retries \/ cancel
Fails ==
  IF GivesUp
  THEN /\ outcomes' = [outcomes EXCEPT ![index] = "error"]
       /\ Sends(<<<<index, "error">>>> \o Skipped(index + 1)) /\ Ends("ends")
  ELSE pc' = "backoff" /\ UNCHANGED <<outcomes, channel, index, tries>>

-----------------------------------------------------------------------------
(* The connection of a run with remote steps.                              *)

(* connect_task_session.  A cancel is looked at first.                     *)
Connect ==
  /\ pc = "connect" /\ ~cancel /\ tries' = tries + 1
  /\ \/ conn' = "open" /\ pc' = "next"
     \/ UNCHANGED conn /\ pc' = (IF tries' < ConnectAttempts THEN "connect wait" ELSE "error")
     \/ UNCHANGED conn /\ pc' = "error"           \* not worth another attempt
  /\ UNCHANGED <<plan, cancel, index, process, report, page>>

ConnectAgain ==
  /\ pc = "connect wait" /\ ~cancel /\ pc' = "connect"
  /\ UNCHANGED <<plan, cancel, conn, tries, index, process, report, page>>

(* A cancel while it connects or waits; the host may be gone before.       *)
NotConnected ==
  /\ \/ pc \in {"connect", "connect wait"} /\ cancel /\ pc' = "cancelled"
     \/ pc = "connect" /\ tries = 0 /\ pc' = "error"
  /\ UNCHANGED <<plan, cancel, conn, tries, index, process, report, page>>

ConnectionLost ==
  /\ conn = "open" /\ conn' = "lost"
  /\ UNCHANGED <<plan, pc, cancel, tries, index, process, report, page>>

-----------------------------------------------------------------------------
(* The steps: execute_steps, run_step_with_retries and run_step.           *)

Tries == pc' = "try" /\ attempts' = [attempts EXCEPT ![index] = @ + 1]

BeginStep ==
  /\ pc = "next"
  /\ \/ index > Count /\ Ends("ends") /\ UNCHANGED <<attempts, outcomes, channel>>
     \/ index <= Count /\ cancel /\ StepCancelled /\ UNCHANGED attempts
     \/ /\ index <= Count /\ ~cancel /\ Tries /\ Sends(<<<<index, "start">>>>)
        /\ UNCHANGED <<index, tries, outcomes>>
  /\ UNCHANGED <<plan, cancel, conn, alive, abandoned, row, answer, page>>

(* A command is spawned, or sent over the connection.                      *)
TryLocal ==
  /\ Here.kind = "local"
  /\ \/ /\ pc' = "local" /\ alive' = alive \cup {<<index, "local">>}
        /\ UNCHANGED <<index, tries, outcomes, channel>>
     \/ UNCHANGED alive /\ Fails
TryRemote ==
  /\ Here.kind = "remote"
  /\ \/ cancel /\ StepCancelled /\ UNCHANGED alive
     \/ ~cancel /\ conn = "lost" /\ Fails /\ UNCHANGED alive
     \/ /\ ~cancel /\ conn = "open" /\ pc' = "remote"
        /\ alive' = alive \cup {<<index, "remote">>}
        /\ UNCHANGED <<index, tries, outcomes, channel>>
TryTransfer ==
  /\ Here.kind = "transfer" /\ pc' = "transfer"
  /\ UNCHANGED <<alive, index, tries, outcomes, channel>>

Try ==
  /\ pc = "try" /\ (TryLocal \/ TryRemote \/ TryTransfer)
  /\ UNCHANGED <<plan, cancel, conn, abandoned, attempts, row, answer, page>>

(* run_local_command: a cancel or the time limit kills the process group.  *)
AfterKill == alive \ {<<index, "local">>}
KillLocal ==
  /\ pc = "local" /\ alive' = AfterKill
  /\ \/ cancel /\ StepCancelled
     \/ ~cancel /\ Fails
  /\ UNCHANGED <<plan, cancel, conn, abandoned, attempts, row, answer, page>>

(* The command exits.  Its output is read to the end, however long a child *)
(* in the background holds it; neither cancel nor time limit end that.     *)
LocalExits ==
  /\ pc = "local" /\ ~cancel /\ pc' \in {"drain", "drain failed"}
  /\ UNCHANGED <<plan, cancel, conn, tries, index, process, report, page>>
Drained ==
  /\ pc \in {"drain", "drain failed"} /\ alive' = AfterKill
  /\ IF pc = "drain" THEN Succeeds ELSE Fails
  /\ UNCHANGED <<plan, cancel, conn, abandoned, attempts, row, answer, page>>

(* run_remote_command: a command that is cancelled, timed out or cut off   *)
(* goes on as long as the server lets it.  No exit status counts as 0.     *)
RemoteEnds ==
  /\ pc = "remote" /\ ~cancel /\ conn = "open" /\ alive' = alive \ {<<index, "remote">>}
  /\ Succeeds \/ Fails
  /\ UNCHANGED <<plan, cancel, conn, abandoned, attempts, row, answer, page>>
RemoteLeft ==
  /\ pc = "remote" /\ abandoned' = abandoned \cup {index}
  /\ \/ cancel /\ StepCancelled
     \/ ~cancel /\ Fails
     \/ ~cancel /\ conn = "lost" /\ Succeeds
  /\ UNCHANGED <<plan, cancel, conn, alive, attempts, row, answer, page>>
LeftEnds ==
  /\ \E i \in abandoned :
       /\ <<i, "remote">> \in alive /\ ~(pc = "remote" /\ index = i)
       /\ alive' = alive \ {<<i, "remote">>}
  /\ UNCHANGED <<plan, pc, cancel, conn, tries, index, abandoned, attempts, report, page>>

(* run_transfer: FileTransfer with the flag of the run.                    *)
TransferEnds ==
  /\ pc = "transfer"
  /\ \/ conn = "open" /\ Succeeds
     \/ Fails
     \/ cancel /\ StepCancelled
  /\ UNCHANGED <<plan, cancel, conn, process, row, answer, page>>

RetryStep ==
  /\ pc = "backoff"
  /\ \/ cancel /\ StepCancelled /\ UNCHANGED attempts
     \/ ~cancel /\ Tries /\ UNCHANGED <<index, tries, outcomes, channel>>
  /\ UNCHANGED <<plan, cancel, conn, alive, abandoned, row, answer, page>>

(* The connection is closed, the row written and the call answered.        *)
Finish ==
  /\ pc \in {"ends", "error", "cancelled"}
  /\ conn' = "none" /\ pc' = "over" /\ row' = RowStatus(pc) /\ answer' = AnswerStatus(pc)
  /\ UNCHANGED <<plan, cancel, tries, index, process, outcomes, channel, page>>

(* tasks_cancel while the run is registered.                               *)
Cancel ==
  /\ pc # "over" /\ ~cancel /\ cancel' = TRUE
  /\ UNCHANGED <<plan, pc, conn, tries, index, process, report, page>>

-----------------------------------------------------------------------------
(* The page: features/tasks/store.ts.                                      *)

Applied(status) == IF status = "start" THEN "running" ELSE status

HearEvent ==
  /\ channel # <<>> /\ channel' = Tail(channel)
  /\ view' = [view EXCEPT ![Head(channel)[1]] = Applied(Head(channel)[2])]
  /\ UNCHANGED <<plan, pc, cancel, conn, tries, index, process, outcomes, row, answer, shown,
                 overtaken>>

(* finalize: a step that failed makes the run one that failed.             *)
Resolved(status) ==
  IF status # "cancelled" /\ (\E i \in DOMAIN plan : view[i] = "error") THEN "error" ELSE status

HearAnswer ==
  /\ answer # "none" /\ answer' = "none" /\ shown' = Resolved(answer)
  /\ view' = [i \in DOMAIN plan |->
               IF view[i] \in {"pending", "running"} THEN "skipped" ELSE view[i]]
  /\ overtaken' = (channel # <<>>)
  /\ UNCHANGED <<plan, pc, cancel, conn, tries, index, process, outcomes, row, channel>>

Next ==
  \/ Connect \/ ConnectAgain \/ NotConnected \/ ConnectionLost \/ BeginStep \/ Try
  \/ KillLocal \/ LocalExits \/ Drained \/ RemoteEnds \/ RemoteLeft \/ LeftEnds
  \/ TransferEnds \/ RetryStep \/ Finish \/ Cancel \/ HearEvent \/ HearAnswer

Spec == Init /\ [][Next]_vars

-----------------------------------------------------------------------------
TypeOK ==
  /\ pc \in {"connect", "connect wait", "next", "try", "local", "drain", "drain failed",
             "remote", "transfer", "backoff", "ends", "error", "cancelled", "over"}
  /\ index \in 1 .. Count + 1 /\ conn \in {"none", "open", "lost"} /\ cancel \in BOOLEAN
  /\ alive \subseteq (DOMAIN plan) \X {"local", "remote"} /\ tries \in 0 .. ConnectAttempts
  /\ \A i \in DOMAIN plan : view[i] \in {"pending", "running", "done", "error", "skipped"}
  /\ {row, shown} \subseteq {"running", "done", "error", "cancelled"}

(* When everything has arrived, the page shows of each step what the row   *)
(* says, and of the run too.  Exempt from the latter is an answer that     *)
(* overtakes events: a failure that the page hears of later stays a        *)
(* success in its list and its message.                                    *)
StepsAreTrue ==
  /\ shown # "running" /\ channel = <<>> =>
       view = outcomes /\ (~overtaken => shown = row)
  /\ row = "done" => \A i \in DOMAIN plan : outcomes[i] = "done" /\ attempts[i] > 0

(* A step begins when all before it have succeeded, and no more often than *)
(* it may be repeated.                                                     *)
StepsInOrder ==
  \A i \in DOMAIN plan : attempts[i] > 0 =>
    attempts[i] <= plan[i].retries + 1 /\ \A j \in 1 .. i - 1 : outcomes[j] = "done"

(* No command runs beside an earlier attempt of itself or a later step,    *)
(* and none outlives the run, nor does its connection.  Exempt are remote  *)
(* commands that nobody can stop.                                          *)
NothingIsLeft ==
  /\ \A p \in alive : p[1] \in abandoned \/ (p[1] = index /\ pc \in {"local", "remote", "drain", "drain failed"})
  /\ pc = "over" => conn = "none"
=============================================================================
