----------------------------- MODULE AppUpdates -----------------------------
(***************************************************************************)
(* Updates of the application: checks and installations (update/mod.rs),   *)
(* the periodic one and those the user asks for, and the views that follow *)
(* the status and offer what is there (features/updates).                  *)
(*                                                                         *)
(* Status and event are one step, since only the holder of the operation   *)
(* sets them; installations that cannot update themselves are left out.    *)
(* Events arrive in order, the answer to a view's first read at any time.  *)
(***************************************************************************)
EXTENDS Naturals, Sequences

CONSTANTS
  View,             \* the notifier and the settings page
  Version,          \* releases
  None,
  MaxEvents,        \* bound: changes of the status
  MaxMounts         \* bound: how often a view begins to follow it

AppUpdatesAssumption == None \notin Version /\ MaxEvents \in Nat /\ MaxMounts \in Nat

VARIABLES
  status,      \* UpdateManager.status
  pending,     \* the update found last
  operation,   \* who holds the lock: nobody, a check, an installation
  requests,    \* commands on their way
  view,        \* view[w]: whether it listens, reads, follows; what it read
  shown,       \* shown[w]: the status the view has
  latest,      \* latestUpdateStatus, where a view begins
  events,      \* events[w]: on their way to w
  toasts,      \* what the notifier shows: <<"available" or "ready", version>>
  notified,    \* what it has shown
  changes, mounts

vars == <<status, pending, operation, requests, view, shown, latest, events, toasts,
          notified, changes, mounts>>
page == <<view, shown, latest, toasts, notified, mounts>>

Status(s, v) == [s |-> s, v |-> v]
Checking == Status("checking", None)
Busy == {"checking", "downloading", "ready"}
Away == [at |-> "away", read |-> Checking]

Init ==
  /\ status = Status("idle", None) /\ pending = None /\ operation = "none" /\ requests = {}
  /\ view = [w \in View |-> Away] /\ shown = [w \in View |-> Checking]
  /\ latest = Checking /\ events = [w \in View |-> <<>>]
  /\ toasts = {} /\ notified = {} /\ changes = 0 /\ mounts = 0

-----------------------------------------------------------------------------
(* The backend.                                                            *)

Listens(w) == view[w].at # "away"

SetStatus(s) ==
  /\ changes < MaxEvents /\ changes' = changes + 1
  /\ status' = s
  /\ events' = [w \in View |-> IF Listens(w) THEN Append(events[w], s) ELSE events[w]]

(* check: from run_periodic or from the user.                              *)
MayCheck == operation = "none" /\ status.s \notin {"downloading", "ready"}

BeginCheck ==
  /\ MayCheck /\ operation' = "check" /\ SetStatus(Checking)
  /\ UNCHANGED <<pending, page>>

Periodic == status.s \notin Busy /\ BeginCheck /\ UNCHANGED requests

UserCheck ==
  /\ "check" \in requests /\ requests' = requests \ {"check"}
  /\ \/ BeginCheck
     \/ ~MayCheck /\ UNCHANGED <<status, pending, operation, events, changes, page>>

EndCheck ==
  /\ operation = "check" /\ operation' = "none"
  /\ \/ \E v \in Version : pending' = v /\ SetStatus(Status("available", v))
     \/ pending' = None /\ SetStatus(Status("current", None))
     \/ SetStatus(Status("check failed", None)) /\ UNCHANGED pending
  /\ UNCHANGED <<requests, page>>

(* install: of the update that was found last.                             *)
Install ==
  /\ "install" \in requests /\ requests' = requests \ {"install"}
  /\ CASE operation # "none" -> UNCHANGED <<status, operation, events, changes>>
       [] operation = "none" /\ pending = None ->
            SetStatus(Status("install failed", None)) /\ UNCHANGED operation
       [] OTHER -> SetStatus(Status("downloading", pending)) /\ operation' = "install"
  /\ UNCHANGED <<pending, page>>

Progress ==
  /\ operation = "install" /\ SetStatus(status)
  /\ UNCHANGED <<pending, operation, requests, page>>

EndInstall ==
  /\ operation = "install" /\ operation' = "none"
  /\ SetStatus(Status("ready", status.v)) \/ SetStatus(Status("install failed", None))
  /\ UNCHANGED <<pending, requests, page>>

-----------------------------------------------------------------------------
(* The views: useUpdateStatus with initializeUpdateStatus.                 *)

backend == <<status, pending, operation, requests, changes>>

Mount(w) ==
  /\ view[w].at = "away" /\ mounts < MaxMounts /\ mounts' = mounts + 1
  /\ view' = [view EXCEPT ![w].at = "listens"] /\ shown' = [shown EXCEPT ![w] = latest]
  /\ UNCHANGED <<backend, latest, events, toasts, notified>>

Unmount(w) ==
  /\ w # "notifier" /\ view[w].at # "away" /\ view' = [view EXCEPT ![w] = Away]
  /\ events' = [events EXCEPT ![w] = <<>>]
  /\ UNCHANGED <<backend, shown, latest, toasts, notified, mounts>>

(* The notifier: one toast for a version, gone when it is no longer true.  *)
Offers(w, s) ==
  IF w # "notifier" THEN UNCHANGED <<toasts, notified>>
  ELSE LET kept == {x \in toasts : x[1] = "ready"}
           news == {<<s.s, s.v>>} \ notified
       IN IF s.s \in {"available", "ready"}
          THEN /\ notified' = notified \cup news
               /\ toasts' = (IF news # {} \/ s.s = "ready" THEN kept ELSE toasts) \cup news
          ELSE notified' = notified /\ toasts' = kept

Apply(w, s) == shown' = [shown EXCEPT ![w] = s] /\ latest' = s /\ Offers(w, s)

(* The backend answers the read; the answer is on its way.                 *)
Read(w) ==
  /\ view[w].at = "listens" /\ view' = [view EXCEPT ![w] = [at |-> "reads", read |-> status]]
  /\ UNCHANGED <<backend, shown, latest, events, toasts, notified, mounts>>

Hear(w) ==
  /\ events[w] # <<>> /\ events' = [events EXCEPT ![w] = Tail(@)]
  /\ view' = [view EXCEPT ![w].at = IF @ = "follows" THEN @ ELSE "overtaken"]
  /\ Apply(w, Head(events[w])) /\ UNCHANGED <<backend, mounts>>

Always(w) == TRUE               \* a fault: the revision is not compared

(* A read that an event has overtaken says nothing any more.               *)
IsNews(w) == view[w].at = "reads"

HearRead(w) ==
  /\ view[w].at \in {"reads", "overtaken"} /\ view' = [view EXCEPT ![w].at = "follows"]
  /\ IF IsNews(w) THEN Apply(w, view[w].read)
     ELSE UNCHANGED <<shown, latest, toasts, notified>>
  /\ UNCHANGED <<backend, events, mounts>>

(* The user or the assistant asks for a check or for the installation.     *)
Ask ==
  /\ \E what \in {"check", "install"} : requests' = requests \cup {what}
  /\ UNCHANGED <<status, pending, operation, changes, events, page>>

Next ==
  \/ Periodic \/ UserCheck \/ EndCheck \/ Install \/ Progress \/ EndInstall \/ Ask
  \/ \E w \in View : Mount(w) \/ Unmount(w) \/ Read(w) \/ Hear(w) \/ HearRead(w)

Spec == Init /\ [][Next]_vars

-----------------------------------------------------------------------------
Statuses == [s : {"idle", "current", "available", "check failed", "install failed"} \cup Busy,
             v : Version \cup {None}]

TypeOK ==
  /\ status \in Statuses /\ pending \in Version \cup {None}
  /\ operation \in {"none", "check", "install"} /\ requests \subseteq {"check", "install"}
  /\ shown \in [View -> Statuses] /\ latest \in Statuses

(* A status that says something is going on has somebody who ends it.      *)
BusyHasOwner ==
  /\ status.s = "checking" => operation = "check"
  /\ status.s = "downloading" <=> operation = "install"

(* Once nothing is on its way a view shows the status as it is, whatever   *)
(* changed while it began to follow it, and only what is available is      *)
(* offered.                                                                *)
ViewIsTrue ==
  \A w \in View : view[w].at = "follows" /\ events[w] = <<>> =>
    /\ shown[w] = status
    /\ w = "notifier" => \A x \in toasts : x[1] = "available" => status = Status(x[1], x[2])
=============================================================================
