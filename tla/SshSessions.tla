---------------------------- MODULE SshSessions -----------------------------
(***************************************************************************)
(* The SSH session of one terminal pane: the SessionManager                *)
(* (ssh/session.rs), the MonitorManager that polls over the session's      *)
(* connection (ssh/monitor.rs), and the page that gives them commands      *)
(* (features/terminal).  All maps are keyed by the pane's id.              *)
(*                                                                         *)
(* The page numbers its attempts to connect and names the attempt in every *)
(* command.  A command is handled by a task of its own, so commands arrive *)
(* in any order (calls is a set), also after the page that gave them is    *)
(* gone; a restored pane numbers its attempts from the beginning.  chan    *)
(* tells apart what the code tells apart by the ipc Channel of a connect:  *)
(* which connect of which page a run reports to.                           *)
(*                                                                         *)
(* Dropping a SessionEntry closes its close_tx, which the run sees like a  *)
(* close: told.  Input and resizing are left out: they go to the entry     *)
(* with their attempt or nowhere.                                          *)
(***************************************************************************)
EXTENDS Integers, FiniteSets

CONSTANTS
  MaxConnects,      \* bound: connects the pages ask for
  MaxPages          \* bound: page loads

ASSUME SessionAssumption == MaxConnects \in Nat /\ MaxPages \in Nat

VARIABLES
  pane,         \* what the page knows of the pane
  chans,        \* connects asked for so far
  calls,        \* commands under way
  run,          \* run[i]: the reservation and task of the i-th connect
  sessions,     \* the run whose entry is in the map of sessions, None or a run
  connections,  \* the run whose connection is in the map of connections
  monitor,      \* monitor[m]: the task of monitor generation m
  monitors,     \* the monitor in the map of active monitors
  generations,  \* monitors started so far
  loads,        \* page loads
  loading,      \* the cleanup of a page load is half-way
  crossed       \* history: a connect was handled after the page had taken it
                \* back, or after its page was gone

vars == <<pane, chans, calls, run, sessions, connections, monitor, monitors,
          generations, loads, loading, crossed>>
page == <<pane, chans, loads, loading>>
backend == <<run, sessions, connections>>
polling == <<monitor, monitors, generations>>

None == 0
Chan == 1 .. MaxConnects
Mon == 1 .. MaxConnects         \* a connect is watched at most once
Attempt == 0 .. MaxConnects

(* A pane's view: opened or restored, attempting, connected, ended, closed. *)
Ui == {"new", "waiting", "connected", "ended", "closed"}
Pane == [ui : Ui, attempt : Attempt, chan : {None} \cup Chan,
         released : BOOLEAN, polled : BOOLEAN]
UnmountedUnnumbered(ui) ==      \* a fault: a restored pane has no attempt
  [ui |-> ui, attempt |-> -1, chan |-> None, released |-> TRUE, polled |-> FALSE]

Unmounted(ui) == [ui |-> ui, attempt |-> 0, chan |-> None, released |-> TRUE, polled |-> FALSE]

Call == [cmd : {"connect", "disconnect", "watch", "check", "unwatch"},
         attempt : Attempt, chan : {None} \cup Chan]
Command(cmd, p) == [cmd |-> cmd, attempt |-> p.attempt, chan |-> p.chan]

RunState == {"unborn", "preparing", "connecting", "open", "leaving", "cleaned", "ended"}
Unborn == [pc |-> "unborn", attempt |-> 0, told |-> FALSE, opened |-> FALSE]
MonState == {"unborn", "look", "poll", "done", "ended"}
NoMonitor == [pc |-> "unborn", attempt |-> 0, told |-> FALSE]

Init ==
  /\ pane = Unmounted("new")
  /\ chans = 0 /\ calls = {}
  /\ run = [i \in Chan |-> Unborn]
  /\ sessions = None /\ connections = None
  /\ monitor = [m \in Mon |-> NoMonitor] /\ monitors = None /\ generations = 0
  /\ loads = 0 /\ loading = FALSE
  /\ crossed = FALSE

-----------------------------------------------------------------------------
(* The page: TerminalView, TerminalSession and the tabs.                   *)

(* stopMonitor and disconnectTransport: at most one of each per connect,   *)
(* and one more disconnect when the pane is closed.                        *)
Unwatch(p) == IF p.polled THEN {Command("unwatch", p)} ELSE {}
Release(p) ==
  (IF p.released THEN {} ELSE {Command("disconnect", p)}) \cup Unwatch(p)

(* Mount the terminal or connect it again: dispose the session of the last *)
(* attempt and start a new one.                                            *)
Connect ==
  /\ pane.ui # "closed" /\ ~loading
  /\ chans < MaxConnects
  /\ chans' = chans + 1
  /\ pane' = [ui |-> "waiting", chan |-> chans', released |-> FALSE, polled |-> FALSE,
              attempt |-> IF pane.ui = "new" /\ loads = 0 THEN 0 ELSE pane.attempt + 1]
  /\ calls' = calls \cup Release(pane) \cup {Command("connect", pane')}
  /\ UNCHANGED <<backend, polling, loads, loading, crossed>>

(* The status "connected" arrives: watch the host.                         *)
HearConnected ==
  /\ pane.ui = "waiting" /\ run[pane.chan].opened
  /\ pane' = [pane EXCEPT !.ui = "connected", !.polled = TRUE]
  /\ calls' = calls \cup {Command("watch", pane)}
  /\ UNCHANGED <<chans, backend, polling, loads, loading, crossed>>

(* The status "closed" or "error" arrives.                                 *)
HearEnd ==
  /\ pane.ui \in {"waiting", "connected"}
  /\ run[pane.chan].pc \in {"leaving", "cleaned", "ended"}
  /\ run[pane.chan].opened => pane.ui = "connected"
  /\ pane' = [pane EXCEPT !.ui = "ended", !.polled = FALSE]
  /\ calls' = calls \cup Unwatch(pane)
  /\ UNCHANGED <<chans, backend, polling, loads, loading, crossed>>

(* The watchdog runs out, or the input does not get through.               *)
GiveUp ==
  /\ pane.ui \in {"waiting", "connected"}
  /\ pane' = [pane EXCEPT !.ui = "ended", !.released = TRUE, !.polled = FALSE]
  /\ calls' = calls \cup Release(pane)
  /\ UNCHANGED <<chans, backend, polling, loads, loading, crossed>>

(* releasePane                                                             *)
ClosePane ==
  /\ pane.ui # "closed" /\ ~loading
  /\ calls' = calls \cup Release(pane) \cup {Command("disconnect", pane)}
  /\ pane' = Unmounted("closed")
  /\ UNCHANGED <<chans, backend, polling, loads, loading, crossed>>

-----------------------------------------------------------------------------
(* SessionManager                                                          *)

Handle(c) == c \in calls /\ calls' = calls \ {c}
Tell(i) == IF i = None THEN run ELSE [run EXCEPT ![i].told = TRUE]

AnyEntry(a) == sessions # None  \* a fault: the attempt is not compared

EntryOf(a) == sessions # None /\ run[sessions].attempt = a

(* reserve, maybe after the disconnect that should follow it, or after its *)
(* page is gone: then nobody is left to close the run.                     *)
Crosses(c) ==
  /\ pane.chan # c.chan \/ pane.ui = "ended"
  /\ \A d \in calls : d.cmd = "disconnect" => d.chan # c.chan

Reserve(c) ==
  /\ c.cmd = "connect" /\ Handle(c)
  /\ IF EntryOf(c.attempt) THEN UNCHANGED <<run, sessions>>
     ELSE /\ sessions' = c.chan
          /\ run' = [Tell(sessions) EXCEPT
               ![c.chan] = [Unborn EXCEPT !.pc = "preparing", !.attempt = c.attempt]]
  /\ crossed' = (crossed \/ Crosses(c))
  /\ UNCHANGED <<page, connections, polling>>

(* Host and credentials are read; if that fails the reservation is         *)
(* abandoned.                                                              *)
Prepared(i) ==
  /\ run[i].pc = "preparing"
  /\ run' = [run EXCEPT ![i].pc = "connecting"]
  /\ UNCHANGED <<page, calls, sessions, connections, polling, crossed>>

Abandon(i) ==
  /\ run[i].pc = "preparing"
  /\ IF EntryOf(run[i].attempt)
     THEN sessions' = None /\ run' = [Tell(sessions) EXCEPT ![i].pc = "ended"]
     ELSE sessions' = sessions /\ run' = [run EXCEPT ![i].pc = "ended"]
  /\ UNCHANGED <<page, calls, connections, polling, crossed>>

(* Connection and shell are there: enter the connection and report it.     *)
(* select! may take this branch although the run has just been told.       *)
Established(i) ==
  /\ run[i].pc = "connecting"
  /\ run' = [run EXCEPT ![i].pc = "open", ![i].opened = TRUE]
  /\ connections' = i
  /\ UNCHANGED <<page, calls, sessions, polling, crossed>>

(* Connecting fails, the shell exits, the connection is lost, or the run   *)
(* has been told.                                                          *)
Leave(i) ==
  /\ run[i].pc \in {"connecting", "open"}
  /\ run' = [run EXCEPT ![i].pc = "leaving"]
  /\ UNCHANGED <<page, calls, sessions, connections, polling, crossed>>

NeverOwned(i) == connections = i /\ sessions = i
                                \* a fault: only the current run cleans up

OwnsConnection(i) == connections # None /\ run[connections].attempt = run[i].attempt

(* Both run_session_inner and start do this.                               *)
RemoveConnection(i) ==
  /\ run[i].pc = "leaving"
  /\ \E pc \in {"leaving", "cleaned"} : run' = [run EXCEPT ![i].pc = pc]
  /\ connections' = IF OwnsConnection(i) THEN None ELSE connections
  /\ UNCHANGED <<page, calls, sessions, polling, crossed>>

RemoveEntry(i) ==
  /\ run[i].pc = "cleaned"
  /\ IF EntryOf(run[i].attempt)
     THEN sessions' = None /\ run' = [Tell(sessions) EXCEPT ![i].pc = "ended"]
     ELSE sessions' = sessions /\ run' = [run EXCEPT ![i].pc = "ended"]
  /\ UNCHANGED <<page, calls, connections, polling, crossed>>

(* close                                                                   *)
Disconnect(c) ==
  /\ c.cmd = "disconnect" /\ Handle(c)
  /\ IF EntryOf(c.attempt) THEN sessions' = None /\ run' = Tell(sessions)
     ELSE UNCHANGED <<run, sessions>>
  /\ UNCHANGED <<page, connections, polling, crossed>>

-----------------------------------------------------------------------------
(* MonitorManager                                                          *)

ConnectionOf(a) == connections # None /\ run[connections].attempt = a
MonitorOf(a) == monitors # None /\ monitor[monitors].attempt = a
TellMonitor(m) == IF m = None THEN monitor ELSE [monitor EXCEPT ![m].told = TRUE]

(* start: look for the connection, then enter the monitor.                 *)
CheckConnection(c) ==
  /\ c.cmd = "watch" /\ c \in calls
  /\ calls' = (calls \ {c}) \cup
       IF ConnectionOf(c.attempt) THEN {[c EXCEPT !.cmd = "check"]} ELSE {}
  /\ UNCHANGED <<page, backend, polling, crossed>>

StartMonitor(c) ==
  /\ c.cmd = "check" /\ Handle(c)
  /\ generations < MaxConnects
  /\ IF MonitorOf(c.attempt) THEN UNCHANGED polling
     ELSE /\ generations' = generations + 1
          /\ monitors' = generations'
          /\ monitor' = [TellMonitor(monitors) EXCEPT
               ![generations'] = [pc |-> "look", attempt |-> c.attempt, told |-> FALSE]]
  /\ UNCHANGED <<page, backend, crossed>>

StopMonitor(c) ==
  /\ c.cmd = "unwatch" /\ Handle(c)
  /\ IF MonitorOf(c.attempt)
     THEN monitors' = None /\ monitor' = TellMonitor(monitors)
     ELSE UNCHANGED <<monitor, monitors>>
  /\ UNCHANGED <<page, backend, generations, crossed>>

(* run_monitor: poll over the connection of the attempt while it is there. *)
Poll(m) ==
  /\ monitor[m].pc \in {"look", "poll"}
  /\ \/ /\ monitor[m].pc = "look"
        /\ monitor' = [monitor EXCEPT
             ![m].pc = IF ConnectionOf(monitor[m].attempt) THEN "poll" ELSE "done"]
     \/ /\ monitor[m].pc = "poll"
        /\ monitor' = [monitor EXCEPT ![m].pc = IF monitor[m].told THEN "done" ELSE "look"]
  /\ UNCHANGED <<page, calls, backend, monitors, generations, crossed>>

AnyMonitor(m) == TRUE           \* a fault: the generation is not compared

IsActive(m) == monitors = m

FinishMonitor(m) ==
  /\ monitor[m].pc = "done"
  /\ monitor' = [monitor EXCEPT ![m].pc = "ended"]
  /\ monitors' = IF IsActive(m) THEN None ELSE monitors
  /\ UNCHANGED <<page, calls, backend, generations, crossed>>

-----------------------------------------------------------------------------
(* A page load: close_all, then stop_all; then the new page restores the   *)
(* pane, whose attempts it has not stored.                                 *)
CloseAll ==
  /\ ~loading /\ loads < MaxPages
  /\ loads' = loads + 1 /\ loading' = TRUE
  /\ sessions' = None /\ run' = Tell(sessions)
  /\ pane' = IF pane.ui = "closed" THEN pane ELSE Unmounted("new")
  /\ UNCHANGED <<chans, calls, connections, polling, crossed>>

StopMonitors ==
  /\ loading
  /\ loading' = FALSE
  /\ monitors' = None /\ monitor' = TellMonitor(monitors)
  /\ UNCHANGED <<pane, chans, calls, backend, generations, loads, crossed>>

-----------------------------------------------------------------------------
Page == Connect \/ HearConnected \/ HearEnd \/ GiveUp \/ ClosePane \/ CloseAll
Handler(c) ==
  Reserve(c) \/ Disconnect(c) \/ CheckConnection(c) \/ StartMonitor(c) \/ StopMonitor(c)
Session(i) ==
  \/ Prepared(i) \/ Abandon(i) \/ Established(i) \/ Leave(i)
  \/ RemoveConnection(i) \/ RemoveEntry(i)
Monitoring(m) == Poll(m) \/ FinishMonitor(m)

Next ==
  \/ Page \/ StopMonitors
  \/ \E c \in calls : Handler(c)
  \/ \E i \in Chan : Session(i)
  \/ \E m \in Mon : Monitoring(m)

Spec == Init /\ [][Next]_vars

(* Commands are handled, attempts to connect end (timeouts), a run that    *)
(* was told and a monitor get on.  An open session may stay open.          *)
FairSpec ==
  /\ Spec
  /\ WF_vars(\E c \in calls : Handler(c))
  /\ WF_vars(StopMonitors)
  /\ \A i \in Chan :
       /\ WF_vars(Prepared(i) \/ Abandon(i))
       /\ WF_vars(run[i].pc = "connecting" /\ (Established(i) \/ Leave(i)))
       /\ WF_vars(run[i].told /\ Leave(i))
       /\ WF_vars(RemoveConnection(i) \/ RemoveEntry(i))
  /\ \A m \in Mon : WF_vars(Monitoring(m))

-----------------------------------------------------------------------------
(* Properties.                                                             *)

(* Every variable has the shape the code gives it.                         *)
TypeOK ==
  /\ pane \in Pane
  /\ chans \in 0 .. MaxConnects /\ calls \in SUBSET Call
  /\ run \in [Chan -> [pc : RunState, attempt : Attempt, told : BOOLEAN, opened : BOOLEAN]]
  /\ sessions \in {None} \cup Chan /\ connections \in {None} \cup Chan
  /\ monitor \in [Mon -> [pc : MonState, attempt : Attempt, told : BOOLEAN]]
  /\ monitors \in {None} \cup Mon /\ generations \in 0 .. MaxConnects
  /\ loads \in 0 .. MaxPages /\ loading \in BOOLEAN /\ crossed \in BOOLEAN

AtWork(i) == run[i].pc \in {"preparing", "connecting", "open"}
Polling(m) == monitor[m].pc \in {"look", "poll"}

(* A run that was not told to end is the one in the map, so that close and *)
(* a page load find it; the same holds for monitors.                       *)
NoLeak ==
  /\ \A i \in Chan : AtWork(i) /\ ~run[i].told => sessions = i
  /\ \A m \in Mon : Polling(m) /\ ~monitor[m].told => monitors = m

(* The map of connections never keeps the connection of a run that ended:  *)
(* nobody would ever take it out and the connection would stay up.         *)
NoDeadConnection ==
  connections # None => run[connections].pc \in {"open", "leaving"}

(* What belongs to an earlier connect, its end or a disconnect for it,     *)
(* does not end a later one.                                               *)
StaleSparesNew ==
  [][\A i \in Chan : ~run[i].told /\ run'[i].told /\ sessions = i /\ sessions' = None =>
       /\ \A j \in Chan \ {i} : run'[j].pc = run[j].pc
       /\ \A c \in calls \ calls' : c.cmd = "disconnect" => c.chan \notin 1 .. (i - 1)]_vars

(* Closing a pane releases everything in the end: the session, the         *)
(* connection and the monitor.                                             *)
Released ==
  /\ sessions = None /\ connections = None
  /\ \A i \in Chan : run[i].pc \in {"unborn", "ended"}
  /\ \A m \in Mon : monitor[m].pc \in {"unborn", "ended"}

ClosingReleases == (pane.ui = "closed" /\ calls = {} /\ ~crossed) ~> (Released \/ crossed)

=============================================================================
