------------------------- MODULE SshSessionsProofs --------------------------
(* Theorems about the SSH session of a pane.                               *)
EXTENDS SshSessions, TLAPS

RunRecord == [pc : RunState, attempt : Attempt, told : BOOLEAN, opened : BOOLEAN]
MonRecord == [pc : MonState, attempt : Attempt, told : BOOLEAN]

-----------------------------------------------------------------------------
(* The page's part: attempts never outnumber the connects asked for, and   *)
(* every connect is asked for once.                                        *)

PaneOK ==
  /\ pane.attempt <= chans
  /\ pane.chan <= chans
  /\ pane.ui \in {"waiting", "connected"} => pane.chan \in Chan
  /\ ~pane.released \/ pane.polled => pane.chan \in Chan

(* A connect under way is for a run not yet born.                          *)
Awaited ==
  /\ \A c \in calls : c.cmd = "connect" =>
       c.chan \in Chan /\ c.chan <= chans /\ run[c.chan].pc = "unborn"
  /\ \A c, d \in calls : c.cmd = "connect" /\ d.cmd = "connect" /\ c.chan = d.chan => c = d
  /\ \A i \in Chan : i > chans => run[i].pc = "unborn"

Inv == TypeOK /\ PaneOK /\ Awaited /\ NoLeak /\ NoDeadConnection

-----------------------------------------------------------------------------
(* Type correctness.                                                       *)

LEMMA UnmountedType ==
  \A ui \in Ui : Unmounted(ui) \in Pane /\ Unmounted(ui).chan = None
                   /\ Unmounted(ui).attempt = 0 /\ Unmounted(ui).ui = ui
                   /\ Unmounted(ui).released /\ ~Unmounted(ui).polled
  BY SessionAssumption DEF Unmounted, Pane, Attempt, Ui, None

LEMMA CommandType ==
  ASSUME NEW p \in Pane,
         NEW cmd \in {"connect", "disconnect", "watch", "check", "unwatch"}
  PROVE  Command(cmd, p) \in Call
  BY DEF Command, Call, Pane

LEMMA ReleaseType ==
  ASSUME NEW p \in Pane
  PROVE  /\ Release(p) \in SUBSET Call
         /\ Unwatch(p) \in SUBSET Call
         /\ \A c \in Release(p) : c.cmd # "connect"
         /\ \A c \in Unwatch(p) : c.cmd # "connect"
  <1>1. p.polled => Command("unwatch", p) \in Call
    BY CommandType
  <1>2. ~p.released => Command("disconnect", p) \in Call
    BY CommandType
  <1>3. Command("unwatch", p).cmd # "connect" /\ Command("disconnect", p).cmd # "connect"
    BY DEF Command
  <1> QED
    BY <1>1, <1>2, <1>3 DEF Release, Unwatch

LEMMA UnbornType == Unborn \in RunRecord /\ NoMonitor \in MonRecord
  BY SessionAssumption DEF Unborn, NoMonitor, RunRecord, MonRecord, RunState, MonState, Attempt

LEMMA TellType ==
  ASSUME TypeOK
  PROVE  /\ Tell(sessions) \in [Chan -> RunRecord]
         /\ \A i \in Chan : /\ Tell(sessions)[i].pc = run[i].pc
                            /\ Tell(sessions)[i].attempt = run[i].attempt
                            /\ ~Tell(sessions)[i].told => ~run[i].told /\ sessions # i
  <1>1. CASE sessions = None
    BY <1>1 DEF Tell, TypeOK, RunRecord, Chan, None
  <1>2. CASE sessions \in Chan /\ sessions # None
    BY <1>2 DEF Tell, TypeOK, RunRecord
  <1> QED
    BY <1>1, <1>2 DEF TypeOK

LEMMA TellMonitorType ==
  ASSUME TypeOK
  PROVE  /\ TellMonitor(monitors) \in [Mon -> MonRecord]
         /\ \A m \in Mon : /\ TellMonitor(monitors)[m].pc = monitor[m].pc
                           /\ ~TellMonitor(monitors)[m].told => ~monitor[m].told /\ monitors # m
  <1>1. CASE monitors = None
    BY <1>1 DEF TellMonitor, TypeOK, MonRecord, Mon, None
  <1>2. CASE monitors \in Mon /\ monitors # None
    BY <1>2 DEF TellMonitor, TypeOK, MonRecord
  <1> QED
    BY <1>1, <1>2 DEF TypeOK

LEMMA InitInv == Init => Inv
  <1> SUFFICES ASSUME Init PROVE Inv
    OBVIOUS
  <1>1. TypeOK
    <2>1. pane \in Pane
      BY UnmountedType DEF Init, Ui
    <2>2. /\ run \in [Chan -> RunRecord]
          /\ monitor \in [Mon -> MonRecord]
      BY UnbornType DEF Init
    <2>3. /\ chans \in 0 .. MaxConnects /\ generations \in 0 .. MaxConnects
          /\ loads \in 0 .. MaxPages
      BY SessionAssumption DEF Init
    <2>5. calls \in SUBSET Call /\ loading \in BOOLEAN /\ crossed \in BOOLEAN
      BY DEF Init
    <2>4. /\ sessions \in {None} \cup Chan /\ connections \in {None} \cup Chan
          /\ monitors \in {None} \cup Mon
      BY DEF Init
    <2> QED
      BY <2>1, <2>2, <2>3, <2>4, <2>5 DEF TypeOK, RunRecord, MonRecord
  <1>2. PaneOK
    BY UnmountedType, SessionAssumption DEF Init, PaneOK, Ui, None
  <1>3. Awaited
    BY DEF Init, Awaited, Unborn
  <1>4. NoLeak /\ NoDeadConnection
    BY DEF Init, NoLeak, NoDeadConnection, AtWork, Polling, Unborn, NoMonitor
  <1> QED
    BY <1>1, <1>2, <1>3, <1>4 DEF Inv

-----------------------------------------------------------------------------
(* The steps, one lemma for each part of the system.                       *)

LEMMA AwaitedKept ==
  ASSUME Awaited, chans' = chans,
         \A c \in calls' : c.cmd = "connect" => c \in calls,
         \A i \in Chan : run[i].pc = "unborn" => run'[i].pc = "unborn"
  PROVE  Awaited'
  BY DEF Awaited

LEMMA ConnectInv ==
  ASSUME Inv, Connect
  PROVE  Inv'
  <1> DEFINE n == chans + 1
             a == IF pane.ui = "new" /\ loads = 0 THEN 0 ELSE pane.attempt + 1
             p == [ui |-> "waiting", chan |-> n, released |-> FALSE, polled |-> FALSE,
                   attempt |-> a]
  <1>1. /\ chans \in Nat /\ n \in Chan /\ n \in 0 .. MaxConnects
        /\ a \in Attempt /\ a <= n
    BY SessionAssumption DEF Inv, TypeOK, PaneOK, Connect, Pane, Attempt, Chan
  <1>2. p \in Pane /\ p.chan = n /\ p.attempt = a
    BY <1>1 DEF Pane, Ui
  <1>3. /\ chans' = n /\ pane' = p
        /\ calls' = calls \cup Release(pane) \cup {Command("connect", p)}
        /\ UNCHANGED <<backend, polling, loads, loading, crossed>>
    BY DEF Connect
  <1> HIDE DEF n, a, p
  <1>4. /\ Release(pane) \in SUBSET Call
        /\ \A c \in Release(pane) : c.cmd # "connect"
    BY ReleaseType DEF Inv, TypeOK, PaneOK
  <1>5. Command("connect", p) \in Call /\ Command("connect", p).chan = n
    BY <1>1, <1>2, CommandType DEF Command
  <1>6. TypeOK'
    BY <1>1, <1>2, <1>3, <1>4, <1>5 DEF Inv, TypeOK, backend, polling
  <1>7. PaneOK'
    BY <1>1, <1>2, <1>3 DEF PaneOK, n, p
  <1>8. Awaited'
    <2>1. \A c \in calls' : c.cmd = "connect" => c \in calls \/ c = Command("connect", p)
      BY <1>3, <1>4
    <2>2. \A c \in calls : c.cmd = "connect" => c.chan < n /\ c.chan \in Nat
      BY <1>1 DEF Inv, TypeOK, Call, Chan, Awaited, n
    <2>3. run' = run /\ run[n].pc = "unborn"
      BY <1>1, <1>3 DEF backend, Inv, Awaited, n
    <2>4. ASSUME NEW c \in calls', c.cmd = "connect"
          PROVE  c.chan \in Chan /\ c.chan <= chans' /\ run'[c.chan].pc = "unborn"
      BY <1>1, <1>3, <1>5, <2>1, <2>2, <2>3, <2>4 DEF Inv, Awaited
    <2>5. ASSUME NEW c \in calls', NEW d \in calls',
                 c.cmd = "connect", d.cmd = "connect", c.chan = d.chan
          PROVE  c = d
      BY <1>1, <1>5, <2>1, <2>2, <2>5 DEF Inv, Awaited
    <2>6. ASSUME NEW i \in Chan, i > chans'
          PROVE  run'[i].pc = "unborn"
      BY <1>1, <1>3, <2>3, <2>6 DEF Inv, Awaited, Chan, n
    <2> QED
      BY <2>4, <2>5, <2>6 DEF Awaited
  <1>9. NoLeak' /\ NoDeadConnection'
    BY <1>3 DEF Inv, NoLeak, NoDeadConnection, AtWork, Polling, backend, polling
  <1> QED
    BY <1>6, <1>7, <1>8, <1>9 DEF Inv

(* The page's other steps ask for no connect.                              *)
LEMMA PaneInv ==
  ASSUME Inv, HearConnected \/ HearEnd \/ GiveUp \/ ClosePane
  PROVE  Inv'
  <1>1. UNCHANGED <<chans, backend, polling, loads, loading, crossed>>
    BY DEF HearConnected, HearEnd, GiveUp, ClosePane
  <1>2. /\ pane' \in Pane /\ PaneOK'
        /\ calls' \in SUBSET Call
        /\ \A c \in calls' : c.cmd = "connect" => c \in calls
    <2>1. CASE HearConnected
      <3>1. pane.chan \in Chan
        BY <2>1 DEF HearConnected, Inv, PaneOK
      <3>2. Command("watch", pane) \in Call /\ Command("watch", pane).cmd # "connect"
        BY <3>1, CommandType DEF Command, Inv, TypeOK
      <3> QED
        BY <2>1, <3>1, <3>2 DEF HearConnected, Inv, TypeOK, PaneOK, Pane, Ui
    <2>2. CASE HearEnd
      <3>1. Unwatch(pane) \in SUBSET Call /\ \A c \in Unwatch(pane) : c.cmd # "connect"
        BY ReleaseType DEF Inv, TypeOK, PaneOK
      <3> QED
        BY <2>2, <3>1 DEF HearEnd, Inv, TypeOK, PaneOK, Pane, Ui
    <2>3. Release(pane) \in SUBSET Call /\ \A c \in Release(pane) : c.cmd # "connect"
      BY ReleaseType DEF Inv, TypeOK, PaneOK
    <2>4. CASE GiveUp
      BY <2>3, <2>4 DEF GiveUp, Inv, TypeOK, PaneOK, Pane, Ui
    <2>6. /\ Command("disconnect", pane) \in Call
          /\ Command("disconnect", pane).cmd # "connect"
      BY CommandType DEF Command, Inv, TypeOK
    <2>5. CASE ClosePane
      BY <2>3, <2>5, <2>6, UnmountedType, SessionAssumption
      DEF ClosePane, Inv, TypeOK, PaneOK, Ui, None
    <2> QED
      BY <2>1, <2>2, <2>4, <2>5
  <1>3. TypeOK'
    BY <1>1, <1>2 DEF Inv, TypeOK, backend, polling
  <1>4. Awaited'
    BY <1>1, <1>2, AwaitedKept DEF Inv, backend
  <1>5. NoLeak' /\ NoDeadConnection'
    BY <1>1 DEF Inv, NoLeak, NoDeadConnection, AtWork, Polling, backend, polling
  <1> QED
    BY <1>2, <1>3, <1>4, <1>5 DEF Inv

LEMMA CallChan ==
  ASSUME TypeOK
  PROVE  \A c \in calls : c \in Call /\ c.attempt \in Attempt
  BY DEF TypeOK, Call

(* A page load takes the runs and monitors out of the maps and tells them. *)
LEMMA LoadInv ==
  ASSUME Inv, CloseAll \/ StopMonitors
  PROVE  Inv'
  <1>1. CASE CloseAll
    <2>1. pane' \in Pane /\ PaneOK'
      BY <1>1, UnmountedType, SessionAssumption DEF CloseAll, Inv, TypeOK, PaneOK, Ui, None
    <2>2. TypeOK'
      BY <1>1, <2>1, TellType, SessionAssumption DEF CloseAll, Inv, TypeOK, RunRecord, polling
    <2>3. Awaited'
      BY <1>1, TellType, CallChan, AwaitedKept DEF CloseAll, Inv
    <2>4. NoLeak'
      BY <1>1, TellType DEF CloseAll, Inv, NoLeak, AtWork, Polling, polling
    <2>5. NoDeadConnection'
      BY <1>1, TellType DEF CloseAll, Inv, NoDeadConnection, TypeOK, None
    <2> QED
      BY <2>1, <2>2, <2>3, <2>4, <2>5 DEF Inv
  <1>2. CASE StopMonitors
    <2>1. TypeOK'
      BY <1>2, TellMonitorType DEF StopMonitors, Inv, TypeOK, MonRecord, backend
    <2>2. PaneOK' /\ Awaited' /\ NoDeadConnection'
      BY <1>2 DEF StopMonitors, Inv, PaneOK, Awaited, NoDeadConnection, backend
    <2>3. NoLeak'
      BY <1>2, TellMonitorType DEF StopMonitors, Inv, NoLeak, AtWork, Polling, backend
    <2> QED
      BY <2>1, <2>2, <2>3 DEF Inv
  <1> QED
    BY <1>1, <1>2

(* Reserving: the new run takes the place of the one it tells to end.      *)
LEMMA ReserveInv ==
  ASSUME Inv, NEW c \in calls, Reserve(c)
  PROVE  Inv'
  <1> DEFINE r == [Unborn EXCEPT !.pc = "preparing", !.attempt = c.attempt]
  <1>1. /\ c \in Call /\ c.chan \in Chan /\ c.attempt \in Attempt
        /\ c.cmd = "connect" /\ c.chan <= chans /\ run[c.chan].pc = "unborn"
    BY CallChan DEF Inv, Awaited, Reserve
  <1>2. /\ UNCHANGED <<page, connections, polling>>
        /\ calls' = calls \ {c} /\ crossed' = (crossed \/ Crosses(c))
    BY DEF Reserve, Handle
  <1>3. PaneOK'
    BY <1>2 DEF Inv, PaneOK, page
  <1>4. crossed' \in BOOLEAN
    BY <1>2
  <1>5. CASE EntryOf(c.attempt)
    <2>1. UNCHANGED <<run, sessions>>
      BY <1>5 DEF Reserve
    <2>2. TypeOK'
      BY <1>2, <1>4, <2>1 DEF Inv, TypeOK, page, polling
    <2>3. Awaited'
      BY <1>2, <2>1, CallChan, AwaitedKept DEF Inv, page
    <2>4. NoLeak' /\ NoDeadConnection'
      BY <1>2, <2>1 DEF Inv, NoLeak, NoDeadConnection, AtWork, Polling, polling
    <2> QED
      BY <1>3, <2>2, <2>3, <2>4 DEF Inv
  <1>6. CASE ~EntryOf(c.attempt)
    <2>1. sessions' = c.chan /\ run' = [Tell(sessions) EXCEPT ![c.chan] = r]
      BY <1>6 DEF Reserve
    <2>2. r \in RunRecord /\ r.pc = "preparing"
      BY <1>1 DEF Unborn, RunRecord, RunState
    <2> HIDE DEF r
    <2>3. /\ run' \in [Chan -> RunRecord]
          /\ \A i \in Chan \ {c.chan} : run'[i] = Tell(sessions)[i]
          /\ run'[c.chan] = r
      BY <1>1, <2>1, <2>2, TellType DEF Inv
    <2>4. TypeOK'
      BY <1>1, <1>2, <1>4, <2>1, <2>3 DEF Inv, TypeOK, RunRecord, page, polling
    <2>5. Awaited'
      <3>1. \A d \in calls' : d.cmd = "connect" => d \in calls /\ d.chan # c.chan
        BY <1>1, <1>2 DEF Inv, Awaited
      <3>2. \A i \in Chan \ {c.chan} : run'[i].pc = run[i].pc
        BY <2>3, TellType DEF Inv
      <3>3. ASSUME NEW d \in calls', d.cmd = "connect"
            PROVE  d.chan \in Chan /\ d.chan <= chans' /\ run'[d.chan].pc = "unborn"
        BY <1>2, <3>1, <3>2, <3>3, CallChan DEF Inv, Awaited, page
      <3>4. ASSUME NEW i \in Chan, i > chans'
            PROVE  run'[i].pc = "unborn"
        <4>1. i # c.chan /\ i > chans
          BY <1>1, <1>2, <3>4 DEF page, Inv, TypeOK, Chan
        <4> QED
          BY <3>2, <4>1 DEF Inv, Awaited
      <3>5. \A d, e \in calls' : d.cmd = "connect" /\ e.cmd = "connect" /\ d.chan = e.chan => d = e
        BY <3>1 DEF Inv, Awaited
      <3> QED
        BY <3>3, <3>4, <3>5 DEF Awaited
    <2>6. NoLeak'
      BY <1>2, <2>1, <2>3, TellType DEF Inv, NoLeak, AtWork, Polling, polling
    <2>7. NoDeadConnection'
      BY <1>1, <1>2, <2>3, TellType DEF Inv, NoDeadConnection, TypeOK, None
    <2> QED
      BY <1>3, <2>4, <2>5, <2>6, <2>7 DEF Inv
  <1> QED
    BY <1>5, <1>6

(* A disconnect takes out of the map what it tells to end.                 *)
LEMMA DisconnectInv ==
  ASSUME Inv, NEW c \in calls, Disconnect(c)
  PROVE  Inv'
  <1>1. UNCHANGED <<page, connections, polling, crossed>> /\ calls' = calls \ {c}
    BY DEF Disconnect, Handle
  <1>2. \/ sessions' = None /\ run' = Tell(sessions)
        \/ UNCHANGED <<run, sessions>>
    BY DEF Disconnect
  <1>3. TypeOK' /\ PaneOK'
    BY <1>1, <1>2, TellType DEF Inv, TypeOK, PaneOK, RunRecord, page, polling
  <1>4. Awaited'
    BY <1>1, <1>2, TellType, CallChan, AwaitedKept DEF Inv, page
  <1>5. NoLeak'
    BY <1>1, <1>2, TellType DEF Inv, NoLeak, AtWork, Polling, polling
  <1>6. NoDeadConnection'
    BY <1>1, <1>2, TellType DEF Inv, NoDeadConnection, TypeOK, None
  <1> QED
    BY <1>3, <1>4, <1>5, <1>6 DEF Inv

(* The commands of the monitor leave the session alone.                    *)
LEMMA WatchInv ==
  ASSUME Inv, NEW c \in calls, CheckConnection(c) \/ StartMonitor(c) \/ StopMonitor(c)
  PROVE  Inv'
  <1>1. UNCHANGED <<page, backend, crossed>>
    BY DEF CheckConnection, StartMonitor, StopMonitor
  <1>2. calls' \in SUBSET Call /\ \A d \in calls' : d.cmd = "connect" => d \in calls
    BY CallChan DEF CheckConnection, StartMonitor, StopMonitor, Handle, Inv, TypeOK, Call
  <1>3. /\ monitor' \in [Mon -> MonRecord] /\ monitors' \in {None} \cup Mon
        /\ generations' \in 0 .. MaxConnects
        /\ \A m \in Mon : Polling(m)' /\ ~monitor'[m].told => monitors' = m
    <2>1. CASE CheckConnection(c)
      BY <2>1 DEF CheckConnection, polling, Inv, TypeOK, MonRecord, NoLeak, Polling
    <2>2. CASE StopMonitor(c)
      BY <2>2, TellMonitorType DEF StopMonitor, Inv, TypeOK, MonRecord, NoLeak, Polling
    <2>3. CASE StartMonitor(c) /\ MonitorOf(c.attempt)
      BY <2>3 DEF StartMonitor, polling, Inv, TypeOK, MonRecord, NoLeak, Polling
    <2>4. CASE StartMonitor(c) /\ ~MonitorOf(c.attempt)
      <3> DEFINE n == generations + 1
                 r == [pc |-> "look", attempt |-> c.attempt, told |-> FALSE]
      <3>1. n \in Mon /\ n \in 0 .. MaxConnects /\ r \in MonRecord
        BY <2>4, CallChan, SessionAssumption
        DEF StartMonitor, Inv, TypeOK, Mon, MonRecord, MonState
      <3>2. /\ generations' = n /\ monitors' = n
            /\ monitor' = [TellMonitor(monitors) EXCEPT ![n] = r]
        BY <2>4 DEF StartMonitor
      <3> HIDE DEF n, r
      <3>3. /\ monitor' \in [Mon -> MonRecord]
            /\ \A m \in Mon \ {n} : monitor'[m] = TellMonitor(monitors)[m]
        BY <3>1, <3>2, TellMonitorType DEF Inv
      <3> QED
        BY <3>1, <3>2, <3>3, TellMonitorType DEF Inv, NoLeak, Polling
    <2> QED
      BY <2>1, <2>2, <2>3, <2>4
  <1>4. TypeOK' /\ PaneOK'
    BY <1>1, <1>2, <1>3 DEF Inv, TypeOK, PaneOK, MonRecord, page, backend
  <1>5. Awaited'
    BY <1>1, <1>2, CallChan, AwaitedKept DEF Inv, page, backend
  <1>6. NoLeak'
    BY <1>1, <1>3 DEF Inv, NoLeak, AtWork, backend
  <1>7. NoDeadConnection'
    BY <1>1 DEF Inv, NoDeadConnection, backend
  <1> QED
    BY <1>4, <1>5, <1>6, <1>7 DEF Inv

(* The task of a run.                                                      *)
LEMMA SessionInv ==
  ASSUME Inv, NEW i \in Chan, Session(i)
  PROVE  Inv'
  <1>1. UNCHANGED <<page, calls, polling, crossed>>
    BY DEF Session, Prepared, Abandon, Established, Leave, RemoveConnection, RemoveEntry
  <1>2. PaneOK'
    BY <1>1 DEF Inv, PaneOK, page
  <1>3. /\ run' \in [Chan -> RunRecord]
        /\ \A j \in Chan : run[j].pc = "unborn" => run'[j].pc = "unborn"
        /\ sessions' \in {None} \cup Chan /\ connections' \in {None} \cup Chan
        /\ \A j \in Chan : AtWork(j)' /\ ~run'[j].told => sessions' = j
        /\ NoDeadConnection'
    <2>1. CASE Prepared(i) \/ Established(i) \/ Leave(i)
      <3>1. /\ run[i].pc \in {"preparing", "connecting", "open"}
            /\ sessions' = sessions /\ run[i] \in RunRecord
            /\ \A j \in Chan \ {i} : run'[j] = run[j]
            /\ run'[i].told = run[i].told
        BY <2>1 DEF Prepared, Established, Leave, Inv, TypeOK, RunRecord
      <3>2. run' \in [Chan -> RunRecord] /\ run'[i].pc \in {"connecting", "open", "leaving"}
        BY <2>1 DEF Prepared, Established, Leave, Inv, TypeOK, RunRecord, RunState
      <3>3. \A j \in Chan : run[j].pc = "unborn" => run'[j].pc = "unborn"
        BY <3>1
      <3>4. \A j \in Chan : AtWork(j)' /\ ~run'[j].told => sessions' = j
        BY <3>1 DEF Inv, NoLeak, AtWork
      <3>5. connections' \in {None} \cup Chan /\ NoDeadConnection'
        <4>1. CASE Prepared(i)
          BY <3>1, <4>1 DEF Prepared, Inv, TypeOK, NoDeadConnection
        <4>2. CASE Established(i)
          BY <4>2 DEF Established, Inv, TypeOK, NoDeadConnection
        <4>3. CASE Leave(i)
          BY <3>1, <4>3 DEF Leave, Inv, TypeOK, NoDeadConnection
        <4> QED
          BY <2>1, <4>1, <4>2, <4>3
      <3> QED
        BY <3>1, <3>2, <3>3, <3>4, <3>5 DEF Inv, TypeOK
    <2>2. CASE RemoveConnection(i)
      BY <2>2 DEF RemoveConnection, OwnsConnection, Inv, TypeOK, RunRecord, RunState, NoLeak,
                  AtWork, NoDeadConnection, None, Chan
    <2>3. CASE Abandon(i) \/ RemoveEntry(i)
      <3>1. run[i].pc \in {"preparing", "cleaned"} /\ connections' = connections
        BY <2>3 DEF Abandon, RemoveEntry
      <3>2. connections # i
        BY <3>1 DEF Inv, NoDeadConnection, None, Chan
      <3>3. CASE EntryOf(run[i].attempt)
        <4>1. sessions' = None /\ run' = [Tell(sessions) EXCEPT ![i].pc = "ended"]
          BY <2>3, <3>3 DEF Abandon, RemoveEntry
        <4>2. /\ run' \in [Chan -> RunRecord]
              /\ \A j \in Chan \ {i} : run'[j] = Tell(sessions)[j]
              /\ run'[i].pc = "ended"
          BY <4>1, TellType DEF Inv, RunRecord, RunState
        <4> QED
          BY <3>1, <3>2, <4>1, <4>2, TellType
          DEF Inv, TypeOK, NoLeak, AtWork, NoDeadConnection, None
      <3>4. CASE ~EntryOf(run[i].attempt)
        <4>1. sessions' = sessions /\ run' = [run EXCEPT ![i].pc = "ended"]
          BY <2>3, <3>4 DEF Abandon, RemoveEntry
        <4> QED
          BY <3>1, <3>2, <4>1
          DEF Inv, TypeOK, RunRecord, RunState, NoLeak, AtWork, NoDeadConnection, None
      <3> QED
        BY <3>3, <3>4
    <2> QED
      BY <2>1, <2>2, <2>3 DEF Session
  <1>4. TypeOK'
    BY <1>1, <1>3 DEF Inv, TypeOK, RunRecord, page, polling
  <1>5. Awaited'
    BY <1>1, <1>3, CallChan, AwaitedKept DEF Inv, page
  <1>6. NoLeak'
    BY <1>1, <1>3 DEF Inv, NoLeak, Polling, polling
  <1> QED
    BY <1>2, <1>3, <1>4, <1>5, <1>6 DEF Inv

(* The task of a monitor.                                                  *)
LEMMA MonitoringInv ==
  ASSUME Inv, NEW m \in Mon, Monitoring(m)
  PROVE  Inv'
  <1>1. UNCHANGED <<page, calls, backend, generations, crossed>>
    BY DEF Monitoring, Poll, FinishMonitor
  <1>2. /\ monitor' \in [Mon -> MonRecord] /\ monitors' \in {None} \cup Mon
        /\ \A k \in Mon : Polling(k)' /\ ~monitor'[k].told => monitors' = k
    <2>1. CASE Poll(m)
      BY <2>1 DEF Poll, Inv, TypeOK, MonRecord, MonState, NoLeak, Polling
    <2>2. CASE FinishMonitor(m)
      BY <2>2 DEF FinishMonitor, IsActive, Inv, TypeOK, MonRecord, MonState, NoLeak, Polling
    <2> QED
      BY <2>1, <2>2 DEF Monitoring
  <1>3. TypeOK' /\ PaneOK'
    BY <1>1, <1>2 DEF Inv, TypeOK, PaneOK, MonRecord, page, backend
  <1>4. Awaited' /\ NoDeadConnection'
    BY <1>1 DEF Inv, Awaited, NoDeadConnection, page, backend
  <1>5. NoLeak'
    BY <1>1, <1>2 DEF Inv, NoLeak, AtWork, backend
  <1> QED
    BY <1>3, <1>4, <1>5 DEF Inv

-----------------------------------------------------------------------------
LEMMA InvStep == Inv /\ [Next]_vars => Inv'
  <1> SUFFICES ASSUME Inv, [Next]_vars PROVE Inv'
    OBVIOUS
  <1>1. CASE Page
    BY <1>1, ConnectInv, PaneInv, LoadInv DEF Page
  <1>2. CASE StopMonitors
    BY <1>2, LoadInv
  <1>3. CASE \E c \in calls : Handler(c)
    BY <1>3, ReserveInv, DisconnectInv, WatchInv DEF Handler
  <1>4. CASE \E i \in Chan : Session(i)
    BY <1>4, SessionInv
  <1>5. CASE \E m \in Mon : Monitoring(m)
    BY <1>5, MonitoringInv
  <1>6. CASE UNCHANGED vars
    BY <1>6 DEF vars, Inv, TypeOK, PaneOK, Awaited, NoLeak, NoDeadConnection, AtWork, Polling
  <1> QED
    BY <1>1, <1>2, <1>3, <1>4, <1>5, <1>6 DEF Next

LEMMA InvHolds == Spec => []Inv
  BY InitInv, InvStep, PTL DEF Spec

(* The maps and the tasks keep the shape the code gives them.              *)
THEOREM TypeCorrect == Spec => []TypeOK
  <1>1. Inv => TypeOK
    BY DEF Inv
  <1> QED
    BY <1>1, InvHolds, PTL

(* Whatever commands cross, repeat an attempt's number or come after their *)
(* page: a run or monitor that nobody told to end can still be found in    *)
(* its map (session.rs reserve, close and the cleanup in start).           *)
THEOREM NothingLeaks == Spec => []NoLeak
  <1>1. Inv => NoLeak
    BY DEF Inv
  <1> QED
    BY <1>1, InvHolds, PTL

(* No connection stays in the map of connections after its run has ended   *)
(* (session.rs remove_connection).                                         *)
THEOREM NoConnectionStays == Spec => []NoDeadConnection
  <1>1. Inv => NoDeadConnection
    BY DEF Inv
  <1> QED
    BY <1>1, InvHolds, PTL

=============================================================================
