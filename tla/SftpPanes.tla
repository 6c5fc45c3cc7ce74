----------------------------- MODULE SftpPanes ------------------------------
(***************************************************************************)
(* The tabs of the SFTP panel (features/sftp/store.ts) and the connections *)
(* behind them (SftpManager, sftp/mod.rs).                                 *)
(*                                                                         *)
(* An asynchronous function of the store is one action up to each await;   *)
(* what it goes on with is a continuation in waits.  The page answers      *)
(* continuations in any order.  Commands run on threads of their own, so   *)
(* waits also holds the commands nobody has handled yet.  Status events    *)
(* arrive in the order they were emitted.                                  *)
(*                                                                         *)
(* A tab's entries are known by the path whose listing they are (shown).   *)
(* The order of the tabs in a pane and the active tab are left out.        *)
(***************************************************************************)
EXTENDS Integers, Sequences, FiniteSets

CONSTANTS
  Local, Remote,    \* ids of tabs: each is used for one tab
  Dirs, Home,       \* paths; Home is the answer of fs_home
  None,             \* no path
  MaxTabs,          \* MAX_SFTP_TABS
  HistoryLimit,     \* NAVIGATION_HISTORY_LIMIT
  MaxLoads,         \* bound: listings, operations and reconnects together
  MaxOpenings       \* bound: connections the backend begins to open

PanesAssumption ==
  /\ Local \cap Remote = {} /\ Home \in Dirs /\ None \notin Dirs
  /\ MaxTabs \in Nat /\ HistoryLimit \in Nat \ {0}
  /\ MaxLoads \in Nat /\ MaxOpenings \in Nat

VARIABLES
  tabs,       \* tabs[t]: the tab as the store holds it
  navReq,     \* navigationRequests; 0 when it has no entry
  connReq,    \* connectionRequests: symbols are numbers, 0 is undefined
  waits,      \* commands and continuations under way
  loads,      \* listings, operations and reconnects so far
  conns,      \* SftpManager.conns
  pending,    \* SftpManager.connect_cancels: the opening it holds, or 0
  opening,    \* tasks that open a connection: tab, number, begun
  openings,   \* openings so far
  events,     \* status events emitted and not yet heard
  asked,      \* history: the path last asked for in a tab
  early,      \* history: local tabs navigated before their home was known
  crossed     \* history: tabs whose commands overtook each other, or whose
              \* refusal was heard before the events of the last connection

vars == <<tabs, navReq, connReq, waits, loads, conns, pending, opening,
          openings, events, asked, early, crossed>>
manager == <<conns, pending, opening, openings>>
history == <<early, crossed>>

Tabs == Local \cup Remote
Path == Dirs \cup {None}
Status == {"fresh", "connecting", "connected", "error", "closed", "gone"}
Tab == [status : Status, cwd : Path, shown : Path, nav : BOOLEAN, loading : BOOLEAN,
        error : BOOLEAN, past : Seq(Dirs), index : Nat]

NewTab(status, cwd) ==
  [status |-> status, cwd |-> cwd, shown |-> None, nav |-> FALSE, loading |-> TRUE,
   error |-> FALSE, past |-> <<>>, index |-> 0]
Absent(status) == [NewTab(status, None) EXCEPT !.loading = FALSE]

IsOpen(t) == tabs[t].status \notin {"fresh", "gone"}

Init ==
  /\ tabs = [t \in Tabs |-> Absent("fresh")]
  /\ navReq = [t \in Tabs |-> 0] /\ connReq = [t \in Tabs |-> 0]
  /\ waits = {} /\ loads = 0
  /\ conns = {} /\ pending = [t \in Tabs |-> 0] /\ opening = {} /\ openings = 0
  /\ events = <<>>
  /\ asked = [t \in Tabs |-> None] /\ early = {} /\ crossed = {}

-----------------------------------------------------------------------------
(* Navigation.  A mode says what a listing does to the history of the tab: *)
(* push a path, keep the history, or go to an index of it.                 *)
Push == 0
Keep == -1
Mode == -1 .. HistoryLimit

Wait(k, t, n) == [k |-> k, tab |-> t, n |-> n, path |-> None, mode |-> Keep]

PushHistory(T, path) ==
  IF T.index > 0 /\ T.past[T.index] = path THEN T
  ELSE LET all  == Append(SubSeq(T.past, 1, T.index), path)
           kept == SubSeq(all, IF Len(all) > HistoryLimit THEN 2 ELSE 1, Len(all))
       IN  [T EXCEPT !.past = kept, !.index = Len(kept)]

Blocked(t, T, path) == t \in Remote /\ (path = None \/ T.status \in {"closed", "error"})

Eagerly(T, path) ==             \* a fault: the directory changes before its listing
  [T EXCEPT !.loading = TRUE, !.error = FALSE, !.nav = TRUE, !.cwd = path]

Started(T, path) == [T EXCEPT !.loading = TRUE, !.error = FALSE, !.nav = TRUE]

(* loadEntries, up to its await: T is the tab as it stands.                *)
Load(t, T, path, mode, others) ==
  IF Blocked(t, T, path)
  THEN tabs' = [tabs EXCEPT ![t] = T] /\ waits' = others /\ UNCHANGED <<navReq, asked>>
  ELSE /\ tabs' = [tabs EXCEPT ![t] = Started(T, path)]
       /\ navReq' = [navReq EXCEPT ![t] = @ + 1]
       /\ waits' = others \cup {[k |-> "list", tab |-> t, n |-> navReq[t] + 1,
                                 path |-> path, mode |-> mode]}
       /\ asked' = [asked EXCEPT ![t] = path]

AlwaysCurrent(t, n) == IsOpen(t)                            \* a fault

IsCurrent(t, n) == navReq[t] = n

Served(t) == t \in Local \cup conns   \* otherwise the manager knows no connection

(* loadEntries after its await.                                            *)
Listed(w) ==
  /\ w \in waits /\ w.k = "list" /\ waits' = waits \ {w}
  /\ LET t == w.tab
         T == [tabs[t] EXCEPT !.loading = FALSE]
         L == [T EXCEPT !.cwd = w.path, !.shown = w.path, !.nav = FALSE]
     IN  IF ~IsCurrent(t, w.n) THEN UNCHANGED tabs
         ELSE \/ /\ Served(t)
                 /\ tabs' = [tabs EXCEPT ![t] =
                              CASE w.mode = Keep -> L
                                [] w.mode = Push -> PushHistory(L, w.path)
                                [] OTHER         -> [L EXCEPT !.index = w.mode]]
              \/ tabs' = [tabs EXCEPT ![t] = [T EXCEPT !.error = TRUE]]
              \/ /\ t \in conns
                 /\ tabs' = [tabs EXCEPT ![t] = [T EXCEPT !.error = TRUE, !.status = "error"]]
  /\ UNCHANGED <<navReq, connReq, loads, manager, events, asked, history>>

Count == loads < MaxLoads /\ loads' = loads + 1

(* navigate, navigateToHistory and refresh.                                *)
Navigate(t, path, mode) ==
  /\ IsOpen(t) /\ Count
  /\ Load(t, tabs[t], path, mode, waits)
  /\ early' = IF tabs[t].cwd = None THEN early \cup ({t} \cap Local) ELSE early
  /\ UNCHANGED <<connReq, manager, events, crossed>>

NavigateTo(t, path) == path # tabs[t].cwd /\ Navigate(t, path, Push)

NavigateToHistory(t, i) ==
  /\ i \in 1 .. Len(tabs[t].past) /\ i # tabs[t].index /\ ~tabs[t].loading
  /\ Navigate(t, tabs[t].past[i], i)

CanRefresh(t) ==
  tabs[t].cwd # None /\ (t \in Remote => tabs[t].status = "connected")
Refresh(t) == CanRefresh(t) /\ Navigate(t, tabs[t].cwd, Keep)

(* Escape in the path bar.                                                 *)
RestoreLoadedPath(t) ==
  /\ IsOpen(t) /\ tabs[t].nav
  /\ navReq' = [navReq EXCEPT ![t] = @ + 1]
  /\ tabs' = [tabs EXCEPT ![t] = [@ EXCEPT !.nav = FALSE, !.loading = FALSE, !.error = FALSE]]
  /\ asked' = [asked EXCEPT ![t] = tabs[t].cwd]
  /\ UNCHANGED <<connReq, waits, loads, manager, events, history>>

(* An operation on an entry: it ends with a refresh, or it finds the       *)
(* connection broken.                                                      *)
Operate(t) ==
  /\ IsOpen(t) /\ tabs[t].status = "connected" /\ ~tabs[t].loading /\ Count
  /\ waits' = waits \cup {Wait("operate", t, loads)}
  /\ UNCHANGED <<tabs, navReq, connReq, manager, events, asked, history>>

Operated(w) ==
  /\ w \in waits /\ w.k = "operate"
  /\ LET t == w.tab IN
     \/ IF IsOpen(t) /\ CanRefresh(t)
        THEN Load(t, tabs[t], tabs[t].cwd, Keep, waits \ {w})
        ELSE waits' = waits \ {w} /\ UNCHANGED <<tabs, navReq, asked>>
     \/ /\ waits' = waits \ {w}
        /\ tabs' = IF IsOpen(t) /\ t \in Remote
                   THEN [tabs EXCEPT ![t] = [@ EXCEPT !.status = "error", !.loading = FALSE,
                                                      !.error = TRUE]]
                   ELSE tabs
        /\ UNCHANGED <<navReq, asked>>
  /\ UNCHANGED <<connReq, loads, manager, events, history>>

-----------------------------------------------------------------------------
(* Opening, reconnecting and closing tabs.                                 *)

CanAddTab == Cardinality({t \in Tabs : IsOpen(t)}) < MaxTabs

AddLocalTab(t) ==
  /\ t \in Local /\ tabs[t].status = "fresh" /\ CanAddTab
  /\ tabs' = [tabs EXCEPT ![t] = NewTab("connected", None)]
  /\ waits' = waits \cup {Wait("home", t, 0)}
  /\ UNCHANGED <<navReq, connReq, loads, manager, events, asked, history>>

(* The answer of fs_home for a local tab.                                  *)
LocalHome(w) ==
  /\ w \in waits /\ w.k = "home" /\ w.tab \in Local
  /\ LET t == w.tab IN
     IF ~IsOpen(t) THEN waits' = waits \ {w} /\ UNCHANGED <<tabs, navReq, asked>>
     ELSE \/ Load(t, [tabs[t] EXCEPT !.cwd = Home], Home, Push, waits \ {w})
          \/ /\ waits' = waits \ {w}
             /\ tabs' = [tabs EXCEPT ![t] = [@ EXCEPT !.loading = FALSE, !.error = TRUE]]
             /\ UNCHANGED <<navReq, asked>>
  /\ UNCHANGED <<connReq, loads, manager, events, history>>

AddRemoteTab(t, initialPath) ==
  /\ t \in Remote /\ tabs[t].status = "fresh" /\ CanAddTab
  /\ tabs' = [tabs EXCEPT ![t] = NewTab("connecting", initialPath)]
  /\ waits' = waits \cup {Wait("connect", t, 0)}
  /\ asked' = [asked EXCEPT ![t] = initialPath]
  /\ UNCHANGED <<navReq, connReq, loads, manager, events, history>>

(* Offered for tabs with an error or a closed connection.                  *)
ReconnectTab(t) ==
  /\ t \in Remote /\ tabs[t].status \in {"error", "closed"} /\ Count
  /\ connReq' = [connReq EXCEPT ![t] = loads']
  /\ navReq' = [navReq EXCEPT ![t] = @ + 1]
  /\ tabs' = [tabs EXCEPT ![t] = [@ EXCEPT !.status = "connecting", !.loading = TRUE,
                                           !.error = FALSE]]
  /\ waits' = waits \cup {Wait("disconnect", t, loads')}
  /\ asked' = [asked EXCEPT ![t] = tabs[t].cwd]
  /\ UNCHANGED <<manager, events, history>>

SameRequest(w) == connReq[w.tab] = w.n

IsCurrentRequest(w) == IsOpen(w.tab) /\ SameRequest(w)

(* reconnectTab goes on after its disconnect.                              *)
Disconnected(w) ==
  /\ w \in waits /\ w.k = "disconnected"
  /\ waits' = (waits \ {w}) \cup
                IF IsCurrentRequest(w) THEN {Wait("connect", w.tab, w.n)} ELSE {}
  /\ UNCHANGED <<tabs, navReq, connReq, loads, manager, events, asked, history>>

(* The catch of fs_connect: addRemoteTab's looks at nothing.               *)
ConnectFailed(w) ==
  /\ w \in waits /\ w.k = "refused" /\ waits' = waits \ {w}
  /\ tabs' = IF IsOpen(w.tab) /\ (w.n = 0 \/ SameRequest(w))
             THEN [tabs EXCEPT ![w.tab] = [@ EXCEPT !.status = "error", !.loading = FALSE,
                                                    !.error = TRUE]]
             ELSE tabs
  /\ crossed' = IF \E o \in opening : o.tab = w.tab THEN crossed \cup {w.tab}
                ELSE crossed \cup ({w.tab} \cap {events[i].tab : i \in DOMAIN events})
  /\ UNCHANGED <<navReq, connReq, loads, manager, events, asked, early>>

CloseTab(t) ==
  /\ IsOpen(t)
  /\ tabs' = [tabs EXCEPT ![t] = Absent("gone")]
  /\ navReq' = [navReq EXCEPT ![t] = 0] /\ connReq' = [connReq EXCEPT ![t] = 0]
  /\ waits' = waits \cup IF t \in Remote THEN {Wait("disconnect", t, 0)} ELSE {}
  /\ UNCHANGED <<loads, manager, events, asked, history>>

-----------------------------------------------------------------------------
(* applyStatus                                                             *)

(* "connected": list the last directory, or ask for the home first.        *)
HearConnected(t) ==
  LET T == [tabs[t] EXCEPT !.status = "connected", !.loading = TRUE, !.error = FALSE]
  IN  IF T.cwd # None THEN Load(t, T, T.cwd, Push, waits)
      ELSE /\ tabs' = [tabs EXCEPT ![t] = T]
           /\ waits' = waits \cup {Wait("home", t, connReq[t])}
           /\ UNCHANGED <<navReq, asked>>

HearOther(t, status) ==
  /\ tabs' = [tabs EXCEPT ![t] = [@ EXCEPT !.status = status, !.error = status = "error",
                                           !.loading = @ /\ status # "error"]]
  /\ UNCHANGED <<navReq, waits, asked>>

HearStatus ==
  /\ events # <<>> /\ events' = Tail(events)
  /\ LET e == Head(events) IN
     IF ~IsOpen(e.tab) THEN UNCHANGED <<tabs, navReq, waits, asked>>
     ELSE IF e.status = "connected" THEN HearConnected(e.tab)
          ELSE HearOther(e.tab, e.status)
  /\ UNCHANGED <<connReq, loads, manager, history>>

(* The answer of fs_home for a remote tab: isCurrentConnection.            *)
RemoteHome(w) ==
  /\ w \in waits /\ w.k = "home" /\ w.tab \in Remote
  /\ LET t == w.tab IN
     IF ~(tabs[t].status = "connected" /\ SameRequest(w))
     THEN waits' = waits \ {w} /\ UNCHANGED <<tabs, navReq, asked>>
     ELSE \/ Served(t) /\ Load(t, tabs[t], Home, Push, waits \ {w})
          \/ /\ waits' = waits \ {w}
             /\ tabs' = [tabs EXCEPT ![t] = [@ EXCEPT !.loading = FALSE, !.error = TRUE]]
             /\ UNCHANGED <<navReq, asked>>
  /\ UNCHANGED <<connReq, loads, manager, events, history>>

-----------------------------------------------------------------------------
(* SftpManager                                                             *)

Emit(t, status) == Append(events, [tab |-> t, status |-> status])

(* fs_connect: the host may be missing; otherwise register one opening.    *)
HandleConnect(w) ==
  /\ w \in waits /\ w.k = "connect"
  /\ \/ /\ waits' = (waits \ {w}) \cup {Wait("refused", w.tab, w.n)}
        /\ UNCHANGED <<pending, opening, openings>>
     \/ /\ waits' = waits \ {w}
        /\ IF w.tab \in conns \/ pending[w.tab] # 0
           THEN UNCHANGED <<pending, opening, openings>>
           ELSE /\ openings < MaxOpenings /\ openings' = openings + 1
                /\ pending' = [pending EXCEPT ![w.tab] = openings']
                /\ opening' = opening \cup {[tab |-> w.tab, n |-> openings', begun |-> FALSE]}
  /\ crossed' = IF IsOpen(w.tab) /\ SameRequest(w) THEN crossed ELSE crossed \cup {w.tab}
  /\ UNCHANGED <<tabs, navReq, connReq, loads, conns, events, asked, early>>

Begin(o) ==
  /\ o \in opening /\ ~o.begun
  /\ opening' = (opening \ {o}) \cup {[o EXCEPT !.begun = TRUE]}
  /\ events' = Emit(o.tab, "connecting")
  /\ UNCHANGED <<tabs, navReq, connReq, waits, loads, conns, pending, openings, asked, history>>

InsertAnyway(o) == TRUE                                     \* a fault

StillWanted(o) == pending[o.tab] = o.n

(* The connection is open or failed; a cancelled opening leaves no trace.  *)
End(o) ==
  /\ o \in opening /\ o.begun /\ opening' = opening \ {o}
  /\ IF StillWanted(o)
     THEN /\ pending' = [pending EXCEPT ![o.tab] = 0]
          /\ \/ conns' = conns \cup {o.tab} /\ events' = Emit(o.tab, "connected")
             \/ conns' = conns /\ events' = Emit(o.tab, "error")
     ELSE UNCHANGED <<pending, conns, events>>
  /\ UNCHANGED <<tabs, navReq, connReq, waits, loads, openings, asked, history>>

HandleDisconnect(w) ==
  /\ w \in waits /\ w.k = "disconnect"
  /\ LET t == w.tab IN
     /\ pending' = [pending EXCEPT ![t] = 0]
     /\ conns' = IF pending[t] # 0 THEN conns ELSE conns \ {t}
     /\ events' = IF pending[t] # 0 \/ t \in conns THEN Emit(t, "closed") ELSE events
     /\ crossed' = IF IsOpen(t) /\ ~SameRequest(w) THEN crossed \cup {t} ELSE crossed
     /\ waits' = (waits \ {w}) \cup IF w.n = 0 THEN {} ELSE {Wait("disconnected", t, w.n)}
  /\ UNCHANGED <<tabs, navReq, connReq, loads, opening, openings, asked, early>>

(* A page load: the store is new, its continuations are gone, commands     *)
(* still run, and cleanup_orphaned_sessions calls disconnect_all.          *)
PageLoad ==
  /\ \E t \in Tabs : IsOpen(t)
  /\ tabs' = [t \in Tabs |-> IF IsOpen(t) THEN Absent("gone") ELSE tabs[t]]
  /\ navReq' = [t \in Tabs |-> 0] /\ connReq' = [t \in Tabs |-> 0]
  /\ waits' = {w \in waits : w.k \in {"connect", "disconnect"}}
  /\ conns' = {} /\ pending' = [t \in Tabs |-> 0] /\ events' = <<>>
  /\ UNCHANGED <<loads, opening, openings, asked, history>>

-----------------------------------------------------------------------------
Next ==
  \/ \E t \in Tabs :
       \/ AddLocalTab(t) \/ ReconnectTab(t) \/ CloseTab(t)
       \/ \E p \in Path : AddRemoteTab(t, p)
       \/ \E p \in Dirs : NavigateTo(t, p)
       \/ \E i \in 1 .. HistoryLimit : NavigateToHistory(t, i)
       \/ Refresh(t) \/ RestoreLoadedPath(t) \/ Operate(t)
  \/ \E w \in waits :
       \/ Listed(w) \/ Operated(w) \/ LocalHome(w) \/ RemoteHome(w)
       \/ Disconnected(w) \/ ConnectFailed(w)
       \/ HandleConnect(w) \/ HandleDisconnect(w)
  \/ HearStatus
  \/ \E o \in opening : Begin(o) \/ End(o)
  \/ PageLoad

Spec == Init /\ [][Next]_vars

-----------------------------------------------------------------------------
Kinds == {"list", "operate", "home", "connect", "refused", "disconnect", "disconnected"}

TypeOK ==
  /\ tabs \in [Tabs -> Tab] /\ \A t \in Tabs : tabs[t].index <= Len(tabs[t].past)
  /\ navReq \in [Tabs -> Nat] /\ connReq \in [Tabs -> 0 .. MaxLoads]
  /\ waits \subseteq [k : Kinds, tab : Tabs, n : Nat, path : Path,
                      mode : Mode]
  /\ loads \in 0 .. MaxLoads
  /\ conns \subseteq Remote /\ pending \in [Tabs -> 0 .. MaxOpenings]
  /\ opening \subseteq [tab : Remote, n : 1 .. MaxOpenings, begun : BOOLEAN]
  /\ openings \in 0 .. MaxOpenings
  /\ events \in Seq([tab : Remote, status : Status])
  /\ asked \in [Tabs -> Path] /\ early \subseteq Local /\ crossed \subseteq Remote

Rests(t) == IsOpen(t) /\ ~tabs[t].loading /\ ~tabs[t].error
Quiet == waits = {} /\ opening = {} /\ events = <<>>

(* What a tab shows is the listing of the directory it says it is in, and  *)
(* its place in the history: transfers and new folders go to cwd.  Exempt  *)
(* are local tabs that were navigated before their home was known.         *)
VisibleIsCurrent ==
  \A t \in Tabs \ early :
    Rests(t) =>
      /\ tabs[t].shown \in {None, tabs[t].cwd}
      /\ tabs[t].index > 0 => tabs[t].past[tabs[t].index] = tabs[t].cwd

(* However the listings overtake each other, a connected tab that rests    *)
(* without an error is in the directory it was asked for last.             *)
LastNavigationWins ==
  \A t \in Tabs :
    Rests(t) /\ tabs[t].status = "connected" /\ asked[t] # None
      => tabs[t].cwd = asked[t]

(* When nothing is under way no tab is left loading or connecting, a       *)
(* connected tab has its connection, and every connection has its tab,     *)
(* unless commands and answers overtook each other (crossed).              *)
QuietIsSettled ==
  Quiet => \A t \in Tabs \ crossed :
    /\ IsOpen(t) => ~tabs[t].loading /\ tabs[t].status # "connecting"
    /\ t \in Remote /\ tabs[t].status = "connected" => t \in conns
    /\ t \in conns => IsOpen(t)
    /\ pending[t] = 0
=============================================================================
