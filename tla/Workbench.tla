----------------------------- MODULE Workbench -----------------------------
(***************************************************************************)
(* The tabs of the editor area (workbench/tabs.ts): terminal tabs split    *)
(* into panes, file tabs, which tab and which pane has the focus, and the  *)
(* copy of the terminal tabs that localStorage keeps for the next start    *)
(* (workspace-state.ts).                                                   *)
(*                                                                         *)
(* A pane is its identifier: target, host, title and status follow it      *)
(* around and decide nothing here.  SshSessions models what the session of *)
(* a pane does and FileEditing what a file tab holds.  An identifier is    *)
(* random in the code; here it is the smallest one not in use.             *)
(***************************************************************************)
EXTENDS PaneLayout

CONSTANTS
  MaxSessions,  \* MAX_TERMINAL_SESSIONS
  MaxFiles,     \* MAX_FILE_TABS
  MaxRow,       \* MAX_PANES_PER_DIRECTION.row
  MaxColumn,    \* MAX_PANES_PER_DIRECTION.column
  MaxRestored,  \* the most panes restoreTab accepts in one tab
  MaxDepth      \* MAX_LAYOUT_DEPTH

WorkbenchAssumption ==
  /\ {MaxSessions, MaxRow, MaxColumn} \subseteq Nat \ {0}
  /\ {MaxFiles, MaxRestored, MaxDepth} \subseteq Nat

VARIABLES
  tabs,      \* the tabs from left to right
  activeId,  \* the tab shown, or NoId
  lastPane,  \* lastPaneId: the pane that had the focus last, or NoId
  stored     \* the snapshot in localStorage

vars == <<tabs, activeId, lastPane, stored>>

NoId == 0

Direction == {"row", "column"}

Limit(direction) == IF direction = "row" THEN MaxRow ELSE MaxColumn

-----------------------------------------------------------------------------
(* Tabs and panes *)

TerminalTab(id, panes, layout, pane) ==
  [kind |-> "terminal", id |-> id, panes |-> panes, layout |-> layout,
   active |-> pane]

FileTab(id) == [kind |-> "file", id |-> id]

IsTerminal(tab) == tab.kind = "terminal"

Terminals(ts) == SelectSeq(ts, IsTerminal)

TabIds(ts) == {ts[i].id : i \in DOMAIN ts}

Panes(ts) == UNION {Range(ts[i].panes) : i \in {j \in DOMAIN ts : IsTerminal(ts[j])}}

IndexOf(ts, id) == CHOOSE i \in DOMAIN ts : ts[i].id = id

PaneTab(ts, pane) ==
  CHOOSE i \in DOMAIN ts : IsTerminal(ts[i]) /\ pane \in Range(ts[i].panes)

Files(ts) == {i \in DOMAIN ts : ~IsTerminal(ts[i])}

\* targetPaneId: where a command sent to "the terminal" goes.
Target(ts, active, last) ==
  LET shown == {i \in DOMAIN ts : ts[i].id = active /\ IsTerminal(ts[i])}
  IN  CASE shown # {}         -> ts[Min(shown)].active
        [] shown = {} /\ last \in Panes(ts) -> last
        [] OTHER              -> NoId

Fresh(used) == Min(1..(Cardinality(used) + 1) \ used)

FreshPane == Fresh(Panes(tabs))

FreshTab == Fresh(TabIds(tabs))

\* Mutant: the limit of the sessions is off by one.
OneTooMany == Cardinality(Panes(tabs)) <= MaxSessions

CanOpenSession == Cardinality(Panes(tabs)) < MaxSessions

-----------------------------------------------------------------------------
(* The snapshot in localStorage *)

\* writeWorkspace: only the terminal tabs survive, and an active file does not.
Snapshot(ts, active, last) ==
  [tabs   |-> Terminals(ts),
   active |-> IF active \in TabIds(Terminals(ts)) THEN active ELSE NoId,
   last   |-> last]

\* restoreTab drops a tab whose panes and layout do not fit each other.
Restorable(tab) ==
  LET ids == LayoutPanes(tab.layout)
  IN  /\ Len(tab.panes) \in 1..MaxRestored
      /\ Depth(tab.layout) <= MaxDepth
      /\ IsInjective(tab.panes) /\ IsInjective(ids)
      /\ Len(ids) = Len(tab.panes)
      /\ Range(ids) \subseteq Range(tab.panes)

RestoredTab(tab) ==
  [tab EXCEPT !.active = IF @ \in Range(tab.panes) THEN @ ELSE tab.panes[1]]

\* readWorkspace
RestoredTabs(snapshot) ==
  LET kept == SelectSeq(snapshot.tabs, Restorable)
  IN  [i \in DOMAIN kept |-> RestoredTab(kept[i])]

RestoredActive(snapshot) ==
  LET ts == RestoredTabs(snapshot)
  IN  CASE snapshot.active \in TabIds(ts) -> snapshot.active
        [] snapshot.active \notin TabIds(ts) /\ ts # <<>> -> ts[1].id
        [] OTHER -> NoId

RestoredLast(snapshot) ==
  LET ts == RestoredTabs(snapshot)
  IN  CASE snapshot.last \in Panes(ts) -> snapshot.last
        [] snapshot.last \notin Panes(ts) /\ ts # <<>> ->
             ts[IndexOf(ts, RestoredActive(snapshot))].active
        [] OTHER -> NoId

-----------------------------------------------------------------------------

Empty == [tabs |-> <<>>, active |-> NoId, last |-> NoId]

Init ==
  /\ tabs = <<>>
  /\ activeId = NoId
  /\ lastPane = NoId
  /\ stored = Empty

\* set(): every change of the store is written by the subscriber at once.
Show(ts, active, last) ==
  /\ tabs' = ts
  /\ activeId' = active
  /\ lastPane' = last
  /\ stored' = Snapshot(ts, active, last)

\* openTerminal, openLocalTerminal and openAdhocTerminal.
OpenTerminal ==
  LET pane == FreshPane
      tab  == TerminalTab(FreshTab, <<pane>>, Leaf(pane), pane)
  IN  /\ CanOpenSession
      /\ Show(Append(tabs, tab), tab.id, pane)

\* openFile for a file that has no tab; for one that has, it is SetActive.
OpenFile ==
  /\ Cardinality(Files(tabs)) < MaxFiles
  /\ Show(Append(tabs, FileTab(FreshTab)), FreshTab, lastPane)

SplitPane(source, direction) ==
  LET at     == PaneTab(tabs, source)
      pane   == FreshPane
      layout == SplitLayout(tabs[at].layout, source, pane, direction)
      after  == Min({i \in DOMAIN tabs[at].panes : tabs[at].panes[i] = source}) + 1
  IN  /\ Extent(layout, direction) <= Limit(direction)
      /\ CanOpenSession
      /\ Show([tabs EXCEPT ![at].panes = InsertAt(@, after, pane),
                           ![at].layout = layout,
                           ![at].active = pane],
              tabs[at].id, pane)

\* closestPaneId: the nearest terminal tab to the right of the closed place,
\* or else to the left.
Closest(ts, closed) ==
  LET terminal == {i \in DOMAIN ts : IsTerminal(ts[i])}
      right    == {i \in terminal : i >= closed \/ i = Len(ts)}
      left     == {i \in terminal : i < closed}
  IN  CASE right # {}              -> ts[Min(right)].active
        [] right = {} /\ left # {} -> ts[Max(left)].active
        [] OTHER                   -> NoId

\* closeTab, for a terminal tab and for a file tab that may go.
Close(at) ==
  LET rest   == RemoveAt(tabs, at)
      active == CASE activeId # tabs[at].id -> activeId
                  [] activeId = tabs[at].id /\ rest # <<>> ->
                       rest[Min({at, Len(rest)})].id
                  [] OTHER -> NoId
      last   == IF lastPane \in Panes(rest)
                THEN lastPane
                ELSE IF Target(rest, active, NoId) # NoId
                     THEN Target(rest, active, NoId)
                     ELSE Closest(rest, at)
  IN  Show(rest, active, last)

CloseTab == \E at \in DOMAIN tabs : Close(at)

\* Mutant: the focus stays on the pane that is gone.
FocusOnClosed(pane) ==
  LET at == PaneTab(tabs, pane)
  IN  IF Len(tabs[at].panes) = 1
      THEN Close(at)
      ELSE Show([tabs EXCEPT ![at].panes = SelectSeq(@, LAMBDA p : p # pane),
                             ![at].layout = WithoutPane(@, pane)],
                activeId,
                IF lastPane = pane THEN tabs[at].panes[1] ELSE lastPane)

\* closePane: the last pane of a tab takes the tab with it.
ClosePane(pane) ==
  LET at       == PaneTab(tabs, pane)
      tab      == tabs[at]
      neighbor == Neighbor(tab.layout, pane, NoId)
  IN  IF Len(tab.panes) = 1
      THEN Close(at)
      ELSE Show([tabs EXCEPT ![at].panes = SelectSeq(@, LAMBDA p : p # pane),
                             ![at].layout = WithoutPane(@, pane),
                             ![at].active = IF @ = pane THEN neighbor ELSE @],
                activeId,
                IF lastPane = pane THEN neighbor ELSE lastPane)

\* focusPane, setActive with the identifier of a pane, and reconnect's focus.
FocusPane(pane) ==
  LET at == PaneTab(tabs, pane)
  IN  Show([tabs EXCEPT ![at].active = pane], tabs[at].id, pane)

FocusPaneNext(step) ==
  \E at \in DOMAIN tabs :
    LET ids == LayoutPanes(tabs[at].layout)
        i   == Min({j \in DOMAIN ids : ids[j] = tabs[at].active})
    IN  /\ tabs[at].id = activeId
        /\ IsTerminal(tabs[at])
        /\ Len(tabs[at].panes) > 1
        /\ FocusPane(ids[((i - 1 + step) % Len(ids)) + 1])

\* setActive with the identifier of a tab.
Activate(tab) ==
  Show(tabs, tab.id, IF IsTerminal(tab) THEN tab.active ELSE lastPane)

\* activateAt and a click on a tab.
SetActive == \E i \in DOMAIN tabs : Activate(tabs[i])

ActivateNext(step) ==
  \E at \in DOMAIN tabs :
    /\ Len(tabs) > 1
    /\ tabs[at].id = activeId
    /\ Activate(tabs[((at - 1 + step) % Len(tabs)) + 1])

\* sendToTerminal shows the terminal the command went to.
SendToTerminal ==
  /\ Target(tabs, activeId, lastPane) # NoId
  /\ FocusPane(Target(tabs, activeId, lastPane))

MoveTab(from, to) ==
  /\ from # to
  /\ Show(InsertAt(RemoveAt(tabs, from), to, tabs[from]), activeId, lastPane)

\* The page is loaded again: only what localStorage holds is left.  Nothing is
\* written until the next change.
Restart ==
  /\ tabs' = RestoredTabs(stored)
  /\ activeId' = RestoredActive(stored)
  /\ lastPane' = RestoredLast(stored)
  /\ UNCHANGED stored

Next ==
  \/ OpenTerminal
  \/ OpenFile
  \/ \E pane \in Panes(tabs) :
       \/ \E direction \in Direction : SplitPane(pane, direction)
       \/ ClosePane(pane)
       \/ FocusPane(pane)
  \/ \E step \in {1, -1} : FocusPaneNext(step) \/ ActivateNext(step)
  \/ CloseTab
  \/ SetActive
  \/ SendToTerminal
  \/ \E from, to \in DOMAIN tabs : MoveTab(from, to)
  \/ Restart

Spec == Init /\ [][Next]_vars

-----------------------------------------------------------------------------
(* Properties *)

IsTab(tab) ==
  \/ tab \in [kind : {"file"}, id : Nat \ {NoId}]
  \/ /\ tab.kind = "terminal"
     /\ tab.id \in Nat \ {NoId}
     /\ tab.panes \in Seq(1..MaxSessions)
     /\ tab.active \in 1..MaxSessions
     /\ DOMAIN tab = {"kind", "id", "panes", "layout", "active"}

\* The variables have the values the code gives them, tabs and panes have
\* identifiers of their own, and no limit of tabs.ts is exceeded, not even
\* after removing and restoring panes.
TypeOK ==
  /\ \A i \in DOMAIN tabs : IsTab(tabs[i])
  /\ \A i, j \in DOMAIN tabs : tabs[i].id = tabs[j].id => i = j
  /\ \A i, j \in DOMAIN tabs :
       /\ IsTerminal(tabs[i]) /\ IsTerminal(tabs[j])
       /\ Range(tabs[i].panes) \cap Range(tabs[j].panes) # {}
       => i = j
  /\ activeId \in TabIds(tabs) \cup {NoId}
  /\ lastPane \in Panes(tabs) \cup {NoId}
  /\ Cardinality(Panes(tabs)) <= MaxSessions
  /\ Cardinality(Files(tabs)) <= MaxFiles

\* The list of a tab's panes and the tree that places them never part: they
\* name the same panes in the same order after any splits, closings and
\* restarts, the tree keeps within the grid of MAX_PANES_PER_DIRECTION, and
\* the pane with the focus is one of them (splitPane, closePane, splitLayout,
\* removeLayoutPane).
PanesFollowLayout ==
  \A i \in DOMAIN tabs : IsTerminal(tabs[i]) =>
    /\ LayoutPanes(tabs[i].layout) = tabs[i].panes
    /\ \A direction \in Direction :
         Extent(tabs[i].layout, direction) <= Limit(direction)
    /\ Len(tabs[i].panes) <= MaxRow * MaxColumn
    /\ tabs[i].active \in Range(tabs[i].panes)

\* A restart brings back every terminal tab as it was: the checks readWorkspace
\* makes on what it reads never turn away what writeWorkspace wrote.
RestartKeepsTerminals == RestoredTabs(stored) = Terminals(tabs)

\* A command is sent somewhere as long as a terminal is open, and there is an
\* active tab as long as there are tabs: closing tabs and panes in any order
\* never leaves the focus on nothing (closeTab, closePane, targetPaneId).
FocusIsSomewhere ==
  /\ Panes(tabs) # {} => Target(tabs, activeId, lastPane) \in Panes(tabs)
  /\ tabs # <<>> => activeId \in TabIds(tabs)

\* Panes, layouts, focus and the stored copy stay true to each other.
TabsHoldTogether == PanesFollowLayout /\ RestartKeepsTerminals /\ FocusIsSomewhere
=============================================================================
