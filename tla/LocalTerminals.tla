--------------------------- MODULE LocalTerminals ---------------------------
(***************************************************************************)
(* The shell of one local terminal pane: the PtyManager (pty/mod.rs), its  *)
(* threads, and the page that opens and closes it (features/terminal).     *)
(*                                                                         *)
(* The map is keyed by the pane's id; the page numbers its attempts and a  *)
(* restored page numbers them anew.  Commands run on threads of their own, *)
(* in any order (calls is a set).  Whoever takes an entry out of the map   *)
(* kills its child at once: nothing can come between that matters.  Input  *)
(* and resizing go to the entry of their attempt or nowhere.               *)
(***************************************************************************)
EXTENDS Naturals

CONSTANTS
  MaxOpens,         \* bound: opens the pages ask for
  MaxLoads          \* bound: page loads

LocalTerminalsAssumption == MaxOpens \in Nat /\ MaxLoads \in Nat

VARIABLES
  pane,       \* what the page knows: [ui, attempt, chan, released]
  opens,      \* opens asked for so far
  calls,      \* commands under way
  shell,      \* shell[i]: the child of the i-th open and the thread that waits
  entry,      \* the shell whose entry is in the map, Nil if there is none
  loads,      \* page loads
  told,       \* statuses on their way to the page: <<chan, status>>
  crossed,    \* history: an open was handled after its close or its page
  repeated    \* history: an attempt was opened while another shell of that
              \* number was waited for

vars == <<pane, opens, calls, shell, entry, loads, told, crossed, repeated>>
page == <<pane, opens, loads>>
history == <<crossed, repeated>>

Nil == 0
Chan == 1 .. MaxOpens
Unborn == [attempt |-> 0, child |-> "none", waiter |-> "none"]
Unmounted(ui) == [ui |-> ui, attempt |-> 0, chan |-> Nil, released |-> TRUE]

Init ==
  /\ pane = Unmounted("new") /\ opens = 0 /\ calls = {}
  /\ shell = [i \in Chan |-> Unborn] /\ entry = Nil
  /\ loads = 0 /\ told = {} /\ crossed = FALSE /\ repeated = FALSE

-----------------------------------------------------------------------------
(* The page.                                                               *)

Command(cmd, p) == [cmd |-> cmd, attempt |-> p.attempt, chan |-> p.chan]

(* disconnectTransport: once for each attempt.                             *)
Release(p) == IF p.released THEN {} ELSE {Command("close", p)}

Open ==
  /\ pane.ui # "closed" /\ opens < MaxOpens /\ opens' = opens + 1
  /\ pane' = [ui |-> "waiting", chan |-> opens', released |-> FALSE,
              attempt |-> IF pane.ui = "new" /\ loads = 0 THEN 0 ELSE pane.attempt + 1]
  /\ calls' = calls \cup Release(pane) \cup {Command("open", pane')}
  /\ UNCHANGED <<shell, entry, loads, told, history>>

(* A status arrives, the ones of a channel in their order; after a         *)
(* disconnect nobody listens any more.                                     *)
Hear ==
  \E x \in told :
    /\ x[2] = "ended" => <<x[1], "connected">> \notin told
    /\ told' = told \ {x}
    /\ IF x[1] = pane.chan /\ ~pane.released /\ pane.ui \in {"waiting", "connected"}
       THEN pane' = [pane EXCEPT !.ui = x[2]] ELSE UNCHANGED pane
    /\ UNCHANGED <<opens, calls, shell, entry, loads, history>>

(* The watchdog runs out, or input does not get through.                   *)
GiveUp ==
  /\ pane.ui \in {"waiting", "connected"}
  /\ pane' = [pane EXCEPT !.ui = "ended", !.released = TRUE]
  /\ calls' = calls \cup Release(pane)
  /\ UNCHANGED <<opens, shell, entry, loads, told, history>>

(* releasePane closes the pane's shell, whatever its attempt.              *)
ClosePane ==
  /\ pane.ui # "closed" /\ pane' = Unmounted("closed")
  /\ calls' = calls \cup Release(pane) \cup {Command("close any", pane)}
  /\ UNCHANGED <<opens, shell, entry, loads, told, history>>

-----------------------------------------------------------------------------
(* PtyManager.                                                             *)

Handle(c) == c \in calls /\ calls' = calls \ {c}
Kill(i) == [shell EXCEPT ![i].child = IF @ = "alive" THEN "killed" ELSE @]
Killed == IF entry = Nil THEN shell ELSE Kill(entry)

(* An entry of this attempt or a later one stays and the call says nothing.*)
IsStale(c) == entry # Nil /\ shell[entry].attempt >= c.attempt

Crosses(c) ==
  \/ c.chan # pane.chan \/ pane.released
  \/ \E d \in calls : d.cmd = "open" /\ d.chan # c.chan /\ d.attempt >= c.attempt

(* open: the new shell takes the place of the one before.  If "connected"  *)
(* cannot be sent it is closed again and nobody waits for the child.       *)
Spawn(c) ==
  /\ c.cmd = "open" /\ Handle(c)
  /\ crossed' = (crossed \/ Crosses(c))
  /\ repeated' = (repeated \/ \E i \in Chan :
       shell[i].waiter = "waits" /\ shell[i].attempt = c.attempt)
  /\ \/ IsStale(c) /\ UNCHANGED <<shell, entry, told>>
     \/ ~IsStale(c) /\ told' = told \cup {<<c.chan, "ended">>} /\ UNCHANGED <<shell, entry>>
     \/ /\ ~IsStale(c) /\ entry' = c.chan /\ told' = told \cup {<<c.chan, "connected">>}
        /\ shell' = [Killed EXCEPT
             ![c.chan] = [attempt |-> c.attempt, child |-> "alive", waiter |-> "waits"]]
     \/ /\ ~IsStale(c) /\ entry' = Nil /\ told' = told \cup {<<c.chan, "ended">>}
        /\ shell' = [Killed EXCEPT
             ![c.chan] = [attempt |-> c.attempt, child |-> "killed", waiter |-> "none"]]
  /\ UNCHANGED page

(* close with an attempt, or with none.                                    *)
Closes(c) == entry # Nil /\ (c.cmd = "close any" \/ shell[entry].attempt = c.attempt)

Close(c) ==
  /\ c.cmd \in {"close", "close any"} /\ Handle(c)
  /\ IF Closes(c) THEN shell' = Killed /\ entry' = Nil ELSE UNCHANGED <<shell, entry>>
  /\ UNCHANGED <<page, told, history>>

(* A shell ends when the user leaves it or after it was killed.            *)
Exit(i) ==
  /\ shell[i].child \in {"alive", "killed"}
  /\ shell' = [shell EXCEPT ![i].child = "dead"]
  /\ UNCHANGED <<page, calls, entry, told, history>>

AnyIsOwn(i) == entry # Nil     \* a fault: the attempt is not compared

(* The waiting thread takes its own entry away, and no other.              *)
IsOwn(i) == entry # Nil /\ shell[entry].attempt = shell[i].attempt

Reap(i) ==
  /\ shell[i].child = "dead" /\ shell[i].waiter = "waits"
  /\ shell' = [shell EXCEPT ![i].waiter = "reads"]
  /\ entry' = IF IsOwn(i) THEN Nil ELSE entry
  /\ UNCHANGED <<page, calls, told, history>>

(* The reader has sent what was left; then the page is told.               *)
Report(i) ==
  /\ shell[i].waiter = "reads"
  /\ shell' = [shell EXCEPT ![i].waiter = "done"]
  /\ told' = told \cup {<<i, "ended">>}
  /\ UNCHANGED <<page, calls, entry, history>>

(* A page load: close_all, and the pane is restored.  Commands of the old  *)
(* page may still be on their way.                                         *)
PageLoad ==
  /\ loads < MaxLoads /\ pane.ui # "closed" /\ loads' = loads + 1
  /\ pane' = Unmounted("ended") /\ told' = {}
  /\ shell' = Killed /\ entry' = Nil
  /\ UNCHANGED <<opens, calls, history>>

Next ==
  \/ Open \/ Hear \/ GiveUp \/ ClosePane \/ PageLoad
  \/ \E c \in calls : Spawn(c) \/ Close(c)
  \/ \E i \in Chan : Exit(i) \/ Reap(i) \/ Report(i)

Spec == Init /\ [][Next]_vars

-----------------------------------------------------------------------------
TypeOK ==
  /\ pane \in [ui : {"new", "waiting", "connected", "ended", "closed"}, attempt : Nat,
               chan : {Nil} \cup Chan, released : BOOLEAN]
  /\ shell \in [Chan -> [attempt : Nat, child : {"none", "alive", "killed", "dead"},
                         waiter : {"none", "waits", "reads", "done"}]]
  /\ entry \in {Nil} \cup Chan

(* A shell that runs is in the map, where it can be closed, and one that   *)
(* ends takes no later one with it.  Attempts that repeat after a page     *)
(* load break this: the thread of the old shell knows it by its number.    *)
ShellsAreKept == \A i \in Chan : shell[i].child = "alive" /\ ~repeated => entry = i

(* When nothing is on its way, a pane that shows a shell has it, and no    *)
(* other pane has one.  Exempt is an open that was handled too late.       *)
PanesAreTrue ==
  LET quiet == calls = {} /\ told = {}
      ending(i) == shell[i].child # "alive" /\ shell[i].waiter # "done"
  IN quiet /\ ~crossed /\ ~repeated =>
       /\ pane.ui = "connected" => entry = pane.chan \/ ending(pane.chan)
       /\ pane.ui \in {"ended", "closed"} => \A i \in Chan : shell[i].child # "alive"
=============================================================================
