------------------------------- MODULE SignIn -------------------------------
(***************************************************************************)
(* Signing in to a sync provider: the slot of the flow that is under way   *)
(* (commands/sync.rs), the flows in the browser (sync/oauth.rs), and the   *)
(* page that begins and cancels them and connects (SetupView.tsx).         *)
(*                                                                         *)
(* What the user does on the page is numbered; a flow has the number of    *)
(* the click that began it and stands for the account it signs in to.      *)
(* Commands are handled in any order, events and answers arrive in any.    *)
(* What a connection does with the store is in VaultSync.                  *)
(***************************************************************************)
EXTENDS Naturals

CONSTANTS
  Provider,         \* providers with a sign-in
  FirstProvider,    \* the one the page begins with
  MaxClicks         \* bound: what the user does, page loads included

SignInAssumption == FirstProvider \in Provider /\ MaxClicks \in Nat

VARIABLES
  kind,        \* the provider chosen on the page
  phase,       \* what the page shows: [step, flow]
  current,     \* attemptRef: the flow whose answer the page waits for
  connecting,  \* a connect is under way, for the flow shown then
  clicks,      \* the number of the last click
  calls,       \* commands on their way: [cmd, at, kind]
  told,        \* events and answers on their way: <<flow, what>>
  slot,        \* AppState.sync_oauth: [generation, pending, live]
  flow,        \* flow[n]: [state, kind, generation]
  job,         \* sync_connect: [on, flow, generation]
  connection,  \* the account of the stored connection
  handled,     \* history: the latest click whose command was handled
  crossed,     \* history: an earlier command was handled after a later one
  late         \* history: an event of a flow came that is awaited no more

vars == <<kind, phase, current, connecting, clicks, calls, told, slot, flow, job,
          connection, handled, crossed, late>>
page == <<kind, phase, current, connecting, clicks>>
backend == <<slot, flow, job, connection>>
history == <<handled, crossed, late>>

Nil == 0
Click == 1 .. MaxClicks
Idle == [step |-> "idle", flow |-> Nil]
NoFlow == [state |-> "none", kind |-> FirstProvider, generation |-> 0]
NoJob == [on |-> FALSE, flow |-> Nil, generation |-> 0]

Init ==
  /\ kind = FirstProvider /\ phase = Idle /\ current = Nil /\ connecting = Nil /\ clicks = 0
  /\ calls = {} /\ told = {}
  /\ slot = [generation |-> 0, pending |-> Nil, live |-> Nil]
  /\ flow = [n \in Click |-> NoFlow] /\ job = NoJob /\ connection = Nil
  /\ handled = 0 /\ crossed = FALSE /\ late = FALSE

-----------------------------------------------------------------------------
(* The page.  As long as there is a connection it shows that one instead.  *)

Clicks == clicks < MaxClicks /\ clicks' = clicks + 1
Sends(cmds) == calls' = calls \cup {[cmd |-> c, at |-> clicks', kind |-> kind] : c \in cmds}

(* selectProvider cancels, and so does the effect of the panel.            *)
Select ==
  /\ Clicks /\ connecting = Nil /\ phase.step # "connected"
  /\ \E k \in Provider \ {kind} : kind' = k
  /\ phase' = Idle /\ current' = Nil /\ Sends({"cancel", "cancel of panel"})
  /\ UNCHANGED <<connecting, told, backend, history>>

(* The button of the first sign-in waits for the one before to end, unless *)
(* the user has been at a provider without one in between; the button to   *)
(* sign in again does not wait.                                            *)
Begin ==
  /\ Clicks /\ phase.step \in {"idle", "authorized"}
  /\ phase.step = "idle" => current = Nil
  /\ current' = clicks' /\ Sends({"start"})
  /\ UNCHANGED <<kind, phase, connecting, told, backend, history>>

Cancel ==
  /\ Clicks /\ phase.step = "waiting"
  /\ phase' = Idle /\ current' = Nil /\ Sends({"cancel"})
  /\ UNCHANGED <<kind, connecting, told, backend, history>>

Connect ==
  /\ Clicks /\ phase.step = "authorized" /\ connecting = Nil
  /\ connecting' = phase.flow /\ Sends({"connect"})
  /\ UNCHANGED <<kind, phase, current, told, backend, history>>

Disconnect ==
  /\ Clicks /\ phase.step = "connected" /\ phase' = Idle /\ Sends({"disconnect"})
  /\ UNCHANGED <<kind, current, connecting, told, backend, history>>

(* deviceCode or browser: shown whoever waits for it.                      *)
HearEvent(n) ==
  /\ <<n, "event">> \in told /\ told' = told \ {<<n, "event">>}
  /\ phase' = IF phase.step = "connected" THEN phase ELSE [step |-> "waiting", flow |-> n]
  /\ late' = (late \/ current # n)
  /\ UNCHANGED <<kind, current, connecting, clicks, calls, backend, handled, crossed>>

HearAnswer(n) ==
  \E what \in {"ok", "error"} :
    /\ <<n, what>> \in told /\ told' = told \ {<<n, what>>}
    /\ IF current # n THEN UNCHANGED <<phase, current>>
       ELSE /\ current' = Nil
            /\ phase' = IF what = "ok" THEN [step |-> "authorized", flow |-> n] ELSE Idle
    /\ UNCHANGED <<kind, connecting, clicks, calls, backend, history>>

(* The answer of connect: a connection takes the place of the panel, whose *)
(* effect cancels.                                                         *)
HearConnect ==
  \E what \in {"connected", "refused"} :
    /\ <<Nil, what>> \in told /\ told' = told \ {<<Nil, what>>} /\ connecting' = Nil
    /\ IF what = "refused" THEN UNCHANGED <<kind, phase, current, clicks, calls>>
       ELSE /\ Clicks /\ phase' = [step |-> "connected", flow |-> Nil] /\ current' = Nil
            /\ kind' = FirstProvider /\ Sends({"cancel"})
    /\ UNCHANGED <<backend, history>>

-----------------------------------------------------------------------------
(* The backend.                                                            *)

Handle(c, cmds) ==
  /\ c \in calls /\ c.cmd \in cmds /\ calls' = calls \ {c}
  /\ crossed' = (crossed \/ c.at < handled)
  /\ handled' = IF c.at > handled THEN c.at ELSE handled
  /\ UNCHANGED <<page, late>>

(* The flow before is told to end and what it left is forgotten.  It may   *)
(* end at any time, told or not, well or not: see Settle.                  *)
Fresh(live) == [generation |-> slot.generation + 1, pending |-> Nil, live |-> live]

(* sync_oauth_start                                                        *)
Start(c) ==
  /\ Handle(c, {"start"}) /\ slot' = Fresh(c.at)
  /\ flow' = [flow EXCEPT ![c.at] =
               [state |-> "asks", kind |-> c.kind, generation |-> slot'.generation]]
  /\ UNCHANGED <<told, job, connection>>

(* sync_oauth_cancel                                                       *)
CancelFlow(c) ==
  /\ Handle(c, {"cancel", "cancel of panel"}) /\ slot' = Fresh(Nil)
  /\ UNCHANGED <<told, flow, job, connection>>

(* The code is there, or the browser is open.                              *)
Announce(n) ==
  /\ flow[n].state = "asks" /\ flow' = [flow EXCEPT ![n].state = "waits"]
  /\ told' = told \cup {<<n, "event">>}
  /\ UNCHANGED <<page, calls, slot, job, connection, history>>

(* A flow that was told may still end well: its last requests are not      *)
(* interrupted.                                                            *)
IsCurrent(n) == slot.generation = flow[n].generation

Settle(n) ==
  /\ \/ flow[n].state = "waits" /\ \E ok \in BOOLEAN :
          /\ slot' = IF IsCurrent(n)
                     THEN [slot EXCEPT !.live = Nil, !.pending = IF ok THEN n ELSE @] ELSE slot
          /\ told' = told \cup {<<n, IF ok /\ IsCurrent(n) THEN "ok" ELSE "error">>}
     \/ /\ flow[n].state = "asks"
        /\ slot' = IF IsCurrent(n) THEN [slot EXCEPT !.live = Nil] ELSE slot
        /\ told' = told \cup {<<n, "error">>}
  /\ flow' = [flow EXCEPT ![n].state = "ended"]
  /\ UNCHANGED <<page, calls, job, connection, history>>

(* sync_connect: build_config reads the slot, the rest takes its time.     *)
ConnectBegin(c) ==
  /\ ~job.on /\ Handle(c, {"connect"})
  /\ IF connection = Nil /\ slot.pending # Nil /\ flow[slot.pending].kind = c.kind
     THEN /\ job' = [on |-> TRUE, flow |-> slot.pending, generation |-> slot.generation]
          /\ UNCHANGED told
     ELSE told' = told \cup {<<Nil, "refused">>} /\ UNCHANGED job
  /\ UNCHANGED <<slot, flow, connection>>

ConnectEnd ==
  /\ job.on /\ job' = NoJob
  /\ \/ told' = told \cup {<<Nil, "refused">>} /\ UNCHANGED <<slot, connection>>
     \/ /\ connection' = job.flow /\ told' = told \cup {<<Nil, "connected">>}
        /\ slot' = IF slot.generation = job.generation THEN [slot EXCEPT !.pending = Nil]
                   ELSE slot
  /\ UNCHANGED <<page, calls, flow, history>>

(* sync_disconnect waits for the operation that is under way.              *)
DisconnectSync(c) ==
  /\ ~job.on /\ Handle(c, {"disconnect"}) /\ connection' = Nil
  /\ slot' = Fresh(Nil) /\ UNCHANGED <<told, flow, job>>

(* A page load: cleanup_orphaned_sessions, and a new page.                 *)
PageLoad ==
  /\ Clicks /\ slot' = Fresh(Nil) /\ told' = {}
  /\ handled' = clicks' /\ crossed' = (crossed \/ calls # {} \/ job.on)
  /\ kind' = FirstProvider /\ current' = Nil /\ connecting' = Nil
  /\ phase' = IF connection = Nil THEN Idle ELSE [step |-> "connected", flow |-> Nil]
  /\ UNCHANGED <<calls, flow, job, connection, late>>

Next ==
  \/ Select \/ Begin \/ Cancel \/ Connect \/ Disconnect \/ HearConnect \/ PageLoad
  \/ \E n \in Click : HearEvent(n) \/ HearAnswer(n) \/ Announce(n) \/ Settle(n)
  \/ \E c \in calls : Start(c) \/ CancelFlow(c) \/ ConnectBegin(c) \/ DisconnectSync(c)
  \/ ConnectEnd

Spec == Init /\ [][Next]_vars

-----------------------------------------------------------------------------
Flow == {Nil} \cup Click

TypeOK ==
  /\ kind \in Provider /\ current \in Flow /\ connecting \in Flow /\ connection \in Flow
  /\ phase \in [step : {"idle", "waiting", "authorized", "connected"}, flow : Flow]
  /\ slot \in [generation : Nat, pending : Flow, live : Flow]
  /\ flow \in [Click -> [state : {"none", "asks", "waits", "ended"}, kind : Provider,
                         generation : Nat]]

(* A connect uses the account the page showed when the user asked for it,  *)
(* or one the user began to sign in to since: no flow that was cancelled   *)
(* or replaced, however late it ends.                                      *)
ConnectsAsShown == job.on /\ ~crossed /\ connecting # Nil => job.flow >= connecting

(* When nothing is on its way the page is right: an account it shows is    *)
(* the one it would connect, a flow it waits for is under way.  Exempt is  *)
(* an event that comes after its flow was given up: the page shows it.     *)
PhaseIsTrue ==
  calls = {} /\ told = {} /\ ~job.on /\ ~crossed /\ ~late =>
    /\ phase.step = "authorized" /\ current = Nil => slot.pending = phase.flow
    /\ phase.step = "waiting" => slot.live = phase.flow /\ flow[phase.flow].state = "waits"
    /\ phase.step = "idle" => slot.pending = Nil
=============================================================================
