------------------------- MODULE ConnectionPrompts -------------------------
(***************************************************************************)
(* Questions a connection asks the user while it is being opened: whether  *)
(* to trust a host key (ssh/handler.rs, terminal/host-key.ts) and for a    *)
(* password (ssh/connect.rs request_auth_response, password-prompt.ts).    *)
(* Both follow the same protocol: the backend keeps the pending prompts in *)
(* a map, announces a prompt and its end by events, and the page, which    *)
(* may start listening late, asks for those it has missed.                 *)
(*                                                                         *)
(* Events reach the page in the order they are emitted, or nobody when     *)
(* their listener is not installed yet.                                    *)
(***************************************************************************)
EXTENDS Integers, FiniteSets, SequencesExt

CONSTANTS
  Prompt,
  Attempts,    \* RECOVERY_ATTEMPTS
  MaxReloads   \* bound: how often the page is loaded again

ConnectionPromptsAssumption ==
  IsFiniteSet(Prompt) /\ Attempts \in Nat \ {0} /\ MaxReloads \in Nat

VARIABLES
  at,         \* where the connection is that asks: "new", "pending", "asking",
              \* "closed"
  pending,    \* host_keys and passwords: the prompts that can be answered
  events,     \* emitted and not yet handled by the page
  queue,      \* the prompts the page shows, in order
  listener,   \* "none", "prompt" (the first one), "both" (synchronising), "done",
              \* "unsure" (the list could not be had, recovery was given up)
  attempt,    \* recoverPendingPrompts: failed calls so far
  snapshot,   \* the answer of the pending call: Unasked, or a set of prompts
  closed,     \* closedDuringSync
  answers,    \* respond calls on their way
  missed,     \* prompts whose end nobody was listening for
  refused,    \* prompts whose respond call has failed
  reloads

vars == <<at, pending, events, queue, listener, attempt, snapshot, closed,
          answers, missed, refused, reloads>>

backend == <<at, pending>>
page == <<queue, listener, attempt, snapshot, closed, answers, missed, refused>>

Unasked == <<>>

Shown == {queue[i] : i \in DOMAIN queue}

\* filter by the id, which a prompt shown once has for itself
Without(q, p) ==
  IF \E i \in DOMAIN q : q[i] = p
    THEN RemoveAt(q, CHOOSE i \in DOMAIN q : q[i] = p) ELSE q

\* Mutant: a prompt that was recovered is shown again when its event comes.
PushAgain(q, p) == Append(q, p)

\* push: a prompt is shown once.
Push(q, p) == IF \E i \in DOMAIN q : q[i] = p THEN q ELSE Append(q, p)

Init ==
  /\ at = [p \in Prompt |-> "new"]
  /\ pending = {}
  /\ events = <<>>
  /\ queue = <<>>
  /\ listener = "none"
  /\ attempt = 0
  /\ snapshot = Unasked
  /\ closed = {} /\ answers = {} /\ missed = {} /\ refused = {}
  /\ reloads = 0

-----------------------------------------------------------------------------
(* The backend *)

Insert(p) ==
  /\ at[p] = "new"
  /\ at' = [at EXCEPT ![p] = "pending"]
  /\ pending' = pending \cup {p}
  /\ UNCHANGED <<events, page, reloads>>

Emit(p) ==
  /\ at[p] = "pending"
  /\ at' = [at EXCEPT ![p] = "asking"]
  /\ events' = Append(events, <<"prompt", p>>)
  /\ UNCHANGED <<pending, page, reloads>>

\* The guard is dropped: after an answer, on a timeout, when the map was
\* cleared, or with the connection that is given up.
Close(p) ==
  /\ at[p] = "asking"
  /\ at' = [at EXCEPT ![p] = "closed"]
  /\ pending' = pending \ {p}
  /\ events' = Append(events, <<"closed", p>>)
  /\ UNCHANGED <<page, reloads>>

\* resolve_host_key and resolve_password: only a pending prompt hears it; it may
\* hear it even before it is announced, when the page found it in the list.
HandleAnswer(p) ==
  /\ p \in answers
  /\ answers' = answers \ {p}
  /\ pending' = pending \ {p}
  /\ UNCHANGED <<at, events, queue, listener, attempt, snapshot, closed, missed,
                 refused, reloads>>

-----------------------------------------------------------------------------
(* The page *)

\* listenHostKeyEvents and listenPasswordPrompts, from await to await.
Listen ==
  /\ \/ listener = "none" /\ listener' = "prompt"
     \/ listener = "prompt" /\ listener' = "both"
  /\ UNCHANGED <<backend, events, queue, attempt, snapshot, closed, answers,
                 missed, refused, reloads>>

\* closedDuringSync
Remembered(p) == IF listener = "both" THEN {p} ELSE {}

Hear ==
  /\ events # <<>>
  /\ events' = Tail(events)
  /\ LET p == Head(events)[2]
     IN  \/ /\ Head(events)[1] = "prompt" /\ listener # "none"
            /\ queue' = Push(queue, p)
            /\ UNCHANGED <<closed, missed>>
         \/ /\ Head(events)[1] = "closed" /\ listener \in {"both", "done", "unsure"}
            /\ queue' = Without(queue, p)
            /\ closed' = closed \cup Remembered(p)
            /\ UNCHANGED missed
         \/ /\ Head(events)[1] = "closed" /\ listener \in {"none", "prompt"}
            /\ missed' = missed \cup {p}
            /\ UNCHANGED <<queue, closed>>
         \/ /\ Head(events)[1] = "prompt" /\ listener = "none"
            /\ UNCHANGED <<queue, closed, missed>>
  /\ UNCHANGED <<backend, listener, attempt, snapshot, answers, refused, reloads>>

\* ssh_host_key_pending and ssh_password_pending.
AskPending ==
  /\ listener = "both" /\ snapshot = Unasked
  /\ snapshot' = <<pending>>
  /\ UNCHANGED <<backend, events, queue, listener, attempt, closed, answers,
                 missed, refused, reloads>>

\* The call fails and is tried again, up to RECOVERY_ATTEMPTS times.
AskFails ==
  /\ listener = "both"
  /\ attempt + 1 < Attempts
  /\ attempt' = attempt + 1
  /\ snapshot' = Unasked
  /\ UNCHANGED <<backend, events, queue, listener, closed, answers, missed,
                 refused, reloads>>

\* The last call fails too: only the events are left to the page.
AskGivesUp ==
  /\ listener = "both"
  /\ attempt + 1 = Attempts
  /\ listener' = "unsure"
  /\ snapshot' = Unasked
  /\ UNCHANGED <<backend, events, queue, attempt, closed, answers, missed,
                 refused, reloads>>

\* The page adopts what it had missed, in the order the map lists it.
Adopt ==
  /\ snapshot # Unasked
  /\ LET missing == (snapshot[1] \ closed) \ Shown
     IN  \E order \in Bijection(1..Cardinality(missing), missing) :
           queue' = queue \o order
  /\ listener' = "done"
  /\ snapshot' = Unasked
  /\ closed' = {}
  /\ UNCHANGED <<backend, events, attempt, answers, missed, refused, reloads>>

\* respond, for the prompt in front, or by rejectSession and cancelSession for
\* any prompt of a session that is closed.
Respond(p) ==
  /\ p \in Shown
  /\ queue' = Without(queue, p)
  /\ answers' = answers \cup {p}
  /\ UNCHANGED <<backend, events, listener, attempt, snapshot, closed, missed,
                 refused, reloads>>

\* Mutant: a prompt whose answer was refused is not shown again.
Dropped(q, p) == q

\* The answer is refused, or the call fails: the prompt is back in front.
Returned(q, p) == IF \E i \in DOMAIN q : q[i] = p THEN q ELSE <<p>> \o q

RespondFails(p) ==
  /\ p \in answers
  /\ answers' = answers \ {p}
  /\ refused' = refused \cup {p}
  /\ queue' = Returned(queue, p)
  /\ UNCHANGED <<backend, events, listener, attempt, snapshot, closed, missed,
                 reloads>>

\* The page is loaded again: cleanup_orphaned_sessions clears the maps.
Reload ==
  /\ reloads < MaxReloads
  /\ reloads' = reloads + 1
  /\ pending' = {}
  /\ events' = <<>> /\ queue' = <<>>
  /\ listener' = "none" /\ attempt' = 0 /\ snapshot' = Unasked
  /\ closed' = {} /\ answers' = {} /\ missed' = {} /\ refused' = {}
  /\ UNCHANGED at

Next ==
  \/ \E p \in Prompt :
       \/ Insert(p) \/ Emit(p) \/ Close(p) \/ HandleAnswer(p)
       \/ Respond(p) \/ RespondFails(p)
  \/ Listen \/ Hear \/ AskPending \/ AskFails \/ AskGivesUp \/ Adopt \/ Reload

Spec == Init /\ [][Next]_vars

-----------------------------------------------------------------------------
(* Properties *)

\* The variables have the values the code gives them; a prompt can be
\* answered only while its connection waits, and is shown at most once.
TypeOK ==
  /\ at \in [Prompt -> {"new", "pending", "asking", "closed"}]
  /\ pending \subseteq {p \in Prompt : at[p] \in {"pending", "asking"}}
  /\ Shown \subseteq Prompt
  /\ \A i, j \in DOMAIN queue : queue[i] = queue[j] => i = j
  /\ listener \in {"none", "prompt", "both", "done", "unsure"}
  /\ attempt \in 0..(Attempts - 1)
  /\ answers \cup closed \cup missed \cup refused \subseteq Prompt

\* A connection never waits for an answer to a question that nobody sees: once
\* the page has synchronised and the events are handled, every prompt that can
\* be answered is shown or its answer is on the way, whenever it was asked
\* (listenHostKeyEvents, recoverPendingPrompts, respond).
EveryPromptIsShown ==
  listener = "done" /\ events = <<>> =>
    \A p \in pending : at[p] = "asking" => p \in Shown \cup answers

\* A question whose end the page has heard of is not shown again, not even by
\* the list of pending prompts it asked for before; only a question whose
\* answer failed comes back (closedDuringSync, dismiss).
EndedIsGone ==
  \A p \in Shown :
    \/ at[p] # "closed"
    \/ p \in missed \cup refused
    \/ \E i \in DOMAIN events : events[i] = <<"closed", p>>

\* The page asks what a connection waits for, and nothing else.
PromptsAreTrue == EveryPromptIsShown /\ EndedIsGone
=============================================================================
