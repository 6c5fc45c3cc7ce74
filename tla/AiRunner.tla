------------------------------ MODULE AiRunner ------------------------------
(***************************************************************************)
(* The chats of the assistant: the store of sessions (features/ai/store.ts)*)
(* and the agent loop that answers a prompt (features/ai/runner.ts), with  *)
(* the rows of ai_sessions and the requests of commands/ai.rs.             *)
(*                                                                         *)
(* A prompt starts a run; a run is sequential and pc says at which await   *)
(* it stands.  One action goes from an await to the next, except that each *)
(* call of a reply is a step of its own.  A call of a tool is known by     *)
(* what the runner tells apart: "auto" has its result before it runs (a    *)
(* preflight error, an automatic result), "ask" is ask_user, and the flags *)
(* of a tool are the sets it belongs to.  Texts, token budgets and the log *)
(* are left out, except for the calls whose approval or answer it shows.   *)
(***************************************************************************)
EXTENDS Integers, Sequences, FiniteSets, SequencesExt

CONSTANTS
  Chat, Stored,     \* ids of sessions; those that exist when the app starts
  None,             \* no row, no runtime, no request
  Kind,             \* kinds of calls the model makes
  Operation,        \* those with requiresApproval,
  Manual,           \*   with alwaysRequireApproval,
  Untrusted,        \*   with untrustedResult
  Images,           \* may a prompt have images: a set of Booleans
  MaxSteps,         \* MAX_STEPS of a run
  MaxAttempts,      \* RETRY_DELAYS_MS and MAX_CONTEXT_SHRINKS together
  MaxCalls,         \* bound: calls of one reply
  MaxRuns,          \* bound: prompts and continuations
  MaxGets,          \* bound: rows being read for one session
  MaxRestarts       \* bound: restarts of the app

AiAssumption ==
  /\ Stored \subseteq Chat /\ Images \subseteq BOOLEAN
  /\ Manual \subseteq Operation /\ Operation \subseteq Kind /\ Untrusted \subseteq Kind
  /\ {"auto", "ask"} \cap (Operation \cup Untrusted) = {}
  /\ MaxSteps \in Nat \ {0} /\ MaxAttempts \in Nat /\ MaxCalls \in Nat
  /\ MaxRuns \in Nat /\ MaxGets \in Nat /\ MaxRestarts \in Nat

VARIABLES
  row,        \* row[c]: messages of the row in ai_sessions, or None
  load,       \* loadSessions: how far it is, the rows it read, is it stale
  listed,     \* state.sessions, as a set
  runtime,    \* state.runtime[c], or None
  created,    \* sessions created so far, and the one newSession waits for
  deleting,   \* deleting[c]: "no", or how far the removal is
  gets,       \* gets[c]: rows being read by openSession
  run,        \* run[r]: one call of runLoop
  runs,       \* runs so far
  queue,      \* saveQueues[c]: the runs that wait for a save, 0 for nobody
  save,       \* save[c]: the request of the head of the queue, or None
  restarts,   \* restarts so far
  failed,     \* history: sessions whose last save was refused
  crossed,    \* history: sessions to which a late reply undid something newer: a
              \*   second row or the creation replaced the runtime, a save or the
              \*   creation was answered after the removal
  removed     \* history: sessions the user deleted

storage == <<row, queue, save, failed>>
lists == <<load, listed, created, deleting, gets, removed>>
vars == <<storage, lists, runtime, run, runs, restarts, crossed>>

Run == 1 .. MaxRuns
Message == [role : {"user", "assistant", "tool"}, calls : Seq(Kind), untrusted : BOOLEAN]
Runtime == [history : Seq(Message), pending : BOOLEAN, stop : BOOLEAN, limit : BOOLEAN,
            req : Run \cup {0}, asks : SUBSET Run]

User(images) == [role |-> "user", calls |-> <<>>, untrusted |-> images]
Reply(calls) == [role |-> "assistant", calls |-> calls, untrusted |-> FALSE]
Result(untrusted) == [role |-> "tool", calls |-> <<>>, untrusted |-> untrusted]

-----------------------------------------------------------------------------
(* Histories.                                                              *)

(* How many results follow message i of h without another in between.      *)
Results(h, i) ==
  Cardinality({j \in (i + 1) .. Len(h) : \A k \in (i + 1) .. j : h[k].role = "tool"})

Speakers(h) == {i \in 1 .. Len(h) : h[i].role # "tool"}

(* validate_messages: every call has its result before the next message;   *)
(* a chat that is stored may end amid the results of its last reply.       *)
WellFormed(h, incomplete) ==
  /\ h # <<>> => h[1].role # "tool"
  /\ \A i \in Speakers(h) :
       \/ Results(h, i) = Len(h[i].calls)
       \/ incomplete /\ Results(h, i) < Len(h[i].calls) /\ i + Results(h, i) = Len(h)

AsStored(h) == h                                  \* a fault: nothing is repaired

RepairHistory(h) ==
  FlattenSeq([i \in 1 .. Len(h) |->
    IF h[i].role = "tool" THEN <<>>
    ELSE SubSeq(h, i, i + Results(h, i)) \o
         [j \in 1 .. (Len(h[i].calls) - Results(h, i)) |-> Result(FALSE)]])

(* modelHistoryWindow: the last turns of the user, as many as fit.         *)
Windows(h) ==
  {SubSeq(h, i, Len(h)) : i \in {j \in 1 .. Len(h) : h[j].role = "user" \/ j = 1}}

(* historyContainsUntrustedContent: images, and results of untrusted tools *)
HasUntrusted(h) ==
  \/ \E i \in 1 .. Len(h) : h[i].untrusted
  \/ \E i \in Speakers(h) : \E k \in 1 .. Results(h, i) :
       k <= Len(h[i].calls) /\ h[i].calls[k] \in Untrusted

-----------------------------------------------------------------------------
Idle == [chat |-> None, pc |-> "idle", auto |-> FALSE, step |-> 1, attempt |-> 0,
         calls |-> <<>>, req |-> "none", cancel |-> 0, seen |-> FALSE, ok |-> FALSE,
         told |-> FALSE]
Fresh(h) == [history |-> h, pending |-> FALSE, stop |-> FALSE, limit |-> FALSE,
             req |-> 0, asks |-> {}]

Init ==
  /\ row \in [Chat -> {<<>>, <<User(FALSE), Reply(<<>>)>>, None}]
  /\ \A c \in Chat : row[c] = None <=> c \notin Stored
  /\ load = [at |-> "no", rows |-> {}, stale |-> FALSE]
  /\ listed = {} /\ created = [all |-> Stored, now |-> None]
  /\ runtime = [c \in Chat |-> None]
  /\ deleting = [c \in Chat |-> "no"] /\ gets = [c \in Chat |-> <<>>]
  /\ run = [r \in Run |-> Idle] /\ runs = 0
  /\ queue = [c \in Chat |-> <<>>] /\ save = [c \in Chat |-> None]
  /\ restarts = 0 /\ failed = {} /\ crossed = {} /\ removed = {}

Live(r) == run[r].pc \notin {"idle", "done"}
LiveRuns(c) == {r \in Run : Live(r) /\ run[r].chat = c}

-----------------------------------------------------------------------------
(* Saving.  patch does nothing when the session has no runtime.            *)
Patched(c, T) == IF runtime[c] = None THEN runtime ELSE [runtime EXCEPT ![c] = T]
Added(c, h) == Patched(c, [runtime[c] EXCEPT !.history = @ \o h])

Persist(c, waiter) == queue' = [queue EXCEPT ![c] = Append(@, waiter)]
Saved(r) == \A i \in 1 .. Len(queue[run[r].chat]) : queue[run[r].chat][i] # r

SaveBegins(c) ==
  /\ queue[c] # <<>> /\ save[c] = None
  /\ IF runtime[c] = None \/ deleting[c] # "no"
     THEN queue' = [queue EXCEPT ![c] = Tail(@)] /\ UNCHANGED save
     ELSE /\ save' = [save EXCEPT ![c] = [at |-> "sent", body |-> runtime[c].history]]
          /\ UNCHANGED queue
  /\ UNCHANGED <<lists, row, failed, runtime, run, runs, restarts, crossed>>

RowWritten(c) ==
  /\ save[c] # None /\ save[c].at = "sent"
  /\ IF row[c] # None /\ WellFormed(save[c].body, TRUE)
     THEN /\ row' = [row EXCEPT ![c] = save[c].body]
          /\ save' = [save EXCEPT ![c].at = "written"]
     ELSE save' = [save EXCEPT ![c].at = "refused"] /\ UNCHANGED row
  /\ UNCHANGED <<lists, queue, failed, runtime, run, runs, restarts, crossed>>

SaveEnds(c) ==
  /\ save[c] # None /\ save[c].at # "sent"
  /\ IF save[c].at = "written"
     THEN /\ listed' = listed \cup {c} /\ failed' = failed \ {c}
          /\ crossed' = crossed \cup ({c} \cap removed)
     ELSE failed' = failed \cup {c} /\ UNCHANGED <<listed, crossed>>
  /\ save' = [save EXCEPT ![c] = None] /\ queue' = [queue EXCEPT ![c] = Tail(@)]
  /\ UNCHANGED <<load, created, deleting, gets, removed, row, runtime, run, runs, restarts>>

-----------------------------------------------------------------------------
(* The steps of a run.                                                     *)
Stopped(r) == LET T == runtime[run[r].chat] IN T # None /\ T.stop

Becomes(r, R) == run' = [run EXCEPT ![r] = R]
To(r, pc) == Becomes(r, [run[r] EXCEPT !.pc = pc])
others == <<lists, row, save, failed, runs, restarts, crossed>>

Unsaved(c) == UNCHANGED queue                     \* a fault: the end is not saved

LastSave(c) == Persist(c, 0)

(* The finally of runLoop, after h was added to the history.               *)
End(r, h) ==
  LET c == run[r].chat IN
  /\ runtime' = Patched(c, [runtime[c] EXCEPT !.history = @ \o h, !.pending = FALSE,
                                              !.stop = FALSE, !.req = 0])
  /\ Becomes(r, [Idle EXCEPT !.pc = "done", !.chat = c])
  /\ LastSave(c)

(* requestStep, up to the await of the chat.                               *)
Ask(r, step, attempt, seen) ==
  LET c == run[r].chat
      T == runtime[c] IN
  IF T = None THEN End(r, <<>>)
  ELSE /\ runtime' = [runtime EXCEPT ![c].req = r]
       /\ \E w \in Windows(T.history) :
            Becomes(r, [run[r] EXCEPT
              !.pc = "asking", !.step = step, !.attempt = attempt, !.seen = seen,
              !.req = IF WellFormed(w, FALSE) THEN "sent" ELSE "bad", !.cancel = 0])
       /\ UNCHANGED queue

TitleSaved(r) ==
  /\ run[r].pc = "title" /\ Saved(r)
  /\ To(r, "limits") /\ UNCHANGED <<others, runtime, queue>>

LimitsKnown(r) ==
  /\ run[r].pc = "limits"
  /\ IF Stopped(r) THEN End(r, <<>>)
     ELSE LET T == runtime[run[r].chat]
          IN  Ask(r, 1, 0, T # None /\ HasUntrusted(T.history))
  /\ UNCHANGED others

(* ai_chat puts the request in ai_cancels; ai_chat_cancel takes it out.    *)
Registered(r) ==
  /\ run[r].pc = "asking" /\ run[r].req = "sent"
  /\ Becomes(r, [run[r] EXCEPT !.req = "open"])
  /\ UNCHANGED <<others, runtime, queue>>

CancelArrives(r) ==
  LET T == runtime[run[r].chat] IN
  /\ run[r].cancel > 0
  /\ Becomes(r, [run[r] EXCEPT
       !.req = IF @ = "open" THEN "cut" ELSE @,
       !.cancel = IF @ = 1 /\ T # None /\ T.pending /\ T.stop /\ T.req = r THEN 2 ELSE 0])
  /\ UNCHANGED <<others, runtime, queue>>

Cleared(r) == LET c == run[r].chat IN
  IF runtime[c] = None \/ runtime[c].req # r THEN runtime
  ELSE [runtime EXCEPT ![c].req = 0]

Partial == {<<>>, <<Reply(<<>>)>>}    \* salvagePartial: what was heard, if anything

Answered(r) ==
  /\ run[r].pc = "asking" /\ run[r].req = "open"
  /\ IF Stopped(r) THEN \E h \in Partial : End(r, h)
     ELSE /\ runtime' = Cleared(r)
          /\ \E n \in 0 .. MaxCalls : \E calls \in [1 .. n -> Kind] :
               Becomes(r, [run[r] EXCEPT !.pc = "preparing", !.calls = calls,
                                         !.req = "none", !.cancel = 0])
          /\ UNCHANGED queue
  /\ UNCHANGED others

Cut(r) ==
  /\ run[r].pc = "asking" /\ run[r].req = "cut"
  /\ \E h \in Partial : End(r, h)
  /\ UNCHANGED others

(* The chat fails: the network or the context is tried again.  What was    *)
(* heard of the reply and the text of the error are one message here.      *)
Refused(r, again) ==
  /\ run[r].pc = "asking" /\ run[r].req \in {"open", "bad"}
  /\ again => run[r].req = "open"
  /\ IF again /\ run[r].attempt < MaxAttempts /\ ~Stopped(r)
     THEN /\ runtime' = Cleared(r) /\ UNCHANGED queue
          /\ Becomes(r, [run[r] EXCEPT !.pc = "waiting", !.req = "none", !.cancel = 0])
     ELSE End(r, <<Reply(<<>>)>>)
  /\ UNCHANGED others

Retried(r) ==
  /\ run[r].pc = "waiting"
  /\ IF Stopped(r) THEN End(r, <<>>)
     ELSE Ask(r, run[r].step, run[r].attempt + 1, run[r].seen)
  /\ UNCHANGED others

(* Every call was prepared: the reply enters the history.                  *)
Prepared(r) ==
  LET c == run[r].chat IN
  /\ run[r].pc = "preparing"
  /\ runtime' = Added(c, <<Reply(run[r].calls)>>)
  /\ To(r, "saving") /\ Persist(c, r)
  /\ UNCHANGED others

ReplySaved(r) ==
  /\ run[r].pc = "saving" /\ Saved(r)
  /\ IF run[r].calls = <<>> THEN End(r, <<>>)
     ELSE To(r, "next") /\ UNCHANGED <<runtime, queue>>
  /\ UNCHANGED others

Resulted(r, untrusted) ==      \* the result of the current call
  /\ runtime' = Added(run[r].chat, <<Result(untrusted)>>)
  /\ Becomes(r, [run[r] EXCEPT !.pc = "next", !.calls = Tail(@), !.ok = FALSE,
                               !.seen = @ \/ untrusted])
  /\ UNCHANGED queue

Trusting(r, k) == k \in Operation /\ (k \in Manual \/ ~run[r].auto)     \* a fault

NeedsApproval(r, k) ==
  k \in Operation /\ (k \in Manual \/ ~run[r].auto \/ run[r].seen)

Call(r) ==
  LET c == run[r].chat
      k == Head(run[r].calls) IN
  /\ run[r].pc = "next" /\ run[r].calls # <<>>
  /\ IF Stopped(r) \/ k = "auto" THEN Resulted(r, FALSE)
     ELSE LET asks == k = "ask" \/ NeedsApproval(r, k) IN
          /\ To(r, IF asks THEN "waitingUser" ELSE "running")
          /\ runtime' = IF asks THEN Patched(c, [runtime[c] EXCEPT !.asks = @ \cup {r}])
                        ELSE runtime
          /\ UNCHANGED queue
  /\ UNCHANGED others

AllowedOnce(r) == run[r].ok                    \* a fault: a late stop is not seen

StillAllowed(r) == run[r].ok /\ ~Stopped(r)

Decided(r) ==
  /\ run[r].pc = "decided"
  /\ IF Head(run[r].calls) # "ask" /\ StillAllowed(r)
     THEN To(r, "running") /\ UNCHANGED <<runtime, queue>>
     ELSE Resulted(r, FALSE)
  /\ UNCHANGED others

Executed(r) ==
  /\ run[r].pc = "running"
  /\ Resulted(r, Head(run[r].calls) \in Untrusted)
  /\ UNCHANGED others

CallsDone(r) ==
  /\ run[r].pc = "next" /\ run[r].calls = <<>>
  /\ To(r, "closing") /\ Persist(run[r].chat, r)
  /\ UNCHANGED <<others, runtime>>

StepSaved(r) ==
  LET c == run[r].chat IN
  /\ run[r].pc = "closing" /\ Saved(r)
  /\ IF Stopped(r) THEN End(r, <<>>)
     ELSE IF run[r].step < MaxSteps THEN Ask(r, run[r].step + 1, 0, run[r].seen)
     ELSE /\ runtime' = Patched(c, [runtime[c] EXCEPT !.limit = TRUE])
          /\ To(r, "limit") /\ Persist(c, r)
  /\ UNCHANGED others

LimitSaved(r) ==
  /\ run[r].pc = "limit" /\ Saved(r)
  /\ End(r, <<>>) /\ UNCHANGED others

-----------------------------------------------------------------------------
CanAlways(c) == runs < MaxRuns /\ runtime[c] # None     \* a fault: pending is not asked

(* The user.  Bound: no prompt is followed in a session of crossed.        *)
CanStart(c) ==
  runs < MaxRuns /\ c \notin crossed /\ runtime[c] # None /\ ~runtime[c].pending

Starts(c, pc, auto, h) ==
  /\ runtime' = [runtime EXCEPT ![c].history = @ \o h, ![c].pending = TRUE,
                                ![c].stop = FALSE, ![c].limit = FALSE]
  /\ runs' = runs + 1
  /\ Becomes(runs', [Idle EXCEPT !.chat = c, !.pc = pc, !.auto = auto])
  /\ UNCHANGED <<lists, row, save, failed, restarts, crossed>>

Send(c, auto, images) ==
  /\ CanStart(c)
  /\ Starts(c, "title", auto, <<User(images)>>) /\ Persist(c, runs + 1)

Resume(c, auto) ==
  /\ CanStart(c) /\ runtime[c].limit
  /\ Starts(c, "limits", auto, <<>>) /\ UNCHANGED queue

(* stop: the runs of the session learn of it, and who waits for the user.  *)
Halt(c) ==
  IF runtime[c] = None \/ ~runtime[c].pending THEN UNCHANGED <<runtime, run>>
  ELSE /\ runtime' = [runtime EXCEPT ![c].stop = TRUE, ![c].asks = {}]
       /\ run' = [r \in Run |->
            IF r \notin LiveRuns(c) THEN run[r]
            ELSE [run[r] EXCEPT
              !.told = TRUE, !.ok = IF run[r].pc = "waitingUser" THEN FALSE ELSE @,
              !.pc = IF @ = "waitingUser" THEN "decided" ELSE @,
              !.cancel = IF runtime[c].req = r THEN 1 ELSE @]]

Stop(c) ==
  /\ runtime[c] # None /\ runtime[c].pending
  /\ Halt(c)
  /\ UNCHANGED <<lists, storage, runs, restarts, crossed>>

Decide(r, yes) ==
  LET c == run[r].chat IN
  /\ run[r].pc = "waitingUser" /\ runtime[c] # None /\ r \in runtime[c].asks
  /\ runtime' = [runtime EXCEPT ![c].asks = @ \ {r}]
  /\ Becomes(r, [run[r] EXCEPT !.pc = "decided", !.ok = yes])
  /\ UNCHANGED <<others, queue>>

Overwritten(c) == IF runtime[c] = None THEN crossed ELSE crossed \cup {c}

Open(c) ==
  /\ c \in listed /\ runtime[c] = None /\ Len(gets[c]) < MaxGets
  /\ gets' = [gets EXCEPT ![c] = Append(@, [read |-> FALSE, row |-> None])]
  /\ UNCHANGED <<load, listed, created, deleting, removed, storage, runtime, run, runs,
                 restarts, crossed>>

RowRead(c, i) ==
  /\ ~gets[c][i].read
  /\ gets' = [gets EXCEPT ![c][i] = [read |-> TRUE, row |-> row[c]]]
  /\ UNCHANGED <<load, listed, created, deleting, removed, storage, runtime, run, runs,
                 restarts, crossed>>

GotRow(c, i) ==
  LET got == gets[c][i].row IN
  /\ gets[c][i].read
  /\ gets' = [gets EXCEPT ![c] = RemoveAt(@, i)]
  /\ IF got = None \/ deleting[c] # "no" \/ c \notin listed
     THEN UNCHANGED <<runtime, crossed>>
     ELSE /\ runtime' = [runtime EXCEPT ![c] = Fresh(RepairHistory(got))]
          /\ crossed' = Overwritten(c)
  /\ UNCHANGED <<load, listed, created, deleting, removed, storage, run, runs, restarts>>

New(c) ==
  /\ created.now = None /\ c \notin created.all
  /\ created' = [all |-> created.all \cup {c}, now |-> c]
  /\ row' = [row EXCEPT ![c] = <<>>]
  /\ UNCHANGED <<load, listed, deleting, gets, removed, queue, save, failed, runtime, run,
                 runs, restarts, crossed>>

Created ==
  LET c == created.now IN
  /\ c # None
  /\ created' = [created EXCEPT !.now = None] /\ load' = [load EXCEPT !.stale = TRUE]
  /\ listed' = listed \cup {c}
  /\ runtime' = [runtime EXCEPT ![c] = Fresh(<<>>)]
  /\ crossed' = Overwritten(c) \cup ({c} \cap removed)
  /\ UNCHANGED <<deleting, gets, removed, storage, run, runs, restarts>>

Delete(c) ==
  /\ c \in listed /\ deleting[c] = "no"
  /\ deleting' = [deleting EXCEPT ![c] = "sent"] /\ load' = [load EXCEPT !.stale = TRUE]
  /\ Halt(c)
  /\ UNCHANGED <<listed, created, gets, removed, storage, runs, restarts, crossed>>

RowDeleted(c) ==
  /\ deleting[c] = "sent"
  /\ deleting' = [deleting EXCEPT ![c] = IF row[c] = None THEN "refused" ELSE "gone"]
  /\ row' = [row EXCEPT ![c] = None]
  /\ UNCHANGED <<load, listed, created, gets, removed, queue, save, failed, runtime, run,
                 runs, restarts, crossed>>

Deleted(c) ==
  /\ deleting[c] \in {"gone", "refused"}
  /\ deleting' = [deleting EXCEPT ![c] = "no"]
  /\ IF deleting[c] = "refused" THEN UNCHANGED <<listed, removed, runtime>>
     ELSE /\ listed' = listed \ {c} /\ removed' = removed \cup {c}
          /\ runtime' = [runtime EXCEPT ![c] = None]
  /\ UNCHANGED <<load, created, gets, storage, run, runs, restarts, crossed>>

Remaining(rows) == rows \ removed

(* loadSessions asks again, once, when sessions came or went meanwhile.    *)
LoadBegins ==
  /\ load.at = "no"
  /\ load' = [at |-> "first", rows |-> {}, stale |-> FALSE]
  /\ UNCHANGED <<listed, created, deleting, gets, removed, storage, runtime, run, runs,
                 restarts, crossed>>

LoadRead ==
  /\ load.at \in {"first", "second"}
  /\ load' = [load EXCEPT !.at = IF @ = "first" THEN "read" ELSE "reread",
                          !.rows = {c \in Chat : row[c] # None}]
  /\ UNCHANGED <<listed, created, deleting, gets, removed, storage, runtime, run, runs,
                 restarts, crossed>>

Loaded ==
  /\ load.at \in {"read", "reread"}
  /\ IF load.at = "read" /\ load.stale
     THEN load' = [load EXCEPT !.at = "second"] /\ UNCHANGED listed
     ELSE /\ load' = [at |-> "done", rows |-> {}, stale |-> FALSE]
          /\ listed' = Remaining(load.rows) \cup {c \in listed : deleting[c] = "no"}
  /\ UNCHANGED <<created, deleting, gets, removed, storage, runtime, run, runs, restarts,
                 crossed>>

(* The app ends and starts again: the rows are what is left.               *)
Restart ==
  /\ restarts < MaxRestarts /\ restarts' = restarts + 1
  /\ load' = [at |-> "no", rows |-> {}, stale |-> FALSE]
  /\ listed' = {} /\ created' = [created EXCEPT !.now = None]
  /\ runtime' = [c \in Chat |-> None]
  /\ deleting' = [c \in Chat |-> "no"] /\ gets' = [c \in Chat |-> <<>>]
  /\ run' = [r \in Run |-> Idle]
  /\ queue' = [c \in Chat |-> <<>>] /\ save' = [c \in Chat |-> None]
  /\ failed' = {} /\ crossed' = {} /\ removed' = {c \in removed : row[c] = None}
  /\ UNCHANGED <<row, runs>>

RunStep(r) ==
  \/ TitleSaved(r) \/ LimitsKnown(r) \/ Registered(r) \/ CancelArrives(r)
  \/ Answered(r) \/ Cut(r) \/ (\E again \in BOOLEAN : Refused(r, again))
  \/ Retried(r) \/ Prepared(r) \/ ReplySaved(r) \/ Call(r) \/ Decided(r)
  \/ Executed(r) \/ CallsDone(r) \/ StepSaved(r) \/ LimitSaved(r)

StoreStep(c) ==
  \/ SaveBegins(c) \/ RowWritten(c) \/ SaveEnds(c) \/ RowDeleted(c) \/ Deleted(c)
  \/ \E i \in 1 .. Len(gets[c]) : RowRead(c, i) \/ GotRow(c, i)

UserStep(c) ==
  \/ Stop(c) \/ Open(c) \/ New(c) \/ Delete(c)
  \/ \E auto \in BOOLEAN : Resume(c, auto) \/ \E images \in Images : Send(c, auto, images)

Next ==
  \/ \E r \in Run : RunStep(r) \/ \E yes \in BOOLEAN : Decide(r, yes)
  \/ \E c \in Chat : StoreStep(c) \/ UserStep(c)
  \/ Created \/ LoadBegins \/ LoadRead \/ Loaded \/ Restart

Spec == Init /\ [][Next]_vars

-----------------------------------------------------------------------------
(* Every variable has its type (the state of the store and of the runs).   *)
TypeOK ==
  /\ \A c \in Chat : row[c] = None \/ row[c] \in Seq(Message)
  /\ \A c \in Chat : runtime[c] = None \/ runtime[c] \in Runtime
  /\ listed \subseteq Chat /\ created.all \subseteq Chat /\ removed \subseteq Chat
  /\ \A c \in Chat : queue[c] \in Seq(Run \cup {0})
  /\ \A r \in Run : run[r].step \in 1 .. MaxSteps /\ run[r].attempt \in 0 .. MaxAttempts

(* The backend never refuses a request or a save for the shape of the chat *)
(* (validate_messages in commands/ai.rs): whatever was stopped, declined,  *)
(* interrupted by a restart or cut to the window, each call the model made *)
(* is answered exactly once before the next message.                       *)
HistoryIsAccepted ==
  /\ \A r \in Run : run[r].pc = "asking" /\ run[r].chat \notin crossed => run[r].req # "bad"
  /\ \A c \in Chat \ crossed : save[c] # None => WellFormed(save[c].body, TRUE)

(* An operation begins only when the user approved this very call, or when *)
(* the assistant is autonomous, the tool is not always manual and nothing  *)
(* untrusted is in the chat: the flag the run keeps (runner.ts             *)
(* untrustedContentSeen) never falls behind the history.                   *)
ApprovalRespected ==
  [][\A r \in DOMAIN run :
       LET k == Head(run[r].calls)
           T == runtime[run[r].chat]
       IN  run'[r].pc = "running" /\ run[r].pc # "running" /\ k \in Operation =>
             \/ run[r].ok \/ run[r].chat \in crossed
             \/ /\ run[r].auto /\ k \notin Manual
                /\ T # None => ~HasUntrusted(T.history)]_vars

(* Once the user stopped a run, none of its calls begins any more, unless  *)
(* its session is gone or its runtime was replaced meanwhile.              *)
NothingStartsAfterStop ==
  [][\A r \in DOMAIN run : run'[r].pc = "running" /\ run[r].pc # "running" =>
       ~run[r].told \/ run[r].chat \in crossed \/ runtime[run[r].chat] = None]_vars

(* The same of sessions that were deleted: deleteSession stops their run,  *)
(* and runner.test.ts says a stopped run does not execute.                 *)
DeletedRunStops ==
  [][\A r \in DOMAIN run : run'[r].pc = "running" /\ run[r].pc # "running" =>
       ~run[r].told \/ run[r].chat \in crossed]_vars

(* A session says it is pending just while one run works on it: no prompt  *)
(* is refused for ever and no two runs write to one history.               *)
PendingIsOneRun ==
  \A c \in Chat \ crossed : runtime[c] # None =>
    Cardinality(LiveRuns(c)) = (IF runtime[c].pending THEN 1 ELSE 0)

(* When a session is at rest its row holds the chat on the screen (up to   *)
(* the results repairHistory adds), so a restart loses nothing.            *)
QuietIsSaved ==
  \A c \in Chat \ (crossed \cup failed) :
    runtime[c] # None /\ LiveRuns(c) = {} /\ queue[c] = <<>> /\ deleting[c] = "no" =>
      row[c] # None /\ runtime[c].history = RepairHistory(row[c])

(* A deleted session comes back neither to the list nor as a runtime,      *)
(* whatever listing or row was being read when it was deleted.             *)
DeletedStaysDeleted == \A c \in removed \ crossed : c \notin listed /\ runtime[c] = None

(* The page and the rows of ai_sessions agree on what there is.            *)
RowsAgree == QuietIsSaved /\ DeletedStaysDeleted

=============================================================================
