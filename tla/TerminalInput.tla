---------------------------- MODULE TerminalInput ---------------------------
(***************************************************************************)
(* The page's end of one terminal session: TerminalSession                 *)
(* (terminal/session.ts) with its queue of input, its watchdog over the    *)
(* connection and the transport below it (terminal/transport.ts).          *)
(*                                                                         *)
(* An input is one byte that is told apart from all others.  The backend   *)
(* is what the page sees of it: it answers connect, takes or refuses input *)
(* and sends its statuses in order.                                        *)
(***************************************************************************)
EXTENDS Integers, SequencesExt

CONSTANTS
  Limit,       \* MAX_PENDING_INPUT_BYTES
  MaxInputs,   \* bound: bytes that are typed or sent as commands
  MaxPrompts   \* bound: how often a prompt of the session opens

TerminalInputAssumption == {Limit, MaxInputs, MaxPrompts} \subseteq Nat

VARIABLES
  status,      \* what the pane was told last: "new", "connecting", "connected", "ended"
  ended, disposed, inputReady, connectSettled, disconnectRequested,
  pendingInput,       \* accepted and not sent
  pendingInputBytes,  \* accepted and not acknowledged
  sending,     \* the input of the pending send call, <<>> without a call
  handled,     \* what became of that call: "no", "taken", "refused"
  flushTimer,  \* inputFlushTimer is set
  watchdog,    \* the connect timer is set
  connect,     \* the connect call: "none", "asked", "accepted", "failed"
  remote,      \* the backend's session: "none", "connecting", "open", "over"
  channel,     \* statuses on their way to the page
  prompt,      \* a host-key or password prompt of the session is open
  prompts,
  accepted,    \* history: every input the session has taken
  received     \* history: every input the backend has taken

vars == <<status, ended, disposed, inputReady, connectSettled,
          disconnectRequested, pendingInput, pendingInputBytes, sending, handled,
          flushTimer, watchdog, connect, remote, channel, prompt, prompts,
          accepted, received>>

flags == <<status, ended, disposed, inputReady, connectSettled, disconnectRequested>>
queue == <<pendingInput, pendingInputBytes, sending, handled, flushTimer>>
backend == <<remote, received>>
asking == <<prompt, prompts>>

Alive == ~disposed /\ ~ended

Init ==
  /\ status = "new"
  /\ ended = FALSE /\ disposed = FALSE /\ disconnectRequested = FALSE
  /\ inputReady = FALSE /\ connectSettled = FALSE
  /\ pendingInput = <<>> /\ pendingInputBytes = 0
  /\ sending = <<>> /\ handled = "no"
  /\ flushTimer = FALSE /\ watchdog = FALSE
  /\ connect = "none" /\ remote = "none" /\ channel = <<>>
  /\ prompt = FALSE /\ prompts = 0
  /\ accepted = <<>> /\ received = <<>>

-----------------------------------------------------------------------------
(* Input *)

\* flushInput with the given queue: the whole of it goes into one call, if no
\* other call is under way.
Flush(input, ready, busy) ==
  /\ flushTimer' = FALSE
  /\ IF ready /\ ~busy /\ input # <<>>
     THEN pendingInput' = <<>> /\ sending' = input
     ELSE pendingInput' = input /\ sending' = IF busy THEN sending ELSE <<>>

\* disconnectTransport: the handlers are gone and what is on its way is lost.
Disconnect ==
  /\ disconnectRequested' = TRUE
  /\ channel' = IF disconnectRequested THEN channel ELSE <<>>

\* failInput
FailInput ==
  /\ ended' = TRUE
  /\ inputReady' = FALSE
  /\ pendingInput' = <<>> /\ pendingInputBytes' = 0
  /\ flushTimer' = FALSE
  /\ status' = "ended"
  /\ Disconnect
  /\ UNCHANGED <<disposed, connectSettled>>

\* enqueue.  What is typed waits for the timer, a command goes at once.
Enqueue(batch) ==
  /\ Alive
  /\ Len(accepted) < MaxInputs
  /\ LET input == Append(pendingInput, Len(accepted) + 1)
     IN  IF pendingInputBytes + 1 > Limit
         THEN FailInput /\ UNCHANGED <<accepted, sending>>
         ELSE /\ accepted' = Append(accepted, Len(accepted) + 1)
              /\ pendingInputBytes' = pendingInputBytes + 1
              /\ \/ batch /\ pendingInput' = input /\ flushTimer' = TRUE
                    /\ UNCHANGED sending
                 \/ ~batch /\ Flush(input, inputReady, sending # <<>>)
              /\ UNCHANGED <<flags, channel>>
  /\ UNCHANGED <<handled, watchdog, connect, backend, asking>>

FlushTimer ==
  /\ flushTimer
  /\ Flush(pendingInput, inputReady /\ Alive, sending # <<>>)
  /\ UNCHANGED <<flags, pendingInputBytes, handled, watchdog, connect, channel,
                 backend, asking, accepted>>

\* The backend handles the send call.
Deliver ==
  /\ sending # <<>> /\ handled = "no"
  /\ \/ remote = "open" /\ handled' = "taken" /\ received' = received \o sending
     \/ handled' = "refused" /\ UNCHANGED received
  /\ UNCHANGED <<flags, pendingInput, pendingInputBytes, sending, flushTimer,
                 watchdog, connect, remote, channel, asking, accepted>>

\* Mutant: the queue is not looked at again after a call.
LeftBehind(input) == pendingInput' = input /\ sending' = <<>> /\ UNCHANGED flushTimer

\* finally: the call is over, and what has been typed meanwhile follows.
Continue(input) == Flush(input, inputReady /\ Alive, FALSE)

Sent ==
  /\ handled = "taken"
  /\ handled' = "no"
  /\ pendingInputBytes' =
       IF pendingInputBytes > Len(sending) THEN pendingInputBytes - Len(sending) ELSE 0
  /\ Continue(pendingInput)
  /\ UNCHANGED <<flags, watchdog, connect, channel, backend, asking, accepted>>

SendFails ==
  /\ handled = "refused"
  /\ handled' = "no"
  /\ sending' = <<>>
  /\ \/ Alive /\ FailInput
     \/ ~Alive /\ flushTimer' = FALSE
        /\ UNCHANGED <<flags, pendingInput, pendingInputBytes, channel>>
  /\ UNCHANGED <<watchdog, connect, backend, asking, accepted>>

-----------------------------------------------------------------------------
(* The connection *)

\* start.  open and start look at disposed alone: also a session whose input
\* has failed is connected when its pane is first shown.
Start ==
  /\ connect = "none" /\ ~disposed
  /\ status' = "connecting"
  /\ watchdog' = ~prompt
  /\ connect' = "asked"
  /\ UNCHANGED <<ended, disposed, inputReady, connectSettled, disconnectRequested,
                 queue, backend, channel, asking, accepted>>

\* The backend reserves the session and begins to connect.
ConnectAccepted ==
  /\ connect = "asked"
  /\ connect' = "accepted"
  /\ remote' = "connecting"
  /\ UNCHANGED <<flags, queue, watchdog, channel, asking, accepted, received>>

ConnectFails ==
  /\ connect = "asked"
  /\ connect' = "failed"
  /\ connectSettled' = TRUE /\ watchdog' = FALSE
  /\ ended' = TRUE
  /\ pendingInput' = <<>> /\ pendingInputBytes' = 0
  /\ status' = IF disposed THEN status ELSE "ended"
  /\ UNCHANGED <<disposed, inputReady, disconnectRequested, sending, handled,
                 flushTimer, backend, channel, asking, accepted>>

\* The backend's session opens or ends and says so, to nobody once the page
\* has disconnected.
RemoteChanges ==
  /\ \/ remote = "connecting" /\ remote' = "open"
     \/ remote \in {"connecting", "open"} /\ remote' = "over"
  /\ channel' = IF disconnectRequested THEN channel ELSE Append(channel, remote')
  /\ UNCHANGED <<flags, queue, watchdog, connect, asking, accepted, received>>

\* handleStatus
HearStatus ==
  /\ channel # <<>>
  /\ channel' = Tail(channel)
  /\ \/ /\ ~Alive
        /\ UNCHANGED <<flags, queue, watchdog>>
     \/ /\ Alive /\ Head(channel) = "open"
        /\ connectSettled' = TRUE /\ watchdog' = FALSE
        /\ inputReady' = TRUE
        /\ Flush(pendingInput, TRUE, sending # <<>>)
        /\ status' = "connected"
        /\ UNCHANGED <<ended, disposed, disconnectRequested, pendingInputBytes, handled>>
     \/ /\ Alive /\ Head(channel) = "over"
        /\ connectSettled' = TRUE /\ watchdog' = FALSE
        /\ ended' = TRUE /\ inputReady' = FALSE
        /\ pendingInput' = <<>> /\ pendingInputBytes' = 0
        /\ status' = "ended"
        /\ UNCHANGED <<disposed, disconnectRequested, sending, handled, flushTimer>>
  /\ UNCHANGED <<connect, backend, asking, accepted>>

\* The connect timer runs out.
Timeout ==
  /\ watchdog
  /\ watchdog' = FALSE
  /\ \/ /\ disposed \/ connectSettled
        /\ UNCHANGED <<flags, pendingInput, pendingInputBytes, channel>>
     \/ /\ ~disposed /\ ~connectSettled
        /\ ended' = TRUE
        /\ pendingInput' = <<>> /\ pendingInputBytes' = 0
        /\ status' = "ended"
        /\ Disconnect
        /\ UNCHANGED <<disposed, inputReady, connectSettled>>
  /\ UNCHANGED <<sending, handled, flushTimer, connect, backend, asking, accepted>>

\* watchConnectionPrompts: the user has all the time to answer, and the timer
\* starts anew once he has.
Watching(open) == ~open

PromptChanges ==
  /\ prompts < MaxPrompts \/ prompt
  /\ prompt' = ~prompt
  /\ prompts' = IF prompt THEN prompts ELSE prompts + 1
  /\ watchdog' = IF connect = "none" \/ ~Alive \/ connectSettled
                 THEN watchdog ELSE Watching(prompt')
  /\ UNCHANGED <<flags, queue, connect, backend, channel, accepted>>

Dispose ==
  /\ ~disposed
  /\ disposed' = TRUE
  /\ pendingInput' = <<>> /\ pendingInputBytes' = 0
  /\ flushTimer' = FALSE /\ watchdog' = FALSE
  /\ Disconnect
  /\ UNCHANGED <<status, ended, inputReady, connectSettled, sending, handled,
                 connect, backend, asking, accepted>>

Next ==
  \/ \E batch \in BOOLEAN : Enqueue(batch)
  \/ FlushTimer \/ Deliver \/ Sent \/ SendFails
  \/ Start \/ ConnectAccepted \/ ConnectFails \/ RemoteChanges \/ HearStatus
  \/ Timeout \/ PromptChanges \/ Dispose

Spec == Init /\ [][Next]_vars

-----------------------------------------------------------------------------
(* Properties *)

\* The variables have the values the code gives them.
TypeOK ==
  /\ status \in {"new", "connecting", "connected", "ended"}
  /\ {ended, disposed, inputReady, connectSettled, disconnectRequested,
      flushTimer, watchdog, prompt} \subseteq BOOLEAN
  /\ pendingInputBytes \in 0..Limit
  /\ handled \in {"no", "taken", "refused"}
  /\ connect \in {"none", "asked", "accepted", "failed"}
  /\ remote \in {"none", "connecting", "open", "over"}
  /\ prompts \in 0..MaxPrompts

Undelivered == IF handled = "taken" THEN <<>> ELSE sending

\* What the user types reaches the host in order, once and without gaps: all of
\* it is at the host, in the one call under way or in the queue; what waits has
\* a timer or a call that will take it along; and the queue counts what it
\* holds, so that it is not full before its time (enqueue, flushInput).
InputArrives ==
  /\ IsPrefix(received, accepted)
  /\ Alive =>
       /\ accepted = received \o Undelivered \o pendingInput
       /\ inputReady /\ pendingInput # <<>> => flushTimer \/ sending # <<>>
       /\ pendingInputBytes = Len(pendingInput) + Len(sending)

\* A session is never left connecting for ever: its timer runs or the user is
\* being asked something, until the connection is settled (armWatchdog,
\* watchConnectionPrompts).
ConnectingIsWatched ==
  status = "connecting" /\ Alive /\ ~connectSettled => watchdog \/ prompt

\* A session takes its input along and is not left connecting.
SessionServes == InputArrives /\ ConnectingIsWatched
=============================================================================
