---------------------------- MODULE ChatRequests ----------------------------
(***************************************************************************)
(* One step of the assistant, which AiRunner takes for one request: the    *)
(* attempts of requestStep (features/ai/runner.ts), the command ai_chat    *)
(* and its registry of requests that can be cancelled (commands/ai.rs),    *)
(* the reply as the provider streams it, the accumulators that put it      *)
(* together (ai/mod.rs, ai/anthropic.rs, ai/openai.rs), and the deltas on  *)
(* their way to the page, which the answer may overtake (lib/ipc.ts).      *)
(*                                                                         *)
(* A reply is a sequence of blocks, a block so many pieces after its       *)
(* start; what a piece says is left out, and so is what the request holds. *)
(* The user presses stop once; the page is loaded again at most once.      *)
(***************************************************************************)
EXTENDS Integers, Sequences, FiniteSets, SequencesExt

CONSTANTS
  None,
  Replies,      \* [protocol, blocks]: what providers may say
  MaxRetries,   \* RETRY_DELAYS_MS
  MaxShrinks    \* MAX_CONTEXT_SHRINKS

(* A block is text, or a call of a tool; a call may come without its id or *)
(* without its name.                                                       *)
Block == [kind : {"text", "call"}, pieces : Nat, lacks : {"nothing", "id", "name"}]

ChatRequestsAssumption ==
  /\ \A r \in Replies :
       /\ r.protocol \in {"anthropic", "openai"} /\ r.blocks \in Seq(Block)
       \* the text of choices[0].delta.content is one block, before the calls
       /\ r.protocol = "openai" =>
            \A i \in DOMAIN r.blocks : r.blocks[i].kind = "text" => i = 1
  /\ MaxRetries \in Nat /\ MaxShrinks \in Nat
  /\ None \notin [text : Seq(Nat \X Nat \X Nat), calls : Seq(Nat \X Nat)]

VARIABLES
  reply,               \* what the provider says to this request
  pc,                  \* the page: "called", "waiting", "ended" or "gone"
  stopRequested,
  retries, shrinks,    \* of requestStep: networkAttempt and contextShrinks
  shown,               \* the pieces that the item of the step shows
  kept,                \* what the step gives its run: [text, calls], or None
  call,                \* ai_chat: "sent", "open", or its result on the way
  got,                 \* got[i]: what the accumulator has of block i, its start as 1
  entry, signalled,    \* ai_cancels has the request; its sender was used or dropped
  cancel,              \* how far the cancellation of the page is
  channel, buffer,     \* by attempt: deltas on their way, and those held for 16 ms
  cut                  \* history: the stream the answer was made of ended too early

page == <<pc, stopRequested, retries, shrinks, shown, kept>>
registry == <<entry, signalled, cancel>>
deltas == <<channel, buffer>>
vars == <<reply, page, call, got, registry, deltas, cut>>

Attempt == 1 + retries + shrinks
AttemptIds == 1 .. (1 + MaxRetries + MaxShrinks)
Blocks == DOMAIN reply.blocks
Whole(i) == 1 + reply.blocks[i].pieces
Nothing == [i \in Blocks |-> 0]

(* Pairs of numbers in their order.                                        *)
Upto(S, x) == {y \in S : y[1] < x[1] \/ (y[1] = x[1] /\ y[2] <= x[2])}
InOrder(S) == [n \in 1 .. Cardinality(S) |-> CHOOSE x \in S : Cardinality(Upto(S, x)) = n]

(* The pieces of text among what was received: block after block, and each *)
(* from its first piece on.                                                *)
Pieces(have) ==
  UNION {{<<i, k>> : k \in 1 .. (have[i] - 1)}
         : i \in {j \in Blocks : reply.blocks[j].kind = "text"}}
TextOf(a, have) ==
  LET pieces == InOrder(Pieces(have)) IN
  [n \in DOMAIN pieces |-> <<a, pieces[n][1], pieces[n][2]>>]
AllText(a) == TextOf(a, [i \in Blocks |-> Whole(i)])

Init ==
  /\ reply \in Replies
  /\ pc = "called" /\ stopRequested = FALSE /\ retries = 0 /\ shrinks = 0
  /\ shown = <<>> /\ kept = None
  /\ call = "sent" /\ got = Nothing
  /\ entry = FALSE /\ signalled = FALSE /\ cancel = "no"
  /\ channel = [a \in AttemptIds |-> <<>>] /\ buffer = [a \in AttemptIds |-> <<>>]
  /\ cut = FALSE

-----------------------------------------------------------------------------
(* The command.                                                            *)

(* ai_chat looks up its endpoint, registers the request and sends it; what *)
(* is wrong with its input or the settings ends it before.                 *)
Begin ==
  /\ call = "sent"
  /\ \/ call' = "open" /\ entry' = TRUE /\ signalled' = FALSE
     \/ call' = "other" /\ UNCHANGED <<entry, signalled>>
  /\ got' = Nothing
  /\ UNCHANGED <<reply, page, cancel, deltas, cut>>

(* The select ends: the result is on its way, the request unregistered.    *)
Results(result) == call' = result /\ entry' = FALSE /\ UNCHANGED <<signalled, cancel>>

(* Blocks come one after another from Anthropic; from OpenAI the calls may *)
(* go on side by side once they were begun.                                *)
Follows(i) ==
  \A j \in 1 .. (i - 1) :
    IF reply.protocol = "anthropic" THEN got[j] = Whole(j) ELSE got[j] > 0

(* chat reads the next event, and feed puts it to its block; a piece of    *)
(* text goes to the page.                                                  *)
Feed(i) ==
  /\ call = "open" /\ i \in Blocks /\ got[i] < Whole(i) /\ Follows(i)
  /\ got' = [got EXCEPT ![i] = @ + 1]
  /\ channel' =
       IF reply.blocks[i].kind = "text" /\ got[i] > 0 /\ pc # "gone"
         THEN [channel EXCEPT ![Attempt] = Append(@, <<Attempt, i, got[i]>>)]
         ELSE channel
  /\ UNCHANGED <<reply, page, call, registry, buffer, cut>>

(* finish: a call without a name is passed over; one without an id, or     *)
(* with only a part of its arguments, which then are no JSON, spoils the   *)
(* reply; one that has none of them gets {}.                               *)
Named == {i \in Blocks : reply.blocks[i].kind = "call" /\ reply.blocks[i].lacks # "name"
                         /\ got[i] > 0}
Spoilt(i) == reply.blocks[i].lacks = "id" \/ got[i] \notin {1, Whole(i)}
Finished ==
  IF (\E i \in Named : Spoilt(i)) \/ (Named = {} /\ TextOf(Attempt, got) = <<>>)
    THEN "other" ELSE "answer"

(* The stream ends.  Nothing tells an end from a connection that was       *)
(* closed in order or a reply that ran into max_tokens.                    *)
End ==
  /\ call = "open"
  /\ Results(Finished)
  /\ cut' = (Finished = "answer" /\ \E i \in Blocks : got[i] < Whole(i))
  /\ UNCHANGED <<reply, page, got, deltas>>

(* The provider refuses the request before it says anything, as too long   *)
(* or for another reason; it cannot be reached, is overloaded or its       *)
(* stream is interrupted; it reports an error, says too much or is late.   *)
Fail ==
  /\ call = "open"
  /\ \/ got = Nothing /\ Results("context_length")
     \/ Results("network")
     \/ Results("other")
  /\ UNCHANGED <<reply, page, got, deltas, cut>>

Cancelled ==
  /\ call = "open" /\ signalled
  /\ Results("cancelled")
  /\ UNCHANGED <<reply, page, got, deltas, cut>>

(* ai_chat_cancel: a cancellation that comes before its request is lost.   *)
CancelArrives ==
  /\ cancel \in {"sent", "again"}
  /\ entry' = FALSE /\ signalled' = (signalled \/ entry)
  /\ cancel' = IF cancel = "sent" THEN "timer" ELSE "done"
  /\ UNCHANGED <<reply, page, call, got, deltas, cut>>

-----------------------------------------------------------------------------
(* The page.                                                               *)

(* onDelta of requestStep: a delta counts while its own request is awaited *)
(* and nobody wants to stop it.                                            *)
Counts(a) == a = Attempt /\ pc = "called" /\ ~stopRequested
Flushed(a) == IF Counts(a) THEN shown \o buffer[a] ELSE shown

Delta(a) ==
  /\ pc # "gone" /\ channel[a] # <<>>
  /\ buffer' = [buffer EXCEPT ![a] = Append(@, Head(channel[a]))]
  /\ channel' = [channel EXCEPT ![a] = Tail(@)]
  /\ UNCHANGED <<reply, page, call, got, registry, cut>>

Flush(a) ==
  /\ buffer[a] # <<>>
  /\ shown' = Flushed(a)
  /\ buffer' = [buffer EXCEPT ![a] = <<>>]
  /\ UNCHANGED <<reply, pc, stopRequested, retries, shrinks, kept, call, got, registry,
                 channel, cut>>

(* salvagePartial: what is shown of a reply that broke off is kept.        *)
Salvaged(item) == IF item = <<>> THEN None ELSE [text |-> item, calls |-> <<>>]
Answer == [text |-> TextOf(Attempt, got),
           calls |-> InOrder({<<i, got[i] - 1>> : i \in Named})]

Ends(item, what) ==
  /\ pc' = "ended" /\ shown' = item /\ kept' = what
  /\ UNCHANGED <<retries, shrinks, call, got>>
Repeats(at) ==
  /\ pc' = at /\ shown' = <<>> /\ UNCHANGED kept
  /\ call' = (IF at = "called" THEN "sent" ELSE "none")
  /\ got' = Nothing

(* The command answers; the deltas that are held are flushed first.  What  *)
(* was shown of an attempt that is repeated is removed.                    *)
Answered ==
  /\ pc = "called" /\ call \notin {"sent", "open"}
  /\ LET item == Flushed(Attempt) IN
       IF call = "answer" /\ ~stopRequested THEN Ends(Answer.text, Answer)
       ELSE IF call = "context_length" /\ shrinks < MaxShrinks /\ ~stopRequested
         THEN Repeats("called") /\ shrinks' = shrinks + 1 /\ UNCHANGED retries
       ELSE IF call = "network" /\ retries < MaxRetries /\ ~stopRequested
         THEN Repeats("waiting") /\ retries' = retries + 1 /\ UNCHANGED shrinks
       ELSE Ends(item, Salvaged(item))
  /\ buffer' = [buffer EXCEPT ![Attempt] = <<>>]
  /\ UNCHANGED <<reply, stopRequested, registry, channel, cut>>

(* waitForRetry has waited long enough, or sees the stop.                  *)
Retry ==
  /\ pc = "waiting"
  /\ IF stopRequested THEN pc' = "ended" /\ UNCHANGED call
     ELSE pc' = "called" /\ call' = "sent"
  /\ UNCHANGED <<reply, stopRequested, retries, shrinks, shown, kept, got, registry,
                 deltas, cut>>

(* stop of the store: asks the backend to cancel, and a while after its    *)
(* answer once more, if the same request still goes on.                    *)
Stop ==
  /\ pc \in {"called", "waiting"} /\ ~stopRequested
  /\ stopRequested' = TRUE
  /\ cancel' = IF pc = "called" THEN "sent" ELSE cancel
  /\ UNCHANGED <<reply, pc, retries, shrinks, shown, kept, call, got, entry, signalled,
                 deltas, cut>>

StopAgain ==
  /\ cancel = "timer"
  /\ cancel' = IF pc = "called" THEN "again" ELSE "done"
  /\ UNCHANGED <<reply, page, call, got, entry, signalled, deltas, cut>>

(* The page is loaded again: its requests lose their senders, which ends   *)
(* them like a cancellation.                                               *)
PageLoad ==
  /\ pc # "gone"
  /\ pc' = "gone" /\ shown' = <<>> /\ kept' = None
  /\ entry' = FALSE /\ signalled' = (signalled \/ entry)
  /\ cancel' = IF cancel = "timer" THEN "done" ELSE cancel
  /\ channel' = [a \in AttemptIds |-> <<>>] /\ buffer' = [a \in AttemptIds |-> <<>>]
  /\ UNCHANGED <<reply, stopRequested, retries, shrinks, call, got, cut>>

Next ==
  \/ Begin \/ End \/ Fail \/ Cancelled \/ CancelArrives
  \/ \E i \in Blocks : Feed(i)
  \/ \E a \in AttemptIds : Delta(a) \/ Flush(a)
  \/ Answered \/ Retry \/ Stop \/ StopAgain \/ PageLoad

Spec == Init /\ [][Next]_vars

-----------------------------------------------------------------------------
(* Properties.                                                             *)

(* Every variable has its type.                                            *)
TypeOK ==
  /\ reply \in Replies /\ pc \in {"called", "waiting", "ended", "gone"}
  /\ {stopRequested, entry, signalled, cut} \subseteq BOOLEAN
  /\ retries \in 0 .. MaxRetries /\ shrinks \in 0 .. MaxShrinks
  /\ call \in {"none", "sent", "open", "answer", "context_length", "network", "other",
               "cancelled"}
  /\ \A i \in Blocks : got[i] \in 0 .. Whole(i)
  /\ cancel \in {"no", "sent", "timer", "again", "done"}
  /\ DOMAIN channel = AttemptIds /\ DOMAIN buffer = AttemptIds

(* The item shows the beginning of what one attempt says, the one that is  *)
(* awaited, without a gap, whatever is late, lost or repeated.             *)
ShownInOrder == IsPrefix(shown, AllText(Attempt))

(* What is kept of a step is what the page shows of it, down to the last   *)
(* piece; a call that is kept has all its arguments or, only if the        *)
(* stream broke off, none; nothing is missing of a reply that was taken    *)
(* for an answer, except the calls without a name, unless its stream was   *)
(* cut off in order.                                                       *)
KeptAsShown ==
  pc = "ended" =>
    IF kept = None THEN shown = <<>>
    ELSE /\ kept.text = shown
         /\ \A c \in Range(kept.calls) :
              c[2] = reply.blocks[c[1]].pieces \/ (c[2] = 0 /\ cut)
         /\ call = "answer" /\ ~stopRequested /\ ~cut =>
              /\ shown = AllText(Attempt)
              /\ {c[1] : c \in Range(kept.calls)} =
                   {i \in Blocks : reply.blocks[i].kind = "call"
                                   /\ reply.blocks[i].lacks # "name"}

(* A request that runs can be cancelled or has been, and one that has      *)
(* ended is not in the registry.                                           *)
RunningIsRegistered ==
  /\ call = "open" => entry \/ signalled
  /\ entry => call = "open"
=============================================================================
