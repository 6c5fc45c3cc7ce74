--------------------------- MODULE RecordEditing ---------------------------
(***************************************************************************)
(* One record of the vault as the window edits it: a host, group,          *)
(* identity, key, forward, proxy, snippet, task or bookmark.  It is shown  *)
(* from the window's cached copies (features/*/api.ts, lib/query.ts), and  *)
(* changed by its dialog, by dragging it to another group, by the          *)
(* assistant's tools (features/ai/tools), by a system that was detected,   *)
(* and by another device, whose sync makes every copy be read again.       *)
(*                                                                         *)
(* A record has a text (its label, address, command, ...), a place (its    *)
(* group, host or key), a hint (a host's system), whether it logs in with  *)
(* a password, a secret with a key's passphrase, and a revision that every *)
(* write moves.  Values are numbers of the edits they came from; 0 is what *)
(* was there first, and Blank an empty field.  Reads of the vault do not   *)
(* fail, and the list is shown as long as the window is.                   *)
(***************************************************************************)
EXTENDS Integers, TLC

CONSTANTS
  None, Blank,
  RecordKind,     \* the kinds to look at
  Beside,         \* bound: who may act beside the dialog in one behavior: a set of sets
  Given,          \* bound: what the tools may change
  MaxTyped,       \* bound: edits in dialogs
  MaxOthers,      \* bound: changes by others
  MaxForms        \* bound: times the dialog is opened

Kinds == {"host", "group", "identity", "key", "forward", "proxy", "snippet", "task", "bookmark"}

RecordAssumption ==
  /\ RecordKind \subseteq Kinds /\ RecordKind # {}
  /\ Beside \subseteq SUBSET {"drag", "system", "tool", "removal", "sync"} /\ Beside # {}
  /\ Given \subseteq {"text", "place", "secret"}
  /\ MaxTyped \in Nat /\ MaxOthers \in Nat /\ MaxForms \in Nat /\ Blank \notin Nat /\ None \notin Nat

VARIABLES
  kind,
  beside,     \* who acts beside the dialog
  record,     \* the row in the vault, or None once deleted
  shownList,  \* the cached list's copy of it: [data, invalid, fetch,
              \*   copy], where what was fetched is the copy
  shownHost,  \* the cached host (hostKeys.detail), likewise
  dialog,     \* the dialog, or None
  saved,      \* a dialog's save: None, or [input, copy, at, closes]
  drag,       \* a move by dragging: None, or [place, copy, list, host, at]
  osHint,     \* how far a detected system is: "unknown", "seen", "sent" or "written"
  hinted,     \* the row as it was then written
  assistant,  \* a call of a tool: None, or [given, copy, value, at]
  news,       \* a sync applied a change that the window was not told of yet
  typed, changes, forms,
  mine,       \* history: the revision of the last save whose dialog has gone
  overtaken   \* history: a copy was put into a cache after a later one was, or was read
              \*   by a first load that a change could not start again

vars == <<kind, beside, record, shownList, shownHost, dialog, saved, drag, osHint, hinted, assistant, news,
          typed, changes, forms, mine, overtaken>>
hints == <<osHint, hinted>>
values == <<typed, changes>>
caches == <<shownList, shownHost>>
others == <<kind, beside, forms, mine>>

Secretive == {"host", "identity", "key", "proxy"}
LogsIn == {"host", "identity"}

First == [text |-> 0, place |-> 0, hint |-> FALSE, login |-> TRUE,
          secret |-> 0, phrase |-> 0, rev |-> 0]
Loaded == [data |-> First, invalid |-> FALSE, fetch |-> "idle", copy |-> None]
Unread == [Loaded EXCEPT !.data = None]

Init ==
  /\ kind \in RecordKind /\ beside \in Beside
  /\ record = [First EXCEPT !.login = kind \in LogsIn]
  /\ shownList = [Loaded EXCEPT !.data = record] /\ shownHost = Unread
  /\ dialog = None /\ saved = None /\ drag = None /\ osHint = "unknown" /\ hinted = None /\ assistant = None
  /\ news = FALSE /\ typed = 0 /\ changes = 0 /\ forms = 0 /\ mine = 0 /\ overtaken = FALSE

-----------------------------------------------------------------------------
(* The cached copies.                                                      *)

Idle(cache) == cache.fetch = "idle"
Observed == kind = "host" /\ dialog # None

\* Fault: what is being read already is not read again (cancelRefetch: false).
InvalidatedOnce(cache, observed) ==
  IF ~observed \/ ~Idle(cache) THEN [cache EXCEPT !.invalid = TRUE]
  ELSE [cache EXCEPT !.invalid = TRUE, !.fetch = "asked", !.copy = None]

(* invalidateQueries: a copy that is shown is read again at once, a fetch  *)
(* under way is started again unless it is the first; one that is not      *)
(* shown is read when it is shown next.                                    *)
Invalidated(cache, observed) ==
  IF ~observed THEN [cache EXCEPT !.invalid = TRUE]
  ELSE IF cache.data = None /\ ~Idle(cache) THEN cache
  ELSE [cache EXCEPT !.invalid = TRUE, !.fetch = "asked", !.copy = None]
Missed(cache, observed) == ~Idle(cache) /\ (~observed \/ cache.data = None)

(* What a query does when it comes to be shown: it is read unless it is    *)
(* fresh, which it stops to be after staleTime.                            *)
Mounted(cache) ==
  IF ~Idle(cache) THEN {cache}
  ELSE {[cache EXCEPT !.fetch = "asked"]}
       \cup IF cache.data = None \/ cache.invalid THEN {} ELSE {cache}

Put(cache, data) == [cache EXCEPT !.data = data, !.invalid = FALSE]
Cancelled(cache) == [cache EXCEPT !.fetch = "idle", !.copy = None]
Answered(cache) == Cancelled(Put(cache, cache.copy))

InvalidateHost ==
  /\ shownList' = Invalidated(shownList, TRUE)
  /\ shownHost' = Invalidated(shownHost, Observed)
  /\ overtaken' = (overtaken \/ Missed(shownList, TRUE) \/ Missed(shownHost, Observed))
InvalidateList ==
  /\ shownList' = Invalidated(shownList, TRUE) /\ UNCHANGED shownHost
  /\ overtaken' = (overtaken \/ Missed(shownList, TRUE))

(* The dialogs of hosts and groups are filled again when the copy they     *)
(* show becomes another, all others keep what they were opened with.       *)
Filled(d, data) ==
  IF d = None \/ data = d.copy THEN d
  ELSE [d EXCEPT !.copy = data, !.text = data.text, !.place = data.place, !.login = data.login,
                 !.secret = Blank, !.edited = FALSE, !.touched = {}, !.identity = FALSE]
FollowHost(data) ==
  dialog' = IF kind = "host" /\ data # None THEN Filled(dialog, data) ELSE dialog
FollowList(data) ==
  dialog' = IF kind = "group" /\ data # None THEN Filled(dialog, data) ELSE dialog

Read ==
  /\ \/ shownList.fetch = "asked" /\ shownList' = [shownList EXCEPT !.fetch = "read", !.copy = record]
        /\ UNCHANGED shownHost
     \/ shownHost.fetch = "asked" /\ shownHost' = [shownHost EXCEPT !.fetch = "read", !.copy = record]
        /\ UNCHANGED shownList
  /\ UNCHANGED <<others, record, dialog, saved, drag, hints, assistant, news, values, overtaken>>

ListAnswer ==
  /\ shownList.fetch = "read" /\ shownList' = Answered(shownList) /\ FollowList(shownList.copy)
  /\ UNCHANGED <<others, record, shownHost, saved, drag, hints, assistant, news, values,
                 overtaken>>

(* A host that is gone leaves the copy as it was, and the dialog shows     *)
(* that it could not be loaded.                                            *)
HostAnswer ==
  /\ shownHost.fetch = "read"
  /\ IF shownHost.copy = None
       THEN /\ shownHost' = Cancelled(shownHost)
            /\ dialog' = IF dialog = None THEN None ELSE [dialog EXCEPT !.failed = TRUE]
       ELSE shownHost' = Answered(shownHost) /\ FollowHost(shownHost.copy)
  /\ UNCHANGED <<others, record, shownList, saved, drag, hints, assistant, news, values,
                 overtaken>>

-----------------------------------------------------------------------------
(* Writes.  What an input does not give is kept.                           *)

Nothing == [f \in {} |-> Blank]

(* update of the repositories: an empty secret clears the one that is      *)
(* saved, and a host or identity that does not log in with a password has  *)
(* none.                                                                   *)
Written(old, input) ==
  LET new == input @@ old IN
    [new EXCEPT !.secret = IF kind \in LogsIn /\ ~new.login THEN Blank ELSE @,
                !.rev = old.rev + 1]

Fresh == typed + changes + 1
NewChange == changes < MaxOthers /\ changes' = changes + 1 /\ UNCHANGED typed

-----------------------------------------------------------------------------
(* The dialogs.  What is refused (an empty name, a port out of range)      *)
(* changes nothing and is left out.                                        *)

Opened(copy) ==
  [copy |-> copy, text |-> copy.text, place |-> copy.place, login |-> copy.login,
   secret |-> Blank, edited |-> FALSE, phrase |-> Blank, phraseEdited |-> FALSE,
   identity |-> FALSE, touched |-> {}, reveal |-> "no", failed |-> FALSE, asks |-> None]
Loading == [Opened(First) EXCEPT !.copy = None]
Ready == dialog # None /\ dialog.copy # None /\ ~dialog.failed /\ dialog.asks = None
Held == drag # None /\ drag.at = "held"
Form == forms < MaxForms /\ forms' = forms + 1 /\ dialog = None /\ ~Held

(* HostFormBody: hostKeys.detail is loaded, or shown as it is cached and   *)
(* read again if it is not fresh.                                          *)
OpenHostForm ==
  /\ kind = "host" /\ shownList.data # None /\ Form
  /\ shownHost' \in Mounted(shownHost)
  /\ dialog' = IF shownHost.data = None THEN Loading ELSE Opened(shownHost.data)
  /\ UNCHANGED <<kind, beside, mine, record, shownList, saved, drag, hints, assistant, news, values,
                 overtaken>>

(* The others are given the record that the list shows; a key's private    *)
(* key is loaded before anything can be typed over it.                     *)
OpenForm ==
  /\ kind # "host" /\ shownList.data # None /\ Form
  /\ dialog' = [Opened(shownList.data) EXCEPT
                  !.reveal = IF kind = "key" THEN "secret" ELSE "no"]
  /\ UNCHANGED <<kind, beside, mine, record, caches, saved, drag, hints, assistant, news, values,
                 overtaken>>

CancelForm ==
  /\ dialog # None /\ dialog' = None
  /\ UNCHANGED <<others, record, caches, saved, drag, hints, assistant, news, values, overtaken>>

(* refetch of the dialog that could not load its host.                     *)
RetryLoad ==
  /\ dialog # None /\ dialog.failed /\ Idle(shownHost)
  /\ shownHost' = [shownHost EXCEPT !.fetch = "asked"]
  /\ dialog' = [dialog EXCEPT !.failed = FALSE]
  /\ UNCHANGED <<others, record, shownList, saved, drag, hints, assistant, news, values,
                 overtaken>>

Typed(d, field, v) ==
  IF field = "secret" THEN [d EXCEPT !.secret = v, !.edited = TRUE, !.touched = @ \cup {"secret"}]
  ELSE [d EXCEPT ![field] = v, !.touched = @ \cup {field}]

(* The inputs of each dialog: what it is after one edit with the value v.  *)
HostEdits(d, v) ==
  {Typed(d, "text", v), Typed(d, "place", v)}
  \cup (IF d.identity THEN {[d EXCEPT !.identity = FALSE]}
        ELSE {[d EXCEPT !.identity = TRUE, !.login = d.copy.login, !.secret = Blank,
                        !.touched = @ \ {"login"}],
              [d EXCEPT !.login = ~@, !.touched = @ \cup {"login"}]}
             \cup IF d.login THEN {Typed(d, "secret", v), Typed(d, "secret", Blank)} ELSE {})
GroupEdits(d, v) == {Typed(d, "text", v), Typed(d, "place", v)}
IdentityEdits(d, v) ==
  {Typed(d, "text", v), [d EXCEPT !.login = ~@, !.touched = @ \cup {"login"}]}
  \cup IF d.login THEN {Typed(d, "secret", v), Typed(d, "secret", Blank)} ELSE {}
KeyEdits(d, v) ==
  {Typed(d, "text", v), [d EXCEPT !.phrase = v, !.phraseEdited = TRUE]}
  \cup IF d.reveal = "secret" THEN {} ELSE {Typed(d, "secret", v)}
ForwardEdits(d, v) == {Typed(d, "text", v), Typed(d, "place", v)}
ProxyEdits(d, v) == {Typed(d, "text", v), Typed(d, "secret", v), Typed(d, "secret", Blank)}
SnippetEdits(d, v) == {Typed(d, "text", v)}
TaskEdits(d, v) == {Typed(d, "text", v), Typed(d, "place", v)}
BookmarkEdits(d, v) == {Typed(d, "text", v)}

Edits(d, v) ==
  CASE kind = "host" -> HostEdits(d, v)
    [] kind = "group" -> GroupEdits(d, v)
    [] kind = "identity" -> IdentityEdits(d, v)
    [] kind = "key" -> KeyEdits(d, v)
    [] kind = "forward" -> ForwardEdits(d, v)
    [] kind = "proxy" -> ProxyEdits(d, v)
    [] kind = "snippet" -> SnippetEdits(d, v)
    [] kind = "task" -> TaskEdits(d, v)
    [] kind = "bookmark" -> BookmarkEdits(d, v)

Edit ==
  /\ Ready /\ typed < MaxTyped /\ typed' = typed + 1 /\ UNCHANGED changes
  /\ dialog' \in Edits(dialog, Fresh)
  /\ UNCHANGED <<others, record, caches, saved, drag, hints, assistant, news, overtaken>>

(* revealSavedPassword, and revealSavedPassphrase of a key: an empty field *)
(* is filled with what is saved, over what was typed meanwhile, and is as  *)
(* good as not edited.                                                     *)
Reveal ==
  /\ Ready /\ kind \in Secretive /\ dialog.reveal = "no"
  /\ IF kind = "key" THEN dialog.phrase = Blank /\ dialog.copy.phrase # Blank
     ELSE /\ dialog.login = (kind \in LogsIn) /\ ~dialog.identity
          /\ dialog.secret = Blank /\ dialog.copy.secret # Blank
  /\ dialog' = [dialog EXCEPT !.reveal = IF kind = "key" THEN "phrase" ELSE "secret"]
  /\ UNCHANGED <<others, record, caches, saved, drag, hints, assistant, news, values, overtaken>>

Revealed ==
  /\ dialog # None /\ dialog.reveal # "no"
  /\ dialog' =
       IF record = None \/ record[dialog.reveal] = Blank
         THEN [dialog EXCEPT !.reveal = "no"]
       ELSE IF dialog.reveal = "phrase"
         THEN [dialog EXCEPT !.reveal = "no", !.phrase = record.phrase, !.phraseEdited = FALSE]
       ELSE [dialog EXCEPT !.reveal = "no", !.secret = record.secret, !.edited = FALSE,
                           !.touched = @ \ {"secret"}]
  /\ UNCHANGED <<others, record, caches, saved, drag, hints, assistant, news, values, overtaken>>

(* What each dialog sends: the fields it shows, and a secret only if it    *)
(* was edited (passwordSubmissionValue).  A host's system is sent as it is *)
(* cached, a login by identity leaves no password.                         *)
Shown(d) == [text |-> d.text, place |-> d.place]
Secret(d) == IF d.edited THEN [secret |-> d.secret] ELSE Nothing
HostInput(d) ==
  LET login == d.login /\ ~d.identity IN
    Shown(d) @@ [hint |-> d.copy.hint, login |-> login]
             @@ (IF login THEN Secret(d) ELSE [secret |-> Blank])
IdentityInput(d) ==
  Shown(d) @@ [login |-> d.login] @@ (IF d.login THEN Secret(d) ELSE [secret |-> Blank])
ProxyInput(d) == [text |-> d.text] @@ Secret(d)
KeyInput(d) ==
  [text |-> d.text] @@ (IF d.edited THEN [secret |-> d.secret, phrase |-> d.phrase] ELSE Nothing)

Send(input) ==
  saved' = [input |-> input, copy |-> dialog.copy, secret |-> dialog.secret,
            edited |-> dialog.edited \/ "login" \in dialog.touched \/ dialog.identity,
            touched |-> dialog.touched, at |-> "sent", rev |-> 0]

(* onSubmit: one save at a time (pending); of a key, what was saved as its *)
(* passphrase goes with a new private key, and a passphrase alone is       *)
(* refused; a new name of a bookmark must be another.                      *)
SubmitHost == kind = "host" /\ Send(HostInput(dialog)) /\ UNCHANGED dialog
SubmitIdentity == kind = "identity" /\ Send(IdentityInput(dialog)) /\ UNCHANGED dialog
SubmitProxy == kind = "proxy" /\ Send(ProxyInput(dialog)) /\ UNCHANGED dialog
SubmitKey ==
  /\ kind = "key" /\ dialog.reveal = "no" /\ ~(dialog.phraseEdited /\ ~dialog.edited)
  /\ LET d == IF dialog.edited /\ ~dialog.phraseEdited /\ dialog.phrase = Blank /\ record # None
                THEN [dialog EXCEPT !.phrase = record.phrase] ELSE dialog
     IN dialog' = d /\ Send(KeyInput(d))
SubmitGroup == kind = "group" /\ Send(Shown(dialog)) /\ UNCHANGED dialog
SubmitSnippet == kind = "snippet" /\ Send([text |-> dialog.text]) /\ UNCHANGED dialog
SubmitTask == kind = "task" /\ Send(Shown(dialog)) /\ UNCHANGED dialog
SubmitBookmark ==
  /\ kind = "bookmark" /\ dialog.text # dialog.copy.text
  /\ Send([text |-> dialog.text]) /\ UNCHANGED dialog

(* A forward that would listen beyond this machine is asked about, and     *)
(* what was asked about is saved.                                          *)
SubmitForward ==
  /\ kind = "forward"
  /\ \/ Send(Shown(dialog)) /\ UNCHANGED dialog
     \/ dialog' = [dialog EXCEPT !.asks = Shown(dialog)] /\ UNCHANGED saved
Submit ==
  /\ Ready /\ saved = None
  /\ \/ SubmitHost \/ SubmitIdentity \/ SubmitProxy \/ SubmitKey \/ SubmitGroup
     \/ SubmitSnippet \/ SubmitTask \/ SubmitBookmark \/ SubmitForward
  /\ UNCHANGED <<others, record, caches, drag, hints, assistant, news, values, overtaken>>
ConfirmExposed ==
  /\ dialog # None /\ dialog.asks # None /\ saved = None
  /\ \/ Send(dialog.asks) /\ UNCHANGED dialog
     \/ dialog' = [dialog EXCEPT !.asks = None] /\ UNCHANGED saved
  /\ UNCHANGED <<others, record, caches, drag, hints, assistant, news, values, overtaken>>

Save ==
  /\ saved # None /\ saved.at = "sent"
  /\ IF record = None THEN saved' = [saved EXCEPT !.at = "refused"] /\ UNCHANGED record
     ELSE /\ record' = Written(record, saved.input)
          /\ saved' = [saved EXCEPT !.at = "written", !.rev = record'.rev]
  /\ UNCHANGED <<others, caches, dialog, drag, hints, assistant, news, values, overtaken>>

(* onSuccess: the copies are read again.  The mutations of all kinds but   *)
(* hosts wait for that.                                                    *)
SaveAnswer ==
  /\ saved # None /\ saved.at \in {"written", "refused"}
  /\ IF saved.at = "refused"
       THEN saved' = None /\ UNCHANGED <<caches, dialog, overtaken>>
     ELSE /\ IF kind = "host" THEN InvalidateHost ELSE InvalidateList
          /\ saved' = [saved EXCEPT !.at = "read"] /\ UNCHANGED dialog
  /\ UNCHANGED <<others, record, drag, hints, assistant, news, values>>

(* onClose, which closes whatever dialog is there by then.                 *)
SaveDone ==
  /\ saved # None /\ saved.at = "read" /\ (kind = "host" \/ Idle(shownList))
  /\ saved' = None /\ dialog' = None
  /\ mine' = IF kind = "host" THEN mine ELSE saved.rev
  /\ UNCHANGED <<kind, beside, forms, record, caches, drag, hints, assistant, news, values, overtaken>>

-----------------------------------------------------------------------------
(* Dragging a host or a group to another group.                            *)

(* onMutate of useMoveHost and useMoveGroup: fetches are cancelled, and    *)
(* the copies show the new place at once.                                  *)
Placed(cache, place) ==
  IF cache.data = None THEN Cancelled(cache)
  ELSE Put(Cancelled(cache), [cache.data EXCEPT !.place = place])
StartDrag ==
  /\ "drag" \in beside /\ kind \in {"host", "group"} /\ drag = None /\ dialog = None /\ shownList.data # None
  /\ NewChange
  /\ drag' = [place |-> Fresh, copy |-> shownList.data, list |-> None, host |-> None,
              at |-> "held"]
  /\ UNCHANGED <<others, record, caches, dialog, saved, hints, assistant, news, overtaken>>
Drop ==
  /\ Held
  /\ drag' = [drag EXCEPT !.list = shownList.data, !.host = shownHost.data, !.at = "sent"]
  /\ shownList' = Placed(shownList, drag.place)
  /\ shownHost' = IF kind = "host" THEN Placed(shownHost, drag.place) ELSE shownHost
  /\ UNCHANGED <<others, record, dialog, saved, hints, assistant, news, values, overtaken>>

(* endHostDrag and endGroupDrag where nothing can be dropped.              *)
DropNowhere ==
  /\ Held /\ drag' = None
  /\ UNCHANGED <<others, record, caches, dialog, saved, hints, assistant, news, values, overtaken>>

(* hosts_move changes the place alone; a group is written as it was when   *)
(* the drag began.                                                         *)
DragInput ==
  IF kind = "host" THEN [place |-> drag.place]
  ELSE [place |-> drag.place, text |-> drag.copy.text]
Move ==
  /\ drag # None /\ drag.at = "sent"
  /\ IF record = None THEN drag' = [drag EXCEPT !.at = "failed"] /\ UNCHANGED record
     ELSE /\ record' = Written(record, DragInput)
          /\ drag' = [drag EXCEPT !.at = "moved", !.copy = record']
  /\ UNCHANGED <<others, caches, dialog, saved, hints, assistant, news, values, overtaken>>

(* onSuccess shows what was written, onError what was there before, and    *)
(* onSettled has the copies read again.                                    *)
Settled(cache, data, observed) ==
  Invalidated(IF data = None THEN cache ELSE Put(cache, data), observed)
MoveAnswer ==
  /\ drag # None /\ drag.at \in {"moved", "failed"} /\ drag' = None
  /\ LET failed == drag.at = "failed"
         hostData == IF failed THEN drag.host ELSE drag.copy
         listData == IF failed THEN drag.list ELSE IF kind = "group" THEN drag.copy ELSE None
     IN /\ shownList' = Settled(shownList, listData, TRUE)
        /\ overtaken' = (overtaken \/ Missed(shownList, TRUE)
                          \/ (kind = "host" /\ Missed(shownHost, Observed)))
        /\ IF kind = "host"
             THEN /\ shownHost' = Settled(shownHost, hostData, Observed) /\ FollowHost(hostData)
             ELSE UNCHANGED shownHost /\ FollowList(listData)
  /\ UNCHANGED <<others, record, saved, hints, assistant, news, values>>

-----------------------------------------------------------------------------
(* The system of a host, as its monitor detects it.                        *)

DetectSystem ==
  /\ "system" \in beside /\ kind = "host" /\ osHint = "unknown" /\ osHint' = "seen"
  /\ UNCHANGED <<others, record, caches, dialog, saved, drag, hinted, assistant, news, values,
                 overtaken>>

(* The effect of HostRow, whenever the list shows another system.          *)
SendHint ==
  /\ osHint = "seen" /\ shownList.data # None /\ ~shownList.data.hint /\ osHint' = "sent"
  /\ UNCHANGED <<others, record, caches, dialog, saved, drag, hinted, assistant, news, values,
                 overtaken>>
WriteHint ==
  /\ osHint = "sent"
  /\ IF record = None THEN osHint' = "unknown" /\ UNCHANGED <<record, hinted>>
     ELSE /\ record' = Written(record, [hint |-> TRUE])
          /\ osHint' = "written" /\ hinted' = record'
  /\ UNCHANGED <<others, caches, dialog, saved, drag, assistant, news, values, overtaken>>

(* onSuccess of useSetHostOsHint: the row is shown, and nothing read again.*)
HintAnswer ==
  /\ osHint = "written" /\ osHint' = "seen" /\ hinted' = None
  /\ shownList' = IF shownList.data = None THEN shownList ELSE Put(shownList, hinted)
  /\ shownHost' = Put(shownHost, hinted) /\ FollowHost(hinted)
  /\ overtaken' = (overtaken \/ record = None \/ record.rev # hinted.rev
                    \/ ~Idle(shownList) \/ ~Idle(shownHost))
  /\ UNCHANGED <<others, record, saved, drag, assistant, news, values>>

-----------------------------------------------------------------------------
(* The assistant's tools: the record is read, what the arguments do not    *)
(* give is taken from that, and everything is written.                     *)

FromArgs(given, v, copy) ==
  [text |-> IF "text" \in given THEN v ELSE copy.text,
   place |-> IF "place" \in given THEN v ELSE copy.place]
GivenSecret(given, v) == IF "secret" \in given THEN [secret |-> v] ELSE Nothing
HostArgs(given, v, copy) ==
  FromArgs(given, v, copy) @@ [hint |-> copy.hint, login |-> copy.login] @@ GivenSecret(given, v)
IdentityArgs(given, v, copy) ==
  FromArgs(given, v, copy) @@ [login |-> copy.login] @@ GivenSecret(given, v)
KeyArgs(given, v, copy) ==
  [text |-> FromArgs(given, v, copy).text] @@ GivenSecret(given, v)
GroupArgs(given, v, copy) == FromArgs(given, v, copy)
ForwardArgs(given, v, copy) == FromArgs(given, v, copy)
SnippetArgs(given, v, copy) == [text |-> FromArgs(given, v, copy).text]
TaskArgs(given, v, copy) == FromArgs(given, v, copy)
ToolInput(t) ==
  CASE kind = "host" -> HostArgs(t.given, t.value, t.copy)
    [] kind = "identity" -> IdentityArgs(t.given, t.value, t.copy)
    [] kind = "key" -> KeyArgs(t.given, t.value, t.copy)
    [] kind = "group" -> GroupArgs(t.given, t.value, t.copy)
    [] kind = "forward" -> ForwardArgs(t.given, t.value, t.copy)
    [] kind = "snippet" -> SnippetArgs(t.given, t.value, t.copy)
    [] kind = "task" -> TaskArgs(t.given, t.value, t.copy)

(* update_host, update_identity, update_ssh_key, update_group,             *)
(* update_forward, update_snippet and update_task.                         *)
UpdateTool ==
  /\ "tool" \in beside /\ kind \notin {"proxy", "bookmark"} /\ assistant = None
  /\ record # None /\ NewChange
  /\ \E field \in Given :
       /\ field = "secret" => kind \in Secretive
       /\ assistant' = [given |-> {field}, copy |-> record, value |-> Fresh, at |-> "read"]
  /\ UNCHANGED <<others, record, caches, dialog, saved, drag, hints, news, overtaken>>

(* move_host writes nothing but the place.                                 *)
MoveTool ==
  /\ "tool" \in beside /\ kind = "host" /\ assistant = None /\ record # None /\ NewChange
  /\ record' = Written(record, [place |-> Fresh])
  /\ assistant' = [given |-> {"place"}, copy |-> record, value |-> Fresh, at |-> "written"]
  /\ UNCHANGED <<others, caches, dialog, saved, drag, hints, news, overtaken>>

ToolWrites ==
  /\ assistant # None /\ assistant.at = "read"
  /\ IF record = None THEN assistant' = None /\ UNCHANGED record
     ELSE /\ record' = Written(record, ToolInput(assistant))
          /\ assistant' = [assistant EXCEPT !.at = "written"]
  /\ UNCHANGED <<others, caches, dialog, saved, drag, hints, news, values, overtaken>>
ToolAnswer ==
  /\ assistant # None /\ assistant.at = "written" /\ assistant' = None
  /\ IF kind = "host" THEN InvalidateHost ELSE InvalidateList
  /\ UNCHANGED <<others, record, dialog, saved, drag, hints, news, values>>

-----------------------------------------------------------------------------
(* Deletion, of the record or of the group a host is in, and the sync.     *)

Delete ==
  /\ "removal" \in beside /\ record # None /\ dialog = None /\ NewChange /\ record' = None
  /\ assistant = None
  /\ assistant' = [given |-> {}, copy |-> record, value |-> Fresh, at |-> "written"]
  /\ UNCHANGED <<others, caches, dialog, saved, drag, hints, news, overtaken>>

(* useDeleteGroup: its hosts come to the group above, and the cached host  *)
(* is not told of it.                                                      *)
DeleteGroup ==
  /\ "removal" \in beside /\ kind = "host" /\ record # None /\ NewChange
  /\ record' = Written(record, [place |-> Fresh])
  /\ shownList' = Invalidated(shownList, TRUE)
  /\ overtaken' = (overtaken \/ shownHost.data # None \/ ~Idle(shownHost))
  /\ UNCHANGED <<others, shownHost, dialog, saved, drag, hints, assistant, news>>

OtherDevice ==
  /\ "sync" \in beside /\ record # None /\ NewChange /\ ~news /\ news' = TRUE
  /\ \/ record' = Written(record, [text |-> Fresh])
     \/ record' = None
  /\ UNCHANGED <<others, caches, dialog, saved, drag, hints, assistant, overtaken>>

(* SyncEventBridge: every query is invalidated.                            *)
SyncCompleted ==
  /\ news /\ news' = FALSE /\ InvalidateHost
  /\ UNCHANGED <<others, record, dialog, saved, drag, hints, assistant, values>>

Next ==
  \/ Read \/ ListAnswer \/ HostAnswer
  \/ OpenHostForm \/ OpenForm \/ CancelForm \/ RetryLoad \/ Edit \/ Reveal \/ Revealed
  \/ Submit \/ ConfirmExposed \/ Save \/ SaveAnswer \/ SaveDone
  \/ StartDrag \/ Drop \/ DropNowhere \/ Move \/ MoveAnswer
  \/ DetectSystem \/ SendHint \/ WriteHint \/ HintAnswer
  \/ UpdateTool \/ MoveTool \/ ToolWrites \/ ToolAnswer
  \/ Delete \/ DeleteGroup \/ OtherDevice \/ SyncCompleted

Spec == Init /\ [][Next]_vars

-----------------------------------------------------------------------------
(* Every variable has its type.                                            *)
Values == 0..(MaxTyped + MaxOthers) \cup {Blank}
Record == [text : Values, place : Values, hint : BOOLEAN, login : BOOLEAN,
           secret : Values, phrase : Values, rev : Nat]
Cache == [data : Record \cup {None}, invalid : BOOLEAN, fetch : {"idle", "asked", "read"},
          copy : Record \cup {None}]
TypeOK ==
  /\ kind \in RecordKind /\ beside \in Beside
  /\ record \in Record \cup {None} /\ shownList \in Cache /\ shownHost \in Cache
  /\ dialog # None => /\ dialog.copy \in Record \cup {None}
                      /\ dialog.reveal \in {"no", "secret", "phrase"}
                      /\ {dialog.text, dialog.place, dialog.secret, dialog.phrase} \subseteq Values
  /\ saved # None => saved.at \in {"sent", "written", "refused", "read"}
  /\ drag # None => drag.at \in {"held", "sent", "moved", "failed"}
  /\ osHint \in {"unknown", "seen", "sent", "written"} /\ hinted \in Record \cup {None}
  /\ assistant # None => assistant.at \in {"read", "written"} /\ assistant.copy \in Record
  /\ news \in BOOLEAN /\ overtaken \in BOOLEAN
  /\ typed \in 0..MaxTyped /\ changes \in 0..MaxOthers /\ forms \in 0..MaxForms /\ mine \in Nat

Quiet ==
  /\ saved = None /\ drag = None /\ osHint \in {"unknown", "seen"} /\ assistant = None /\ ~news
  /\ Idle(shownList) /\ Idle(shownHost)

(* When nothing is under way the window shows the record as it is, unless  *)
(* a copy was put or read that a later change had overtaken.               *)
CachesAgree ==
  Quiet /\ ~overtaken =>
    /\ shownList.data = record
    /\ shownHost.data \in {None, record} \/ shownHost.invalid \/ record = None

(* A dialog that follows its record shows, where nothing was typed, what   *)
(* is cached: what is submitted was not out of date as far as the window   *)
(* knew.                                                                   *)
DialogFollows ==
  dialog # None /\ dialog.copy # None /\ kind \in {"host", "group"} =>
    LET cache == IF kind = "host" THEN shownHost.data ELSE shownList.data IN
      cache = None
      \/ \A f \in {"text", "place"} \ dialog.touched : dialog[f] = cache[f]

(* No write undoes a change it does not know of: what a save, a move or a  *)
(* tool was not given stays, if the record is the one that was copied.     *)
Writes == record # None /\ record' # None /\ record' # record
Same(fields) == \A f \in fields : record'[f] = record[f]
SaveKeepsTheRest ==
  saved # None /\ saved' # saved /\ record.rev = saved.copy.rev /\ drag = None
    => Same({"text", "place", "hint"} \ saved.touched)
MoveKeepsTheRest ==
  drag # None /\ drag' # drag /\ (kind = "host" \/ record.rev = drag.copy.rev)
    => Same({"text", "hint", "login", "secret"})
ToolKeepsTheRest ==
  assistant # None /\ assistant' # assistant /\ record.rev = assistant.copy.rev
    => Same({"text", "place", "hint", "login", "secret", "phrase"} \ assistant.given)
KeepsTheRest ==
  [][Writes => SaveKeepsTheRest /\ MoveKeepsTheRest /\ ToolKeepsTheRest]_vars

(* A secret changes by a save only if it was edited or no password is used *)
(* any more, and then it is the one the dialog showed.                     *)
SecretsKept ==
  [][Writes /\ saved # None /\ saved' # saved /\ record.login = saved.copy.login
       /\ record'.secret # record.secret =>
         saved.edited /\ record'.secret \in {saved.secret, Blank}]_vars

(* A dialog is not opened with what was there before the window's own last *)
(* save: that one waited for the list.  Of a group that is, or was just,   *)
(* moved the list may show what was there before.                          *)
OwnSavesSeen ==
  [][dialog = None /\ dialog' # None /\ kind # "host"
       /\ (kind = "group" => drag = None /\ Idle(shownList))
       => dialog'.copy.rev >= mine]_vars
=============================================================================
