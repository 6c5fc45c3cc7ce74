----------------------------- MODULE AiSettings -----------------------------
(***************************************************************************)
(* The settings of the assistant: the rows that ai_set_config and          *)
(* ai_set_model write (commands/ai.rs), the form of the settings page that *)
(* saves half a second after an edit (SettingsPage.tsx), the picker of     *)
(* models in the assistant's panel, the mutations of both, which run one   *)
(* after another (features/ai/api.ts), the tool with which the assistant   *)
(* changes its own settings (tools/administration.ts), and the cache of    *)
(* the limits of a model (model-limits.ts).                                *)
(*                                                                         *)
(* An endpoint stands for a protocol with a base URL; a model is known by  *)
(* the endpoint it was chosen for, and auto is what stands for the rest.   *)
(* The key is left out: it decides nothing here.                           *)
(***************************************************************************)
EXTENDS Integers, Sequences

CONSTANTS
  Endpoint, None,
  MaxEdits,       \* bound: edits of the form and models chosen
  MaxTools        \* bound: calls of the tool

AiSettingsAssumption ==
  Endpoint # {} /\ None \notin Endpoint /\ MaxEdits \in Nat /\ MaxTools \in Nat

VARIABLES
  row,        \* the rows: [endpoint, model, auto]
  config,     \* the page's copy of them, shown and computed with
  fetch,      \* the copy is being read again: "no", "asked", "half" or "read"
  copy,       \* what was read, or None
  form,       \* the form, or None: [endpoint, auto, saved, timer]
  mutations,  \* the mutations of the page, the first of which runs
  at,         \* how far it is: "sent", "read", "done" or "failed"
  previous,   \* the endpoint that the command read before it writes
  tool,       \* how far the tool is, what it writes, and what its command read
              \*   before
  list,       \* the endpoint whose models the panel lists, "asked", or None
  limits,     \* the endpoint whose limits are cached, "asked", or None
  edits, tools,
  raced,      \* history: a model was chosen for another endpoint than the one it
              \*   comes to, or tool and page wrote at the same time
  untold      \* history: the page was not told of a change: "config", "limits", "list"

page == <<config, fetch, copy, form, mutations, at, list, limits>>
vars == <<row, page, previous, tool, edits, tools, raced, untold>>

Row == [endpoint : Endpoint, model : Endpoint \cup {None}, auto : BOOLEAN]
NoTool == [pc |-> "idle", endpoint |-> None, auto |-> FALSE, model |-> None, before |-> None]

Init ==
  /\ row \in {r \in Row : r.model \in {None, r.endpoint} /\ ~r.auto}
  /\ config = row /\ fetch = "no" /\ copy = None /\ form = None /\ mutations = <<>> /\ at = "sent"
  /\ previous = None /\ tool = NoTool /\ list = None /\ limits = None
  /\ edits = 0 /\ tools = 0 /\ raced = FALSE /\ untold = {}

(* The endpoint the rows have once what is queued was written.             *)
Due ==
  LET configs == SelectSeq(mutations, LAMBDA m : m.kind = "config") IN
    IF configs = <<>> THEN row.endpoint ELSE configs[Len(configs)].endpoint

-----------------------------------------------------------------------------
(* The form, the picker and their mutations.                               *)

Edit == edits < MaxEdits /\ edits' = edits + 1
Enqueue(m, crosses) ==
  /\ mutations' = Append(mutations, m)
  /\ raced' = (raced \/ tool.pc # "idle" \/ crosses)

Mount ==
  /\ form = None /\ edits < MaxEdits
  /\ form' = [endpoint |-> config.endpoint, auto |-> config.auto, saved |-> config.model,
              timer |-> FALSE]
  /\ UNCHANGED <<row, config, fetch, copy, mutations, at, previous, tool, list, limits, edits,
                 tools, raced, untold>>

(* commitBaseUrl and changeProtocol forget the model; changeAutoApprove.   *)
EditForm ==
  /\ form # None /\ Edit
  /\ \/ \E e \in Endpoint \ {form.endpoint} :
          form' = [form EXCEPT !.endpoint = e, !.saved = None, !.timer = TRUE]
     \/ form' = [form EXCEPT !.auto = ~@, !.timer = TRUE]
  /\ UNCHANGED <<row, config, fetch, copy, mutations, at, previous, tool, list, limits, tools,
                 raced, untold>>

(* flushConfig, by the timer or when the form goes.                        *)
FlushForm ==
  /\ form # None
  /\ form' \in (IF form.timer THEN {[form EXCEPT !.timer = FALSE], None} ELSE {None})
  /\ IF form.timer
       THEN Enqueue([kind |-> "config", endpoint |-> form.endpoint, auto |-> form.auto], FALSE)
       ELSE UNCHANGED <<mutations, raced>>
  /\ UNCHANGED <<row, config, fetch, copy, at, previous, tool, list, limits, edits, tools, untold>>

(* mutate of useSetAiModel: the choice is shown before its turn comes, and *)
(* a copy that is being read is not taken.                                 *)
Choose(model, crosses) ==
  /\ Edit /\ Enqueue([kind |-> "model", model |-> model, before |-> config], crosses)
  /\ config' = [config EXCEPT !.model = model] /\ fetch' = "no" /\ copy' = None
  /\ UNCHANGED <<row, at, previous, tool, list, limits, tools, untold>>
TypeModel ==
  /\ form # None /\ form.saved # form.endpoint
  /\ form' = [form EXCEPT !.saved = form.endpoint] /\ Choose(form.endpoint, form.endpoint # Due)
PickModel ==
  /\ list \in Endpoint /\ config.model # list /\ UNCHANGED form
  /\ Choose(list, list # Due /\ (mutations # <<>> \/ "list" \in untold))

(* ai_set_config: whether the endpoint changes is decided with what was    *)
(* read before; if it does, the model goes.                                *)
Written(old, new, before) ==
  [endpoint |-> new.endpoint, auto |-> new.auto,
   model |-> IF before # new.endpoint THEN None ELSE old.model]

ReadPrevious ==
  /\ mutations # <<>> /\ at = "sent" /\ Head(mutations).kind = "config"
  /\ previous' = row.endpoint /\ at' = "read"
  /\ UNCHANGED <<row, config, fetch, copy, form, mutations, tool, list, limits, edits, tools,
                 raced, untold>>

Write ==
  /\ mutations # <<>>
  /\ LET m == Head(mutations) IN
       /\ at = IF m.kind = "config" THEN "read" ELSE "sent"
       /\ \/ /\ row' = IF m.kind = "config" THEN Written(row, m, previous)
                       ELSE [row EXCEPT !.model = m.model]
             /\ at' = "done" /\ UNCHANGED raced
          \/ at' = "failed" /\ raced' = (raced \/ m.kind = "config") /\ UNCHANGED row
  /\ UNCHANGED <<config, fetch, copy, form, mutations, previous, tool, list, limits, edits, tools,
                 untold>>

(* onSuccess of useSetAiConfig: cached limits and, for another endpoint,   *)
(* the list of models go.  A copy that showed the endpoint before, because *)
(* it was read meanwhile or a failed choice had put it back, keeps it from *)
(* being seen that the endpoint is another: then the list stays.           *)
ConfigSaved(m) ==
  /\ limits' = None
  /\ config' = Written(config, m, config.endpoint)
  /\ list' = IF config.endpoint # m.endpoint THEN None ELSE list
  /\ fetch' = "asked"
  /\ untold' = IF list' = None THEN {}
               ELSE IF config.endpoint = m.endpoint /\ list # m.endpoint THEN {"list"}
               ELSE untold \cap {"list"}
(* onError and onSettled of useSetAiModel.                                 *)
ModelSettled(m) ==
  /\ config' = IF at = "failed" THEN m.before ELSE config
  /\ fetch' = "asked" /\ untold' = untold \ {"config"} /\ UNCHANGED <<list, limits>>

Settled ==
  /\ mutations # <<>> /\ at \in {"done", "failed"}
  /\ LET m == Head(mutations) IN
       CASE m.kind = "model" -> ModelSettled(m)
         [] m.kind = "config" /\ at = "done" -> ConfigSaved(m)
         [] OTHER -> UNCHANGED <<limits, config, list, fetch, untold>>
  /\ copy' = IF fetch' = "asked" THEN None ELSE copy
  /\ mutations' = Tail(mutations) /\ at' = "sent"
  /\ UNCHANGED <<row, form, previous, tool, edits, tools, raced>>

(* ai_get_config reads row after row.                                      *)
Fetch ==
  /\ \/ fetch = "asked" /\ fetch' = "half" /\ copy' = row /\ UNCHANGED config
     \/ /\ fetch = "half" /\ fetch' = "read"
        /\ copy' = [row EXCEPT !.endpoint = copy.endpoint] /\ UNCHANGED config
     \/ fetch = "read" /\ fetch' = "no" /\ config' = copy /\ copy' = None
  /\ UNCHANGED <<row, form, mutations, at, previous, tool, list, limits, edits, tools,
                 raced, untold>>

(* What the page keeps of a provider: the list of its models, and the      *)
(* limits of one for some minutes.                                         *)
Lookup ==
  /\ \/ list = None /\ list' = "asked" /\ UNCHANGED limits
     \/ list = "asked" /\ list' = row.endpoint /\ UNCHANGED limits
     \/ limits = None /\ limits' = "asked" /\ UNCHANGED list
     \/ limits = "asked" /\ limits' = row.endpoint /\ UNCHANGED list
     \/ limits \in Endpoint /\ limits' = None /\ UNCHANGED list
  /\ UNCHANGED <<row, config, fetch, copy, form, mutations, at, previous, tool, edits, tools, raced>>
  /\ untold' = IF limits' = None THEN untold \ {"limits"} ELSE untold

-----------------------------------------------------------------------------
(* updateAiSettings: reads the settings, writes all of them, then the      *)
(* model, and tells the page only at its end and only of the settings.     *)

ToolReads ==
  /\ tool.pc = "idle" /\ tools < MaxTools /\ tools' = tools + 1
  /\ \E e \in Endpoint : \E model \in {None, e} :
       tool' = [pc |-> "sent", endpoint |-> e, auto |-> ~row.auto, model |-> model,
                before |-> None]
  /\ raced' = (raced \/ mutations # <<>>)
  /\ UNCHANGED <<row, page, previous, edits, untold>>

ToolWrites ==
  /\ \/ tool.pc = "sent" /\ tool' = [tool EXCEPT !.pc = "read", !.before = row.endpoint]
        /\ UNCHANGED <<row, untold>>
     \/ /\ tool.pc = "read" /\ row' = Written(row, tool, tool.before)
        /\ tool' = [tool EXCEPT !.pc = "written"]
        /\ untold' = untold \cup {"config"} \cup
             (IF limits \in Endpoint /\ limits # tool.endpoint THEN {"limits"} ELSE {})
             \cup (IF list \in Endpoint /\ list # tool.endpoint THEN {"list"} ELSE {})
     \/ tool.pc = "written" /\ tool' = [tool EXCEPT !.pc = "told"] /\ UNCHANGED untold
        /\ row' = IF tool.model = None THEN row ELSE [row EXCEPT !.model = tool.model]
  /\ UNCHANGED <<page, previous, edits, tools, raced>>

ToolEnds ==
  /\ tool.pc # "idle" /\ tool' = NoTool
  /\ IF tool.pc = "told"
       THEN fetch' = "asked" /\ copy' = None /\ untold' = untold \ {"config"}
       ELSE UNCHANGED <<fetch, copy, untold>>
  /\ UNCHANGED <<row, config, form, mutations, at, list, limits, previous, edits, tools,
                 raced>>

Next ==
  \/ Mount \/ EditForm \/ FlushForm \/ TypeModel \/ PickModel
  \/ ReadPrevious \/ Write \/ Settled \/ Fetch \/ Lookup
  \/ ToolReads \/ ToolWrites \/ ToolEnds

Spec == Init /\ [][Next]_vars

-----------------------------------------------------------------------------
(* Properties.                                                             *)

(* Every variable has its type.                                            *)
TypeOK ==
  /\ {row, config} \subseteq Row /\ copy \in Row \cup {None}
  /\ fetch \in {"no", "asked", "half", "read"}
  /\ form # None => form.endpoint \in Endpoint /\ form.timer \in BOOLEAN
  /\ at \in {"sent", "read", "done", "failed"} /\ previous \in Endpoint \cup {None}
  /\ tool.pc \in {"idle", "sent", "read", "written", "told"}
  /\ {list, limits} \subseteq Endpoint \cup {"asked", None}
  /\ edits \in 0 .. MaxEdits /\ tools \in 0 .. MaxTools
  /\ raced \in BOOLEAN /\ untold \subseteq {"config", "limits", "list"}

(* The model in use is one that was chosen for the endpoint in use, unless *)
(* it was chosen while a change of the endpoint was on its way.            *)
ModelFits == row.model \in {None, row.endpoint} \/ raced

(* Once nothing is on its way, the page shows the settings as they are,    *)
(* unless the tool failed half-way and told nobody.                        *)
QuietIsTrue ==
  mutations = <<>> /\ fetch = "no" /\ tool.pc = "idle" /\ "config" \notin untold =>
    config = row

(* What is computed with the limits of a model is computed with those of   *)
(* the endpoint in use, except right after a change and for as long as a   *)
(* change of the tool goes unnoticed.                                      *)
LimitsFit ==
  limits \in Endpoint =>
    \/ limits = row.endpoint \/ "limits" \in untold
    \/ mutations # <<>> /\ at = "done" /\ Head(mutations).kind = "config"
=============================================================================
