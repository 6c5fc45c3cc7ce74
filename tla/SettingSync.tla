----------------------------- MODULE SettingSync ----------------------------
(***************************************************************************)
(* One general setting (theme, locale, zoom, font, shortcuts, highlight    *)
(* rules) in its three places: the row in the settings table, the cached   *)
(* query of the page and the store the page shows it from                  *)
(* (lib/settingSync.ts).  Beside the hook, the JSON editor                 *)
(* (JsonSettingsSection.tsx save) and the assistant's tool                 *)
(* (ai/tools/administration.ts) write the row on their own.                *)
(*                                                                         *)
(* The hook's writes form a chain, one call at a time.  An effect runs at  *)
(* once after the change it depends on, as React does it after rendering.  *)
(***************************************************************************)
EXTENDS Integers, Sequences

CONSTANTS
  Value,
  Unset,        \* no row in the table, or one that is not valid
  MaxChoices,   \* bound: choices of the user
  MaxDirect     \* bound: writes of the JSON editor and of the tool

SettingSyncAssumption ==
  Unset \notin Value /\ {MaxChoices, MaxDirect} \subseteq Nat

VARIABLES
  stored,    \* the row
  shown,     \* current: what the store holds
  cache,     \* the query's data: <<>>, or <<value and revision>>
  revision,  \* revisionRef
  get,       \* the query's call: <<>>, or its revision and its answer
  writes,    \* writeChainRef: the values to write, the first is under way
  direct,    \* a write beside the hook: <<>>, or who wrote what, and whether it
             \* has been handled
  choices, directs,
  last,      \* history: the choice made last
  crossed,   \* history: a direct write or a reload of the query met an
             \* unfinished write, read or choice
  failed     \* history: a call has failed

vars == <<stored, shown, cache, revision, get, writes, direct, choices, directs,
          last, crossed, failed>>

Unanswered == "unanswered"
Data(value, rev) == [value |-> value, revision |-> rev]

Init ==
  /\ stored \in Value \cup {Unset}
  /\ shown \in Value
  /\ cache = <<>> /\ revision = 0
  /\ get = <<[revision |-> 0, answer |-> Unanswered]>>
  /\ writes = <<>> /\ direct = <<>>
  /\ choices = 0 /\ directs = 0
  /\ last = Unset /\ crossed = FALSE /\ failed = FALSE

-----------------------------------------------------------------------------

\* Mutant: an answer is taken whatever has been chosen since.
Always(data) == TRUE

\* data.revision === revisionRef.current
IsCurrent(data) == data.revision = revision

\* The effect on new data: a choice made since the query was sent stands, a
\* missing row is written, any other row is shown.
Adopt(data) ==
  \/ /\ ~IsCurrent(data)
     /\ cache' = <<Data(shown, revision)>>
     /\ UNCHANGED <<shown, writes>>
  \/ /\ IsCurrent(data) /\ data.value = Unset
     /\ cache' = <<Data(shown, revision)>>
     /\ writes' = Append(writes, shown)
     /\ UNCHANGED shown
  \/ /\ IsCurrent(data) /\ data.value # Unset
     /\ cache' = <<data>>
     /\ shown' = data.value
     /\ UNCHANGED writes

Cached(v) == cache # <<>> /\ cache[1].value = v

\* The user chooses a value: the store is set and pushed through the hook.  What
\* the cache holds is not written, although the store may have moved on: the tool
\* sets it before the query is answered.
Choose(v) ==
  /\ choices < MaxChoices
  /\ v # shown
  /\ choices' = choices + 1
  /\ shown' = v
  /\ last' = v
  /\ \/ /\ Cached(v)
        /\ UNCHANGED <<cache, revision, writes>>
     \/ /\ ~Cached(v)
        /\ revision' = revision + 1
        /\ cache' = <<Data(v, revision + 1)>>
        /\ writes' = Append(writes, v)
  /\ crossed' = (crossed \/ direct # <<>> \/ (writes' = writes /\ get # <<>>))
  /\ UNCHANGED <<stored, get, direct, directs, failed>>

\* settings_get
HandleGet ==
  /\ get # <<>> /\ get[1].answer = Unanswered
  /\ get' = <<[get[1] EXCEPT !.answer = stored]>>
  /\ UNCHANGED <<stored, shown, cache, revision, writes, direct, choices, directs,
                 last, crossed, failed>>

Loaded ==
  /\ get # <<>> /\ get[1].answer # Unanswered
  /\ get' = <<>>
  /\ Adopt(Data(get[1].answer, get[1].revision))
  /\ UNCHANGED <<stored, revision, direct, choices, directs, last, crossed, failed>>

LoadFails ==
  /\ get # <<>>
  /\ get' = <<>>
  /\ failed' = TRUE
  /\ UNCHANGED <<stored, shown, cache, revision, writes, direct, choices, directs,
                 last, crossed>>

\* settings_set, for the first write of the chain.
Write ==
  /\ writes # <<>>
  /\ writes' = Tail(writes)
  /\ \/ stored' = Head(writes) /\ UNCHANGED failed
     \/ failed' = TRUE /\ UNCHANGED stored
  /\ UNCHANGED <<shown, cache, revision, get, direct, choices, directs, last, crossed>>

\* applyJson, or the tool's settings.set.
WriteDirectly(who, v) ==
  /\ direct = <<>> /\ directs < MaxDirect
  /\ directs' = directs + 1
  /\ direct' = <<[who |-> who, value |-> v, handled |-> FALSE]>>
  /\ crossed' = (crossed \/ writes # <<>> \/ get # <<>>)
  /\ UNCHANGED <<stored, shown, cache, revision, get, writes, choices, last, failed>>

HandleDirect ==
  /\ direct # <<>> /\ ~direct[1].handled
  /\ \/ /\ stored' = direct[1].value
        /\ direct' = <<[direct[1] EXCEPT !.handled = TRUE]>>
        /\ UNCHANGED failed
     \/ /\ direct' = <<>>
        /\ failed' = TRUE
        /\ UNCHANGED stored
  /\ UNCHANGED <<shown, cache, revision, get, writes, choices, directs, last, crossed>>

\* cacheSettingValue, and then the stores: the push finds the value cached.
JsonSaved ==
  /\ direct # <<>> /\ direct[1].handled /\ direct[1].who = "json"
  /\ direct' = <<>>
  /\ cache' = <<Data(direct[1].value, IF cache = <<>> THEN 0 ELSE cache[1].revision)>>
  /\ shown' = direct[1].value
  /\ last' = direct[1].value
  /\ UNCHANGED <<stored, revision, get, writes, choices, directs, crossed, failed>>

\* The tool publishes the value to the store and has the query sent again; a
\* query that is still under way is dropped.
ToolDone ==
  /\ direct # <<>> /\ direct[1].handled /\ direct[1].who = "tool"
  /\ direct' = <<>>
  /\ shown' = direct[1].value
  /\ last' = direct[1].value
  /\ get' = <<[revision |-> revision, answer |-> Unanswered]>>
  /\ crossed' = (crossed \/ writes # <<>>)
  /\ UNCHANGED <<stored, cache, revision, writes, choices, directs, failed>>

Next ==
  \/ \E v \in Value :
       \/ Choose(v)
       \/ \E who \in {"json", "tool"} : WriteDirectly(who, v)
  \/ HandleGet \/ Loaded \/ LoadFails \/ Write \/ HandleDirect \/ JsonSaved \/ ToolDone

Spec == Init /\ [][Next]_vars

-----------------------------------------------------------------------------
(* Properties *)

\* The variables have the values the code gives them; the cache is never ahead
\* of the page's own count of choices.
TypeOK ==
  /\ stored \in Value \cup {Unset} /\ shown \in Value
  /\ Len(cache) <= 1 /\ Len(get) <= 1 /\ Len(direct) <= 1
  /\ \A i \in DOMAIN cache : cache[i] \in [value : Value, revision : 0..revision]
  /\ \A i \in DOMAIN get : get[i] \in [revision : 0..revision,
                                      answer : Value \cup {Unset, Unanswered}]
  /\ \A i \in DOMAIN writes : writes[i] \in Value
  /\ choices \in 0..MaxChoices /\ directs \in 0..MaxDirect
  /\ last \in Value \cup {Unset}
  /\ {crossed, failed} \subseteq BOOLEAN

\* When all calls are through, the table holds what the page shows, and that is
\* the user's last choice: an answer that was asked for before a choice does not
\* undo it, choices are stored in their order, and a first start stores the
\* default.  Left out are failed calls and direct writes that meet an unfinished
\* one (useSettingSync, JsonSettingsForm save).
ChoiceSurvives ==
  /\ get = <<>> /\ writes = <<>> /\ direct = <<>>
  /\ ~crossed /\ ~failed
  => stored = shown /\ last \in {Unset, shown}
=============================================================================
