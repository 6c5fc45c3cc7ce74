----------------------------- MODULE Keybindings ----------------------------
(***************************************************************************)
(* The keyboard shortcuts on one platform: the registry of commands and    *)
(* their default shortcuts (workbench/keybinding-registry.ts), the user's  *)
(* overrides (workbench/keybinding-store.ts) and the settings page that    *)
(* changes them (settings/KeybindingsSection.tsx).  A shortcut is told     *)
(* apart from another by the keys it means on this platform.               *)
(***************************************************************************)
EXTENDS Integers, SequencesExt

CONSTANTS
  Registry,    \* KEYBINDING_DEFINITIONS: a sequence of commands
  Default,     \* the platform's default shortcuts of a command, a sequence
  Binding,     \* shortcuts the user can press
  Disabled,    \* the override null
  Inherited,   \* no override
  MaxEdits     \* bound: changes of the overrides

Command == Range(Registry)

KeybindingsAssumption ==
  /\ \A c \in Command : Range(Default[c]) \subseteq Binding
  /\ {Disabled, Inherited} \cap Binding = {} /\ MaxEdits \in Nat

VARIABLES
  overrides,   \* of every command
  editing,     \* the command that records its next shortcut, <<>> or <<command>>
  pending,     \* the conflict the user is asked about, <<>> or <<conflict>>
  edits

vars == <<overrides, editing, pending, edits>>

Init ==
  /\ overrides = [c \in Command |-> Inherited]
  /\ editing = <<>> /\ pending = <<>>
  /\ edits = 0

-----------------------------------------------------------------------------
(* keybinding-registry *)

\* effectiveKeybindings
Effective(c, o) ==
  CASE o[c] = Inherited -> Default[c]
    [] o[c] = Disabled  -> <<>>
    [] OTHER            -> <<o[c]>>

\* findKeybinding: the first command of the registry that has the shortcut.
Found(b, o) == SelectInSeq(Registry, LAMBDA c : b \in Range(Effective(c, o)))

\* findKeybindingConflict: the other commands that have the shortcut, in order.
Conflicts(c, b, o) ==
  SelectSeq(Registry, LAMBDA d : d # c /\ b \in Range(Effective(d, o)))

\* keybindingOverrideWithoutConflict
Remaining(c, b, o) ==
  LET others == SelectSeq(Effective(c, o), LAMBDA x : x # b)
  IN  IF others = <<>> THEN Disabled ELSE Head(others)

-----------------------------------------------------------------------------
(* keybinding-store *)

\* assign: one of the defaults is stored as no override.
Assign(o, c, b) ==
  [o EXCEPT ![c] = IF b \in Range(Default[c]) THEN Inherited ELSE b]

\* removeConflict
RemoveConflict(o, b, d) == [o EXCEPT ![d] = Remaining(d, b, o)]

Change(o) ==
  /\ edits < MaxEdits
  /\ edits' = edits + 1
  /\ overrides' = o

-----------------------------------------------------------------------------
(* KeybindingsSection *)

Conflict(c, b, o, operation) ==
  <<[id |-> c, binding |-> b, conflictId |-> Head(Conflicts(c, b, o)),
     operation |-> operation]>>

Edit(c) ==
  /\ editing' = <<c>>
  /\ pending' = <<>>
  /\ UNCHANGED <<overrides, edits>>

Cancel ==
  /\ editing # <<>> \/ pending # <<>>
  /\ editing' = <<>> /\ pending' = <<>>
  /\ UNCHANGED <<overrides, edits>>

\* The user presses a shortcut while a command records.
Record(b) ==
  /\ editing # <<>>
  /\ LET c == editing[1]
     IN  \/ /\ Conflicts(c, b, overrides) # <<>>
            /\ pending' = Conflict(c, b, overrides, "assign")
            /\ UNCHANGED <<overrides, edits>>
         \/ /\ Conflicts(c, b, overrides) = <<>>
            /\ Change(Assign(overrides, c, b))
            /\ pending' = <<>>
  /\ editing' = <<>>

\* disable: by its button, or by Backspace while recording.
Disable(c) ==
  /\ \/ Effective(c, overrides) # <<>>
     \/ editing = <<c>>
     \/ pending # <<>> /\ pending[1].id = c
  /\ Change([overrides EXCEPT ![c] = Disabled])
  /\ editing' = <<>> /\ pending' = <<>>

\* reset: the defaults are tried in order; the first that another command has
\* is asked about.
Reset(c, o) ==
  LET taken == SelectSeq(Default[c], LAMBDA b : Conflicts(c, b, o) # <<>>)
  IN  IF taken # <<>>
      THEN /\ pending' = Conflict(c, Head(taken), o, "reset")
           /\ Change(o)
           /\ UNCHANGED editing
      ELSE /\ Change([o EXCEPT ![c] = Inherited])
           /\ editing' = <<>> /\ pending' = <<>>

ClickReset(c) ==
  /\ overrides[c] # Inherited
  /\ Reset(c, overrides)

\* Replace shortcut: the conflicting command gives it up.
Replace ==
  /\ pending # <<>>
  /\ LET p == pending[1]
     IN  \/ /\ p.operation = "reset"
            /\ Reset(p.id, RemoveConflict(overrides, p.binding, p.conflictId))
         \/ /\ p.operation = "assign"
            /\ Change(Assign(RemoveConflict(overrides, p.binding, p.conflictId),
                             p.id, p.binding))
            /\ editing' = <<>> /\ pending' = <<>>

Next ==
  \/ \E c \in Command : Edit(c) \/ Disable(c) \/ ClickReset(c)
  \/ \E b \in Binding : Record(b)
  \/ Cancel \/ Replace

Spec == Init /\ [][Next]_vars

-----------------------------------------------------------------------------
(* Properties *)

\* The variables have the values the code gives them.
TypeOK ==
  /\ overrides \in [Command -> Binding \cup {Disabled, Inherited}]
  /\ Len(editing) <= 1 /\ Range(editing) \subseteq Command
  /\ Len(pending) <= 1
  /\ \A p \in Range(pending) :
       p \in [id : Command, binding : Binding, conflictId : Command,
              operation : {"assign", "reset"}]
  /\ edits \in 0..MaxEdits

\* The shortcuts that a command is shown with run that command and no other,
\* whatever sequence of recording, replacing, disabling and resetting has led to
\* the overrides: a conflict is always asked about, and answered by taking the
\* shortcut from the other command (findKeybinding, the text
\* settings.keybindings.conflict, reset).
ShownShortcutRuns ==
  \A c \in Command : \A b \in Range(Effective(c, overrides)) :
    Registry[Found(b, overrides)] = c
=============================================================================
