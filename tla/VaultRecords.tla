---------------------------- MODULE VaultRecords ----------------------------
(***************************************************************************)
(* The rows of one vault database and the pure functions the repository    *)
(* and the sync engine apply to them.                                      *)
(*                                                                         *)
(* The vault is a forest: groups nest in groups (parent_id), hosts sit in  *)
(* groups (group_id).  A row is abstracted to what the merge can tell      *)
(* apart: its updated_at stamp, the group it hangs in, and whether it is a *)
(* tombstone (deleted_at).  A row with stamp 0 was never inserted.         *)
(*                                                                         *)
(* The other record kinds (identities, keys, snippets, tasks, forwards,    *)
(* proxies, bookmarks, settings) merge by the same stamp rule and hang in  *)
(* nothing: a host with no group stands for them.                          *)
(***************************************************************************)
EXTENDS Integers, FiniteSets

CONSTANTS
  Group,      \* ids of group rows, ordered as the code orders ids (strings)
  Host        \* ids of the rows that are not groups

ASSUME RecordAssumption ==
  /\ Group \subseteq Nat \ {0}
  /\ Host \subseteq Nat \ {0}
  /\ Group \cap Host = {}
  /\ IsFiniteSet(Group)

Rec == Group \cup Host
Root == 0                             \* parent_id / group_id is NULL
Parent == Group \cup {Root}
Row == [ts : Nat, up : Parent, dead : BOOLEAN]
Absent == [ts |-> 0, up |-> Root, dead |-> TRUE]
Snapshot == [Rec -> Row]

Live(s) == {r \in Rec : ~s[r].dead}

-----------------------------------------------------------------------------
(* Last writer wins: INSERT ... ON CONFLICT(id) DO UPDATE ...               *)
(* WHERE excluded.updated_at > updated_at.  An absent row has stamp 0.      *)

MergeIncomingWins(local, incoming) ==     \* a fault: the stamps are not compared
  [r \in Rec |-> IF incoming[r].ts > 0 THEN incoming[r] ELSE local[r]]

Merge(local, incoming) ==
  [r \in Rec |-> IF incoming[r].ts > local[r].ts THEN incoming[r] ELSE local[r]]

-----------------------------------------------------------------------------
(* Reference cycles.  The parent map of the live groups is a partial        *)
(* function; a cycle is a minimal non-empty set of groups it maps onto      *)
(* itself.                                                                  *)

Nested(s) == {g \in Group : ~s[g].dead /\ s[g].up # Root}

ClosedLoop(s, C) == C # {} /\ {s[g].up : g \in C} = C

Cycles(s) ==
  {C \in SUBSET Nested(s) :
     /\ ClosedLoop(s, C)
     /\ \A D \in SUBSET C : ClosedLoop(s, D) => D = C}

LargestId(C) == CHOOSE g \in C : \A h \in C : h <= g

NoBreakers(s) == {}                       \* a fault: nothing is repaired

CycleBreakers(s) == {LargestId(C) : C \in Cycles(s)}

(* repair_cycles: every breaker is moved to the top level under a stamp    *)
(* later than the one it had and not before the present.                   *)
LaterStamp(previous, now) == IF previous + 1 > now THEN previous + 1 ELSE now

Repair(s, now) ==
  [r \in Rec |->
     IF r \in CycleBreakers(s)
     THEN [s[r] EXCEPT !.up = Root, !.ts = LaterStamp(s[r].ts, now)]
     ELSE s[r]]

(* Time passes when a repair stamps a row.                                 *)
ClockAfterRepair(s, clock) ==
  IF CycleBreakers(s) = {} THEN clock ELSE clock + 1

-----------------------------------------------------------------------------
(* What the repository checks and writes on behalf of the user.             *)

(* The groups met when walking up from group g, g included.                 *)
Chain(s, g) ==
  {h \in Group :
     \A C \in SUBSET Group :
        (g \in C /\ \A x \in C : s[x].up \in C \cup {Root}) => h \in C}

(* validate_parent: every group of the chain is live, the chain does not    *)
(* meet the moved group and it ends at the top level.                       *)
ValidParent(s, r, p) ==
  \/ p = Root
  \/ /\ p \in Group
     /\ ~s[p].dead
     /\ r \in Group =>
          /\ r \notin Chain(s, p)
          /\ \A h \in Chain(s, p) : ~s[h].dead
          /\ \E h \in Chain(s, p) : s[h].up = Root

(* Creating or updating row r, or moving it, under parent p.                *)
SavedSwapped(s, r, p, now) ==             \* a fault: two columns are swapped
  [s EXCEPT ![r] = [ts |-> p, up |-> now, dead |-> FALSE]]

Saved(s, r, p, now) == [s EXCEPT ![r] = [ts |-> now, up |-> p, dead |-> FALSE]]

(* group_repo::delete hands the children to the parent of the deleted       *)
(* group and leaves a tombstone; host_repo::delete leaves a tombstone.      *)
Deleted(s, r, now) ==
  [x \in Rec |->
     IF x = r THEN [s[x] EXCEPT !.ts = now, !.dead = TRUE]
     ELSE IF r \in Group /\ ~s[x].dead /\ s[x].up = r
          THEN [s[x] EXCEPT !.ts = now, !.up = s[r].up]
          ELSE s[x]]

-----------------------------------------------------------------------------
(* Facts about a vault the properties speak of.                             *)

Acyclic(s) == \A C \in SUBSET Nested(s) : ~ClosedLoop(s, C)

Orphans(s) == {h \in Host : ~s[h].dead /\ s[h].up # Root /\ s[s[h].up].dead}

=============================================================================
