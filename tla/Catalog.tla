------------------------------ MODULE Catalog -------------------------------
(***************************************************************************)
(* The records of the vault and what they refer to: keys, identities,      *)
(* hosts with their jump hosts, port forwards, bookmarks, tasks and proxy  *)
(* profiles (repository/*_repo.rs), the import of hosts from the SSH       *)
(* config file (commands/ssh_config.rs) and the merge with the records of  *)
(* another device (sync/mod.rs).                                           *)
(*                                                                         *)
(* A record is its stamp, whether it is live and the records it refers to; *)
(* names, addresses and secrets are left out, groups are in VaultRecords.  *)
(* Every operation is one transaction of SQLite, which reads and writes    *)
(* one state of the database; the import reads before it begins its own.   *)
(***************************************************************************)
EXTENDS Integers, FiniteSets

CONSTANTS
  Device,
  Key, Identity, Host, Forward, Bookmark, Task, Proxy,   \* ids
  First,            \* the records that exist in the beginning
  JumpDepthLimit,
  None,
  MaxClock          \* bound: the latest stamp of a user's operation

Record == Key \cup Identity \cup Host \cup Forward \cup Bookmark \cup Task \cup Proxy

\* Each kind of record has a table of its own.
Tables == <<Key, Identity, Host, Forward, Bookmark, Task, Proxy>>

CatalogAssumption ==
  /\ \A i, j \in 1..7 : i # j => Tables[i] \cap Tables[j] = {}
  /\ Host \subseteq Nat /\ IsFiniteSet(Record) /\ None \notin Proxy
  /\ First \subseteq Key \cup Identity \cup Host \cup Proxy
  /\ JumpDepthLimit \in Nat \ {0} /\ MaxClock \in Nat

VARIABLES
  db,         \* db[d]: the tables of device d
  active,     \* active[d]: the setting proxy.active_id, which is not synced
  importing,  \* importing[d]: what an import of d has read
  clock,      \* the latest stamp given out
  excused     \* history: references broken where the code does not look

vars == <<db, active, importing, clock, excused>>

Absent == [ts |-> 0, live |-> FALSE, refs |-> {}]
NotImporting == [on |-> FALSE, keys |-> {}, hosts |-> {}]

Init ==
  /\ db = [d \in Device |-> [r \in Record |->
            IF r \in First THEN [ts |-> 1, live |-> TRUE, refs |-> {}] ELSE Absent]]
  /\ active = [d \in Device |-> None]
  /\ importing = [d \in Device |-> NotImporting]
  /\ clock = 1 /\ excused = [d \in Device |-> {}]

LiveIn(t, S) == {r \in S : t[r].live}
Dangling(t) ==
  {p \in Record \X Record : t[p[1]].live /\ p[2] \in t[p[1]].refs /\ ~t[p[2]].live}

-----------------------------------------------------------------------------
(* What a form may hold after normalize: the columns with references.  A   *)
(* host with an identity has no key of its own.                            *)

Optional(S) == {{}} \cup {{x} : x \in S}

HostInput == {login \cup jump : login \in Optional(Key \cup Identity), jump \in Optional(Host)}
IdentityInput == Optional(Key)
ForwardInput == {{h} : h \in Host}
BookmarkInput == Optional(Host)
TaskInput == Optional(Host)

(* The jump hosts of a host and theirs.                                    *)
Jump(t, h) == t[h].refs \cap Host

Chain(t, h) ==
  {g \in Host : \A C \in SUBSET Host :
     h \in C /\ (\A x \in C : Jump(t, x) \subseteq C) => g \in C}

IsChain(t, c) ==
  /\ \A h \in c : t[h].live
  /\ \E h \in c : Jump(t, h) = {}

(* validate_references of a host: everything it refers to is live, and the *)
(* chain of jump hosts ends, without the host and within the limit.        *)
ValidHost(t, h, refs) ==
  /\ \A x \in refs : t[x].live
  /\ \A j \in refs \cap Host :
       /\ h \notin Chain(t, j) /\ IsChain(t, Chain(t, j))
       /\ Cardinality(Chain(t, j)) + 1 <= JumpDepthLimit

(* validate_key_reference, require_active_host and its like.               *)
ValidReference(t, refs) == \A x \in refs : t[x].live

-----------------------------------------------------------------------------
(* Operations of the user on device d.                                     *)

Unused(r) == \A d \in Device : db[d][r].ts = 0         \* new ids are uuids

Write(d, t) ==
  /\ clock < MaxClock /\ clock' = clock + 1
  /\ db' = [db EXCEPT ![d] = t]

Saved(t, r, refs) == [t EXCEPT ![r] = [ts |-> clock + 1, live |-> TRUE, refs |-> refs]]
Tombstone(t, S) ==
  [r \in Record |-> IF r \in S THEN [t[r] EXCEPT !.ts = clock + 1, !.live = FALSE] ELSE t[r]]
Same == UNCHANGED <<active, importing, excused>>

(* create takes a new id, update a live row.                               *)
CanSave(d, r) == Unused(r) \/ db[d][r].live

SaveKey(d) ==
  \E k \in Key : CanSave(d, k) /\ Write(d, Saved(db[d], k, {})) /\ Same

SaveIdentity(d) ==
  \E i \in Identity, refs \in IdentityInput :
    /\ CanSave(d, i) /\ ValidReference(db[d], refs)
    /\ Write(d, Saved(db[d], i, refs)) /\ Same

SaveHost(d) ==
  \E h \in Host, refs \in HostInput :
    /\ CanSave(d, h) /\ ValidHost(db[d], h, refs)
    /\ Write(d, Saved(db[d], h, refs)) /\ Same

(* move_to_group and set_os_hint look at the other columns no more.        *)
TouchHost(d) ==
  \E h \in LiveIn(db[d], Host) : Write(d, Saved(db[d], h, db[d][h].refs)) /\ Same

SaveForward(d) ==
  \E f \in Forward, refs \in ForwardInput :
    /\ CanSave(d, f) /\ ValidReference(db[d], refs)
    /\ Write(d, Saved(db[d], f, refs)) /\ Same

(* A bookmark is created once for a place; later only its label changes.   *)
CreateBookmark(d) ==
  \E b \in Bookmark, refs \in BookmarkInput :
    /\ Unused(b) /\ ValidReference(db[d], refs)
    /\ \A c \in LiveIn(db[d], Bookmark) : db[d][c].refs # refs
    /\ Write(d, Saved(db[d], b, refs)) /\ Same

UpdateLabel(d) ==
  \E b \in LiveIn(db[d], Bookmark) : Write(d, Saved(db[d], b, db[d][b].refs)) /\ Same

(* Nobody looks whether the host of a task is still there.                 *)
SaveTask(d) ==
  \E t \in Task, refs \in TaskInput :
    /\ CanSave(d, t) /\ (\A x \in refs : db[d][x].ts > 0)
    /\ Write(d, Saved(db[d], t, refs))
    /\ excused' = [excused EXCEPT ![d] = @ \cup ({t} \X {x \in refs : ~db[d][x].live})]
    /\ UNCHANGED <<active, importing>>

SaveProxy(d) ==
  \E p \in Proxy : CanSave(d, p) /\ Write(d, Saved(db[d], p, {})) /\ Same

SetActive(d) ==
  \E p \in LiveIn(db[d], Proxy) \cup {None} :
    /\ active' = [active EXCEPT ![d] = p]
    /\ UNCHANGED <<db, importing, clock, excused>>

NoUsers(t, r, S) == {}                   \* a fault: nobody looks

(* The records of S that refer to r.                                       *)
Users(t, r, S) == {u \in LiveIn(t, S) : r \in t[u].refs}

DeleteKey(d) ==
  \E k \in LiveIn(db[d], Key) :
    /\ Users(db[d], k, Host \cup Identity) = {}
    /\ Write(d, Tombstone(db[d], {k})) /\ Same

DeleteIdentity(d) ==
  \E i \in LiveIn(db[d], Identity) :
    /\ Users(db[d], i, Host) = {}
    /\ Write(d, Tombstone(db[d], {i})) /\ Same

(* The bookmarks of a host go with it.                                     *)
DeleteHost(d) ==
  \E h \in LiveIn(db[d], Host) :
    /\ Users(db[d], h, Host \ {h}) = {} /\ Users(db[d], h, Forward \cup Task) = {}
    /\ Write(d, Tombstone(db[d], {h} \cup Users(db[d], h, Bookmark))) /\ Same

DeleteOther(d) ==
  \E r \in LiveIn(db[d], Forward \cup Bookmark \cup Task) :
    Write(d, Tombstone(db[d], {r})) /\ Same

DeleteProxy(d) ==
  \E p \in LiveIn(db[d], Proxy) :
    /\ Write(d, Tombstone(db[d], {p}))
    /\ active' = [active EXCEPT ![d] = IF @ = p THEN None ELSE @]
    /\ UNCHANGED <<importing, excused>>

-----------------------------------------------------------------------------
(* Import of hosts from the SSH config file: the existing hosts and keys   *)
(* are read first, the rows are written in a transaction that looks at the *)
(* jump hosts of all hosts once more, and at no key.                       *)

ImportRead(d) ==
  /\ ~importing[d].on
  /\ importing' = [importing EXCEPT ![d] =
       [on |-> TRUE, keys |-> LiveIn(db[d], Key), hosts |-> LiveIn(db[d], Host)]]
  /\ UNCHANGED <<db, active, clock, excused>>

ValidJumpGraph(t) ==
  \A h \in LiveIn(t, Host) :
    IsChain(t, Chain(t, h)) /\ Cardinality(Chain(t, h)) <= JumpDepthLimit

(* The imported hosts, with a key listed or made for the purpose and a     *)
(* jump host listed or imported together.                                  *)
Imported(d, hosts, key, jump) ==
  LET made == {k \in key : Unused(k)}
      refs(h) == key \cup (jump \ {h})
  IN [r \in Record |->
        IF r \in hosts THEN [ts |-> clock + 1, live |-> TRUE, refs |-> refs(r)]
        ELSE IF r \in made THEN [ts |-> clock + 1, live |-> TRUE, refs |-> {}]
        ELSE db[d][r]]

(* A key that was listed may be gone by now.                               *)
ImportRows(d, hosts, key, jump) ==
  LET t == Imported(d, hosts, key, jump) IN
  /\ ValidJumpGraph(t) /\ Write(d, t)
  /\ excused' = [excused EXCEPT ![d] = @ \cup (hosts \X {k \in key : ~t[k].live})]

ImportApply(d) ==
  /\ importing[d].on /\ importing' = [importing EXCEPT ![d] = NotImporting]
  /\ \E hosts \in (SUBSET {h \in Host : Unused(h)}) \ {{}} :
     \E key \in Optional(importing[d].keys \cup {k \in Key : Unused(k)}) :
     \E jump \in Optional(importing[d].hosts \cup hosts) :
       ImportRows(d, hosts, key, jump)
  /\ UNCHANGED active

ImportFails(d) ==
  /\ importing[d].on /\ importing' = [importing EXCEPT ![d] = NotImporting]
  /\ UNCHANGED <<db, active, clock, excused>>

-----------------------------------------------------------------------------
(* Snapshots of other devices: a row with a later stamp wins, then loops   *)
(* of jump hosts are broken.                                               *)

Newer(mine, theirs) ==
  [r \in Record |-> IF theirs[r].ts > mine[r].ts THEN theirs[r] ELSE mine[r]]

ClosedLoop(t, C) == C # {} /\ UNION {Jump(t, h) : h \in C} = C

Loops(t) ==
  {C \in SUBSET LiveIn(t, Host) :
     ClosedLoop(t, C) /\ \A D \in SUBSET C : ClosedLoop(t, D) => D = C}

Breakers(t) == {CHOOSE h \in C : \A g \in C : g <= h : C \in Loops(t)}

NoBreakers(t) == {}                      \* a fault: loops stay

Repaired(t) ==
  [r \in Record |->
     IF r \in Breakers(t)
     THEN [t[r] EXCEPT !.refs = @ \ Host, !.ts = IF @ < clock THEN clock + 1 ELSE @ + 1]
     ELSE t[r]]

Receive(d, t) ==
  /\ db' = [db EXCEPT ![d] = Repaired(t)]
  /\ clock' = IF Breakers(t) = {} THEN clock ELSE clock + 1
  /\ excused' = [excused EXCEPT ![d] = @ \cup Dangling(Repaired(t))]
  /\ UNCHANGED <<active, importing>>

(* import_snapshot_in and restore_snapshot_in.                             *)
Merge(d) == \E e \in Device \ {d} : db[e] # db[d] /\ Receive(d, Newer(db[d], db[e]))
Restore(d) == \E e \in Device \ {d} : db[e] # db[d] /\ Receive(d, db[e])

Next ==
  \E d \in Device :
    \/ SaveKey(d) \/ SaveIdentity(d) \/ SaveHost(d) \/ TouchHost(d) \/ SaveForward(d)
    \/ CreateBookmark(d) \/ UpdateLabel(d) \/ SaveTask(d) \/ SaveProxy(d) \/ SetActive(d)
    \/ DeleteKey(d) \/ DeleteIdentity(d) \/ DeleteHost(d) \/ DeleteOther(d) \/ DeleteProxy(d)
    \/ ImportRead(d) \/ ImportApply(d) \/ ImportFails(d)
    \/ Merge(d) \/ Restore(d)

Spec == Init /\ [][Next]_vars

-----------------------------------------------------------------------------
Row == [ts : Nat, live : BOOLEAN, refs : SUBSET Record]

TypeOK ==
  /\ db \in [Device -> [Record -> Row]] /\ active \in [Device -> Proxy \cup {None}]
  /\ clock \in Nat
  /\ \A d \in Device : importing[d].keys \subseteq Key /\ importing[d].hosts \subseteq Host
  /\ excused \in [Device -> SUBSET (Record \X Record)]

(* No operation of the user leaves a live record that refers to a deleted  *)
(* one: what is in use is not deleted, what is deleted is not referred to. *)
(* References that a merge breaks, that task_repo does not check or whose  *)
(* key was deleted while an import was under way are excused; the active   *)
(* proxy may go by a merge too.                                            *)
ReferencesHold ==
  \A d \in Device : Dangling(db[d]) \subseteq excused[d]

(* No jump host is reached through itself on any device, whatever two of   *)
(* them do at the same time and merge.                                     *)
NoJumpLoops ==
  \A d \in Device : \A C \in SUBSET LiveIn(db[d], Host) : ~ClosedLoop(db[d], C)
=============================================================================
