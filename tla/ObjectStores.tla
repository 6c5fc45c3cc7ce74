---------------------------- MODULE ObjectStores ----------------------------
(***************************************************************************)
(* The versions of a vault as objects of a store: Versioned of             *)
(* sync/provider.rs over Google Drive, OneDrive, WebDAV or S3, and what    *)
(* the operations of commands/sync.rs do with them, request by request.    *)
(* VaultSync takes a listing and a pruning for one step each.              *)
(*                                                                         *)
(* An object is its name, a number: versions have the time at which they   *)
(* were named, Foreign is no version.  Refresh tokens are numbered in the  *)
(* order in which the provider issues them to a device.                    *)
(***************************************************************************)
EXTENDS Integers, FiniteSets

CONSTANTS
  Device,
  Providers,     \* the stores to look at
  Keep,          \* KEEP_VERSIONS
  PageSize,      \* objects in an answer of the server
  MaxPages,      \* pages of a listing (100 in the code)
  MaxNames,      \* bound: versions that are ever named
  MaxTokens      \* bound: refresh tokens issued to a device

ObjectStoresAssumption ==
  /\ Providers \subseteq {"gdrive", "onedrive", "webdav", "s3"}
  /\ {Keep, PageSize, MaxPages, MaxNames, MaxTokens} \subseteq Nat \ {0}

VARIABLES
  provider,
  store,      \* the objects that are there
  folder,     \* the folder of the vault exists
  named,      \* the number of the last name
  conn,       \* conn[d]: the refresh token in the saved connection, 0 if there is none
  slot,       \* slot[d]: the one of the sign-in to connect with, 0 if there is none
  issued,     \* issued[d]: the newest refresh token of the device
  op,         \* op[d]: the operation that holds sync_operation
  uploaded,   \* history: versions named and uploaded since versions were last cleared
  cleared,    \* history: the last name when versions were last cleared
  dropped     \* history: devices that gave up a refreshed token

vars == <<provider, store, folder, named, conn, slot, issued, op, uploaded, cleared, dropped>>
remote == <<store, folder, uploaded, cleared>>
saved == <<conn, slot, dropped>>

Foreign == 0
Names == 1 .. MaxNames
IsVersion(o) == o # Foreign
Idle == [kind |-> "none", pc |-> "idle", token |-> 0, cursor |-> -1, page |-> 0,
         found |-> {}, since |-> {}, todo |-> {}, name |-> 0]
HasTokens == provider \in {"gdrive", "onedrive"}

Init ==
  /\ provider \in Providers /\ store \in {{}, {Foreign}} /\ folder = (store # {})
  /\ named = 0 /\ op = [d \in Device |-> Idle]
  /\ conn = [d \in Device |-> 0] /\ slot = [d \in Device |-> 1]
  /\ issued = [d \in Device |-> 1] /\ uploaded = {} /\ cleared = 0 /\ dropped = {}

Sets(d, o) == op' = [op EXCEPT ![d] = o]
Is(d, pc) == op[d].pc = pc

-----------------------------------------------------------------------------
(* How operations end.                                                     *)

(* save_connection, and save_refreshed_config after an error.              *)
Saves(d, t) ==
  /\ conn' = [conn EXCEPT ![d] = t] /\ slot' = [slot EXCEPT ![d] = 0]
  /\ dropped' = IF t = issued'[d] THEN dropped \ {d} ELSE dropped
  /\ Sets(d, Idle)

(* Some errors are returned at once: the tokens go back to what they were. *)
GivesUp(d) ==
  /\ Sets(d, Idle) /\ UNCHANGED <<conn, slot>>
  /\ dropped' = IF issued'[d] \in {conn[d], slot[d]} THEN dropped ELSE dropped \cup {d}

Connects(d) == op[d].kind \in {"connect", "force"}

(* What an error of the provider leads to.                                 *)
Fails(d, t) == IF Connects(d) THEN GivesUp(d) ELSE Saves(d, t)

(* token(): the access token is refreshed when it is about to end, and the *)
(* answer may bring another refresh token.                                 *)
Authorized(d, t) ==
  \/ t = op[d].token /\ UNCHANGED issued
  \/ /\ HasTokens /\ issued[d] < MaxTokens /\ t = issued[d] + 1
     /\ issued' = [issued EXCEPT ![d] = t]

-----------------------------------------------------------------------------
(* Listing the versions.                                                   *)

Listing(kind, t, o) ==
  [o EXCEPT !.kind = kind, !.token = t, !.cursor = -1, !.page = 0, !.found = {},
            !.since = store]

(* The user asks, or the periodic task.                                    *)
Begin(d) ==
  /\ Is(d, "idle")
  /\ \/ \E kind \in {"sync", "restore", "versions"} :
          conn[d] # 0 /\ Sets(d, [Listing(kind, conn[d], Idle) EXCEPT !.pc = "list"])
     \/ \E kind \in {"connect", "force"} :
          conn[d] = 0 /\ slot[d] # 0 /\ Sets(d, [Listing(kind, slot[d], Idle) EXCEPT !.pc = "list"])
  /\ UNCHANGED <<provider, remote, named, issued, saved>>

(* objects(): what is no version is left out.  The newest are first.       *)
Versions(S) == {o \in S : IsVersion(o)}
Newest(S) == CHOOSE v \in S : \A w \in S : w <= v
StaleBeforeUpload(S) == {v \in S : Cardinality({w \in S : w > v}) >= Keep - 1}  \* a fault
Stale(S) == {v \in S : Cardinality({w \in S : w > v}) >= Keep}

(* What the operation does with the versions it listed.                    *)
AfterList(o, found) ==
  IF o.pc = "relist" THEN IF Stale(found) = {} THEN "save" ELSE "prune"
  ELSE IF o.pc = "list all" THEN IF found = {} THEN "save" ELSE "clear"
  ELSE IF o.kind = "versions" THEN "save"
  ELSE IF found = {} THEN IF o.kind = "sync" THEN "export" ELSE "save"
  ELSE IF o.kind = "force" THEN "list all" ELSE "pull"

Listed(d, t, S) ==
  LET found == Versions(S)
      next == AfterList(op[d], found)
  IN IF op[d].kind = "restore" /\ found = {} THEN GivesUp(d)
     ELSE /\ UNCHANGED saved
          /\ Sets(d, IF next = "list all" THEN [Listing("force", t, Idle) EXCEPT !.pc = next]
                     ELSE [op[d] EXCEPT !.pc = next, !.token = t, !.found = found,
                             !.todo = CASE next = "prune" -> Stale(found)
                                        [] next = "clear" -> found
                                        [] OTHER -> {}])

(* The server returns the objects in the order of their names, a page at a *)
(* time, from where the page before ended.                                 *)
Rest(c) == {o \in store : o > c}
PageAfter(c) == {o \in Rest(c) : Cardinality({p \in Rest(c) : p < o}) < PageSize}

NextPage(d, t) ==
  LET page == PageAfter(op[d].cursor)
      found == op[d].found \cup page
  IN IF page = Rest(op[d].cursor) THEN Listed(d, t, found)
     ELSE IF op[d].page + 1 = MaxPages THEN Fails(d, t)
     ELSE /\ UNCHANGED saved
          /\ Sets(d, [op[d] EXCEPT !.token = t, !.found = found, !.page = @ + 1,
                                   !.cursor = Newest(page)])

(* One token serves all pages.                                             *)
TokenOfList(d, t) == IF op[d].page = 0 THEN Authorized(d, t) ELSE t = op[d].token /\ UNCHANGED issued

GdriveList(d, t) == provider = "gdrive" /\ TokenOfList(d, t) /\ NextPage(d, t)
OnedriveList(d, t) ==
  /\ provider = "onedrive" /\ TokenOfList(d, t)
  /\ IF ~folder THEN Listed(d, t, {}) ELSE NextPage(d, t)
S3List(d, t) == provider = "s3" /\ Authorized(d, t) /\ NextPage(d, t)
WebdavList(d, t) == provider = "webdav" /\ Authorized(d, t) /\ Listed(d, t, store)

List(d) ==
  /\ op[d].pc \in {"list", "relist", "list all"}
  /\ \E t \in 1 .. MaxTokens :
       GdriveList(d, t) \/ OnedriveList(d, t) \/ S3List(d, t) \/ WebdavList(d, t)
  /\ UNCHANGED <<provider, remote, named>>

-----------------------------------------------------------------------------
(* Downloads.                                                              *)

(* A version that another device has deleted since is not found.           *)
Gets(d, v, then) ==
  \E t \in 1 .. MaxTokens :
    /\ Authorized(d, t)
    /\ IF v \in store THEN Sets(d, [op[d] EXCEPT !.pc = then, !.token = t]) /\ UNCHANGED saved
       ELSE Fails(d, t)
    /\ UNCHANGED <<provider, remote, named>>

(* A sync pulls the newest version and, later, those not seen.             *)
PullNewest(d) ==
  /\ Is(d, "pull") /\ op[d].kind \in {"sync", "connect"}
  /\ Gets(d, Newest(op[d].found), IF op[d].kind = "sync" THEN "merge" ELSE "save")
PullOlder(d) ==
  /\ Is(d, "export") /\ op[d].kind = "sync"
  /\ \E v \in op[d].found : v # Newest(op[d].found) /\ Gets(d, v, "merge")

(* The user chose from a list that may be old.                             *)
PullChosen(d) ==
  /\ Is(d, "pull") /\ op[d].kind = "restore"
  /\ \/ \E v \in op[d].found : Gets(d, v, "save")
     \/ UNCHANGED <<provider, remote, named, issued>> /\ GivesUp(d)

(* A version that cannot be decrypted, as with another passphrase, or an   *)
(* older one that cannot be had.                                           *)
WrongPassphrase(d) ==
  /\ Is(d, "pull") \/ (Is(d, "export") /\ Cardinality(op[d].found) > 1)
  /\ \E t \in 1 .. MaxTokens : Authorized(d, t) /\ Fails(d, t)
  /\ UNCHANGED <<provider, remote, named>>

(* import_snapshot and export_snapshot fail without a word to the tokens.  *)
Import(d) ==
  /\ Is(d, "merge") /\ UNCHANGED <<provider, remote, named, issued>>
  /\ \/ Sets(d, [op[d] EXCEPT !.pc = "export"]) /\ UNCHANGED saved
     \/ GivesUp(d)

Export(d) ==
  /\ Is(d, "export") /\ UNCHANGED <<provider, remote, issued>>
  /\ \/ Sets(d, [op[d] EXCEPT !.pc = "save"]) /\ op[d].found # {} /\ UNCHANGED <<named, saved>>
     \/ /\ named < MaxNames /\ named' = named + 1
        /\ Sets(d, [op[d] EXCEPT !.pc = IF provider = "webdav" THEN "folder" ELSE "put",
                                 !.name = named'])
        /\ UNCHANGED saved
     \/ GivesUp(d) /\ UNCHANGED named

-----------------------------------------------------------------------------
(* Uploads and deletions.                                                  *)

(* WebDAV asks for its collection before each upload.                      *)
EnsureCollection(d) ==
  /\ Is(d, "folder") /\ folder' = TRUE /\ Sets(d, [op[d] EXCEPT !.pc = "put"])
  /\ UNCHANGED <<provider, store, uploaded, cleared, named, issued, saved>>

Uploaded(d) ==
  /\ store' = store \cup {op[d].name} /\ folder' = TRUE
  /\ uploaded' = uploaded \cup ({op[d].name} \ 0 .. cleared) /\ UNCHANGED cleared

Put(d) ==
  /\ Is(d, "put") /\ Uploaded(d) /\ UNCHANGED <<provider, named, saved>>
  /\ \E t \in 1 .. MaxTokens :
       /\ Authorized(d, t)
       /\ Sets(d, [Listing("sync", t, Idle) EXCEPT !.pc = "relist", !.since = store'])

(* The vault exceeds OneDrive's limit for uploads.                         *)
TooLarge(d) ==
  /\ provider = "onedrive" /\ Is(d, "put")
  /\ \E t \in 1 .. MaxTokens : Authorized(d, t) /\ Fails(d, t)
  /\ UNCHANGED <<provider, remote, named>>

(* An object that is not there any more counts as deleted.                 *)
DeleteObject(d) ==
  /\ op[d].pc \in {"prune", "clear"}
  /\ LET v == Newest(op[d].todo)
         rest == op[d].todo \ {v}
     IN /\ store' = store \ {v}
        /\ IF op[d].pc = "clear" THEN uploaded' = {} /\ cleared' = named
           ELSE UNCHANGED <<uploaded, cleared>>
        /\ \E t \in 1 .. MaxTokens :
             /\ Authorized(d, t)
             /\ op' = [e \in Device |->
                        IF e # d THEN [op[e] EXCEPT !.since = @ \ {v}]
                        ELSE [op[d] EXCEPT !.since = @ \ {v}, !.todo = rest, !.token = t,
                                           !.pc = IF rest = {} THEN "save" ELSE @]]
  /\ UNCHANGED <<provider, folder, named, saved>>

(* A request fails, or its answer is lost.                                 *)
CallFails(d) ==
  /\ op[d].pc \in {"list", "relist", "list all", "pull", "folder", "put", "prune", "clear"}
  /\ \E t \in 1 .. MaxTokens : Authorized(d, t) /\ Fails(d, t)
  /\ \/ UNCHANGED remote
     \/ Is(d, "put") /\ Uploaded(d)
  /\ UNCHANGED <<provider, named>>

Save(d) ==
  /\ Is(d, "save") /\ UNCHANGED <<provider, remote, named, issued>>
  /\ Saves(d, op[d].token) \/ GivesUp(d)

Quit(d) ==
  /\ ~Is(d, "idle") /\ UNCHANGED <<provider, remote, named, issued>> /\ GivesUp(d)

(* sync_disconnect, and another sign-in.                                   *)
Disconnect(d) ==
  /\ Is(d, "idle") /\ conn[d] # 0 /\ conn' = [conn EXCEPT ![d] = 0]
  /\ slot' = [slot EXCEPT ![d] = issued[d]] /\ dropped' = dropped \ {d}
  /\ UNCHANGED <<provider, remote, named, issued, op>>

Next ==
  \E d \in Device :
    \/ Begin(d) \/ List(d) \/ PullNewest(d) \/ PullOlder(d) \/ PullChosen(d)
    \/ WrongPassphrase(d) \/ Import(d) \/ Export(d) \/ EnsureCollection(d) \/ Put(d)
    \/ TooLarge(d) \/ DeleteObject(d) \/ CallFails(d) \/ Save(d) \/ Quit(d) \/ Disconnect(d)

Spec == Init /\ [][Next]_vars

-----------------------------------------------------------------------------
TypeOK ==
  /\ store \subseteq {Foreign} \cup Names /\ named \in 0 .. MaxNames /\ folder \in BOOLEAN
  /\ conn \in [Device -> 0 .. MaxTokens] /\ slot \in [Device -> 0 .. MaxTokens]
  /\ issued \in [Device -> 1 .. MaxTokens] /\ dropped \subseteq Device
  /\ uploaded \subseteq Names /\ cleared \in 0 .. named
  /\ \A d \in Device : op[d].found \cup op[d].todo \subseteq store \cup Names

(* However devices upload, prune and list across each other, a version is  *)
(* only ever pruned when as many newer ones are there as are to be kept.   *)
(* Exempt are versions named before a forced connect cleared the store:    *)
(* they may be pruned because of one that is itself to be pruned, because  *)
(* of one that was cleared.                                                *)
NewestAreKept ==
  \A v \in uploaded \ store : Cardinality({w \in store : IsVersion(w) /\ w > v}) >= Keep

(* Nothing goes that is no version, not even when versions are cleared.    *)
OthersStay == \A d \in Device : op[d].todo \subseteq Names

(* A listing of several pages misses no version that is there all along.   *)
ListsAreComplete ==
  \A d \in Device :
    op[d].pc \in {"pull", "prune", "clear"} /\ op[d].kind # "none" =>
      Versions(op[d].since) \subseteq op[d].found

(* Between operations the connection has the newest refresh token, so that *)
(* it need not be signed in to again.  Exempt are the errors after which   *)
(* the code returns without saving it.                                     *)
TokensAreKept ==
  \A d \in Device \ dropped :
    Is(d, "idle") => issued[d] \in {conn[d], slot[d]}
=============================================================================
