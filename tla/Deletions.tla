------------------------------ MODULE Deletions ------------------------------
(***************************************************************************)
(* Deleting files and folders: sftp/delete.rs, a request at a time, by     *)
(* several operations over one connection or on the local disk, while      *)
(* others create and remove files there.  TransferQueue has the life of    *)
(* such an operation in the registry and on the page.                      *)
(***************************************************************************)
EXTENDS Integers, Sequences, FiniteSets, SequencesExt

CONSTANTS
  Op,            \* operations: OpRemote[o], and Chosen[o] what the user marked
  OpRemote, Chosen,
  Node, Kind, Parent,      \* the tree; links lead to the folder Target
  Target,
  Late,          \* nodes that others may create, beside those that went
  Concurrent,    \* MAX_CONCURRENT_DELETE_REQUESTS, also the slots of a connection
  MaxEntries     \* MAX_REMOTE_DELETE_ENTRIES

DeletionsAssumption ==
  /\ IsFiniteSet(Node) /\ Kind \in [Node -> {"file", "dir", "link"}] /\ Late \subseteq Node
  /\ \A n \in DOMAIN Parent : {n, Parent[n]} \subseteq Node /\ Kind[Parent[n]] = "dir"
  /\ OpRemote \in [Op -> BOOLEAN] /\ Chosen \in [Op -> Seq(Node)]
  /\ \A o \in Op : ToSet(Chosen[o]) \cap Late = {}    \* the user marks what is there
  /\ {Concurrent, MaxEntries} \subseteq Nat \ {0} /\ Kind[Target] = "dir"

VARIABLES
  there,       \* the nodes that are there
  pc, cancel,
  todo,        \* todo[o]: nodes <<node, depth>> to scan, the next one first
  found,       \* found[o]: how many were found
  files, dirs, \* files[o], dirs[o]: the plan
  batch,       \* batch[o]: nodes of this round not yet asked for
  flight,      \* flight[o]: requests <<node, state>> under way
  failures,    \* failures[o]: how many items could not be deleted
  status,      \* status[o]: that of the terminal event, or "active"
  slots,       \* delete_slots: those that are free
  up,          \* the connection
  stray,       \* requests <<o, node>> the server got that o does not wait for
  gone,        \* history: what was removed, <<o, node>> by o
  disturbed    \* history: what else may have made operations fail, or put back what went

vars == <<there, pc, cancel, todo, found, files, dirs, batch, flight, failures, status,
          slots, up, stray, gone, disturbed>>
plan == <<todo, found, files, dirs>>
server == <<there, stray, gone>>

Below(n) == {m \in DOMAIN Parent : Parent[m] = n}
(* A node with all that is under it: whatever has the node and, of each    *)
(* that it has, those below, has these too.                                *)
Closed(S) == \A k \in S : Below(k) \subseteq S
Under == [n \in Node |-> {m \in Node : \A S \in SUBSET Node : n \in S /\ Closed(S) => m \in S}]
Roots(o) == ToSet(Chosen[o])

Init ==
  /\ there = Node \ Late /\ pc = [o \in Op |-> "begin"] /\ cancel = [o \in Op |-> FALSE]
  /\ todo = [o \in Op |-> <<>>] /\ found = [o \in Op |-> 0]
  /\ files = [o \in Op |-> {}] /\ dirs = [o \in Op |-> {}] /\ batch = [o \in Op |-> {}]
  /\ flight = [o \in Op |-> {}] /\ failures = [o \in Op |-> 0]
  /\ status = [o \in Op |-> "active"] /\ slots = Concurrent /\ up = TRUE
  /\ stray = {} /\ gone = {} /\ disturbed = {}

In(o, p) == pc[o] = p
Goes(o, p) == pc' = [pc EXCEPT ![o] = p]

(* delete: the terminal event.  A late cancel wins over a success.         *)
Ends(o, how) ==
  /\ Goes(o, "over")
  /\ status' = [status EXCEPT ![o] = IF how = "done" /\ cancel[o] THEN "cancelled" ELSE how]

(* An item that is not there is as good as deleted.                        *)
Outcome(n) == IF n \notin there THEN "not found"
              ELSE IF Below(n) \cap there # {} THEN "failed" ELSE "removed"

-----------------------------------------------------------------------------
(* The plan of a remote deletion: scan_remote_node.                        *)

Begin(o) ==
  /\ In(o, "begin")
  /\ IF ~OpRemote[o] THEN Goes(o, "local") /\ UNCHANGED status
     ELSE IF up THEN Goes(o, "stat") /\ UNCHANGED status
     ELSE Ends(o, "error")
  /\ todo' = [todo EXCEPT ![o] = [i \in DOMAIN Chosen[o] |-> <<Chosen[o][i], 0>>]]
  /\ UNCHANGED <<cancel, found, files, dirs, batch, flight, failures, slots, up, server,
                 disturbed>>

(* Links are not followed: they go themselves.                             *)
IsFolder(n) == Kind[n] = "dir"
Inside(n) == IF Kind[n] = "link" THEN Below(Target) ELSE Below(n)

(* Its kind is asked for, unless the listing told that it is no folder.    *)
Stat(o) ==
  /\ In(o, "stat") /\ todo[o] # <<>> /\ UNCHANGED <<batch, flight, slots, failures>>
  /\ LET n == Head(todo[o])[1]
         asks == IsFolder(n) \/ Head(todo[o])[2] = 0
     IN IF (asks /\ (cancel[o] \/ ~up \/ n \notin there)) \/ found[o] = MaxEntries
        THEN Ends(o, IF asks /\ cancel[o] THEN "cancelled" ELSE "error") /\ UNCHANGED plan
        ELSE /\ found' = [found EXCEPT ![o] = @ + 1] /\ UNCHANGED <<dirs, status>>
             /\ IF IsFolder(n) THEN Goes(o, "list") /\ UNCHANGED <<files, todo>>
                ELSE /\ files' = [files EXCEPT ![o] = @ \cup {n}]
                     /\ todo' = [todo EXCEPT ![o] = Tail(@)] /\ UNCHANGED pc
  /\ UNCHANGED <<cancel, up, server, disturbed>>

ReadDir(o) ==
  /\ In(o, "list") /\ UNCHANGED <<batch, flight, slots, failures, found, files>>
  /\ LET n == Head(todo[o])[1]
         depth == Head(todo[o])[2]
     IN IF cancel[o] \/ ~up \/ n \notin there
        THEN Ends(o, IF cancel[o] THEN "cancelled" ELSE "error") /\ UNCHANGED <<todo, dirs>>
        ELSE /\ Goes(o, "stat") /\ UNCHANGED status
             /\ dirs' = [dirs EXCEPT ![o] = @ \cup {<<depth, n>>}]
             /\ todo' = [todo EXCEPT ![o] =
                          SetToSeq({<<m, depth + 1>> : m \in Inside(n) \cap there}) \o Tail(@)]
  /\ UNCHANGED <<cancel, up, server, disturbed>>

(* The files first, then the folders, the deepest first.                   *)
Deepest(o) == {d \in dirs[o] : \A e \in dirs[o] : e[1] <= d[1]}

NextRound(o) ==
  /\ \/ In(o, "stat") /\ todo[o] = <<>> /\ UNCHANGED dirs
        /\ batch' = [batch EXCEPT ![o] = files[o]]
     \/ In(o, "delete") /\ batch[o] = {} /\ flight[o] = {} /\ dirs[o] # {}
        /\ batch' = [batch EXCEPT ![o] = {d[2] : d \in Deepest(o)}]
        /\ dirs' = [dirs EXCEPT ![o] = @ \ Deepest(o)]
  /\ Goes(o, "delete")
  /\ UNCHANGED <<cancel, todo, found, files, flight, failures, status, slots, up, server,
                 disturbed>>

-----------------------------------------------------------------------------
(* delete_remote_paths: tasks with one request each.                       *)

Flies(o, S) == flight' = [flight EXCEPT ![o] = S]

Spawn(o) ==
  /\ In(o, "delete") /\ Cardinality(flight[o]) < Concurrent
  /\ \E n \in batch[o] :
       batch' = [batch EXCEPT ![o] = @ \ {n}] /\ Flies(o, flight[o] \cup {<<n, "waits">>})
  /\ UNCHANGED <<pc, cancel, plan, failures, status, slots, up, server, disturbed>>

(* A slot of the connection; the request goes out.                         *)
Acquire(o) ==
  /\ slots > 0 /\ ~cancel[o]
  /\ \E n \in Node : <<n, "waits">> \in flight[o]
       /\ Flies(o, (flight[o] \ {<<n, "waits">>}) \cup {<<n, "asks">>}) /\ slots' = slots - 1
  /\ UNCHANGED <<pc, cancel, plan, batch, failures, status, up, server, disturbed>>

Answered(o, n, how) ==
  /\ Flies(o, (flight[o] \ {<<n, "asks">>}) \cup {<<n, how>>}) /\ slots' = slots + 1

(* The server carries it out, or refuses for reasons of its own.           *)
Request(o) ==
  /\ up /\ ~cancel[o]
  /\ \E n \in Node :
       /\ <<n, "asks">> \in flight[o]
       /\ \/ /\ Answered(o, n, Outcome(n)) /\ UNCHANGED disturbed
             /\ IF Outcome(n) = "removed" THEN there' = there \ {n} /\ gone' = gone \cup {<<o, n>>}
                ELSE UNCHANGED <<there, gone>>
          \/ Answered(o, n, "failed") /\ disturbed' = disturbed \cup {n} /\ UNCHANGED <<there, gone>>
  /\ UNCHANGED <<pc, cancel, plan, batch, failures, status, up, stray>>

(* Cancelled or cut off, a request that went out may still be carried out. *)
Interrupt(o) ==
  /\ cancel[o] \/ ~up
  /\ \E f \in flight[o] :
       /\ f[2] \in {"waits", "asks"} /\ (f[2] = "waits" => cancel[o])
       /\ Flies(o, (flight[o] \ {f}) \cup {<<f[1], IF cancel[o] THEN "cancelled" ELSE "network">>})
       /\ slots' = IF f[2] = "asks" THEN slots + 1 ELSE slots
       /\ stray' = IF f[2] = "asks" THEN stray \cup {<<o, f[1]>>} ELSE stray
  /\ UNCHANGED <<pc, cancel, plan, batch, failures, status, up, there, gone, disturbed>>

(* The next task is joined.  A cancel or a lost connection ends it all and *)
(* aborts the other tasks; what else fails is counted.                     *)
Asks(o) == {f \in flight[o] : f[2] = "asks"}
Freed(o) == slots + Cardinality(Asks(o))
Join(o) ==
  /\ In(o, "delete") /\ UNCHANGED <<cancel, plan, up, there, gone, disturbed>>
  /\ \E f \in flight[o] :
       \/ /\ f[2] \in {"cancelled", "network"}
          /\ Ends(o, IF f[2] = "cancelled" THEN "cancelled" ELSE "error")
          /\ Flies(o, {}) /\ slots' = Freed(o)
          /\ stray' = stray \cup {<<o, g[1]>> : g \in Asks(o)} /\ UNCHANGED <<batch, failures>>
       \/ /\ f[2] \in {"removed", "not found", "failed"} /\ Flies(o, flight[o] \ {f})
          /\ failures' = [failures EXCEPT ![o] = IF f[2] = "failed" THEN @ + 1 ELSE @]
          /\ UNCHANGED <<pc, status, batch, slots, stray>>

Finish(o) ==
  /\ In(o, "delete") /\ batch[o] = {} /\ flight[o] = {} /\ dirs[o] = {}
  /\ Ends(o, IF failures[o] = 0 THEN "done" ELSE "error")
  /\ UNCHANGED <<cancel, plan, batch, flight, failures, slots, up, server, disturbed>>

(* delete_local: one path after the other, each with all that is in it.    *)
RemoveLocal(o) ==
  /\ In(o, "local") /\ UNCHANGED <<cancel, found, files, dirs, batch, flight, slots, up, stray>>
  /\ IF todo[o] = <<>>
     THEN Ends(o, IF failures[o] = 0 THEN "done" ELSE "error")
          /\ UNCHANGED <<todo, failures, there, gone, disturbed>>
     ELSE IF cancel[o] THEN Ends(o, "cancelled") /\ UNCHANGED <<todo, failures, there, gone, disturbed>>
     ELSE LET n == Head(todo[o])[1]
              all == Under[n] \cap there
          IN /\ todo' = [todo EXCEPT ![o] = Tail(@)] /\ UNCHANGED <<pc, status>>
             /\ \/ /\ there' = there \ all /\ gone' = gone \cup ({o} \X all)
                   /\ UNCHANGED <<failures, disturbed>>
                \/ \E part \in SUBSET (all \ {n}) :    \* it fails half-way
                     /\ n \in there /\ there' = there \ part /\ gone' = gone \cup ({o} \X part)
                     /\ failures' = [failures EXCEPT ![o] = @ + 1]
                     /\ disturbed' = disturbed \cup {n}

-----------------------------------------------------------------------------
(* fs_delete_cancel, the connection, and others.                           *)

Cancel(o) ==
  /\ ~In(o, "over") /\ ~cancel[o] /\ cancel' = [cancel EXCEPT ![o] = TRUE]
  /\ UNCHANGED <<pc, plan, batch, flight, failures, status, slots, up, server, disturbed>>

ConnectionLost ==
  /\ up /\ up' = FALSE
  /\ UNCHANGED <<pc, cancel, plan, batch, flight, failures, status, slots, server, disturbed>>

StrayRequest ==
  /\ \E s \in stray :
       /\ stray' = stray \ {s}
       /\ IF Outcome(s[2]) = "removed" THEN there' = there \ {s[2]} /\ gone' = gone \cup {s}
          ELSE UNCHANGED <<there, gone>>
  /\ UNCHANGED <<pc, cancel, plan, batch, flight, failures, status, slots, up, disturbed>>

(* Others create something, or put back what was deleted.                  *)
OtherCreates ==
  /\ \E n \in (Late \cup {g[2] : g \in gone}) \ (disturbed \cup there) :
       /\ (n \in DOMAIN Parent => Parent[n] \in there)
       /\ there' = there \cup {n} /\ disturbed' = disturbed \cup {n}
  /\ UNCHANGED <<pc, cancel, plan, batch, flight, failures, status, slots, up, stray, gone>>

Next ==
  \/ ConnectionLost \/ StrayRequest \/ OtherCreates
  \/ \E o \in Op :
       \/ Begin(o) \/ Stat(o) \/ ReadDir(o) \/ NextRound(o) \/ Spawn(o) \/ Acquire(o)
       \/ Request(o) \/ Interrupt(o) \/ Join(o) \/ Finish(o) \/ RemoveLocal(o) \/ Cancel(o)

Spec == Init /\ [][Next]_vars

-----------------------------------------------------------------------------
TypeOK ==
  /\ there \subseteq Node /\ stray \subseteq Op \X Node /\ slots \in 0 .. Concurrent
  /\ \A o \in Op :
       /\ pc[o] \in {"begin", "stat", "list", "delete", "local", "over"}
       /\ status[o] \in {"active", "done", "error", "cancelled"}
       /\ Cardinality(flight[o]) <= Concurrent /\ found[o] \in 0 .. MaxEntries

(* Whatever operations overlap and others do, one that says done has       *)
(* removed all that was marked, unless it was put back.                    *)
DoneMeansGone ==
  \A o \in Op : status[o] = "done" => Roots(o) \cap there \subseteq disturbed

(* Nothing is removed beside what was marked, not even through a link.     *)
Marked(o) == UNION {Under[n] : n \in Roots(o)}
NothingElse == \A g \in gone : g[2] \in Marked(g[1])

(* One that says error had a reason other than its own order of requests:  *)
(* a refusal, a lost connection, too many items, or somebody else.         *)
ErrorHasCause ==
  \A o \in Op : status[o] = "error" =>
    \/ disturbed # {} \/ ~up \/ (found[o] = MaxEntries /\ todo[o] # <<>>)
    \/ \E g \in gone : g[1] # o /\ g[2] \in Marked(o)

(* When no operation runs all slots of the connection are free.            *)
SlotsComeBack == (\A o \in Op : In(o, "over")) => slots = Concurrent
=============================================================================
