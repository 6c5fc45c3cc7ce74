------------------------- MODULE ObjectStoresProofs -------------------------
(***************************************************************************)
(* Theorems about the versions in a store: what pruning leaves, what a     *)
(* listing over several pages finds, and what becomes of refresh tokens,   *)
(* for any number of devices that list, upload, prune and clear at once.   *)
(***************************************************************************)
EXTENDS ObjectStores, FiniteSetTheorems, TLAPS

ListPc == {"list", "relist", "list all"}
Pc == ListPc \cup {"idle", "pull", "merge", "export", "save", "folder", "put", "prune", "clear"}
OpRecord ==
  [kind : {"none", "sync", "restore", "versions", "connect", "force"}, pc : Pc,
   token : 0 .. MaxTokens, cursor : Int, page : Nat, found : SUBSET Nat, since : SUBSET Nat,
   todo : SUBSET Nat, name : Nat]

-----------------------------------------------------------------------------
(* The inductive invariant.                                                *)

Types ==
  /\ store \subseteq 0 .. named /\ named \in 0 .. MaxNames /\ folder \in BOOLEAN
  /\ conn \in [Device -> 0 .. MaxTokens] /\ slot \in [Device -> 0 .. MaxTokens]
  /\ issued \in [Device -> 1 .. MaxTokens] /\ dropped \subseteq Device
  /\ uploaded \subseteq 1 .. named /\ cleared \in 0 .. named
  /\ op \in [Device -> OpRecord]

NewerIn(up, v) == {w \in up : w > v}

(* The store: what is not there any more was not among the newest.  What   *)
(* was named since versions were last cleared is what was uploaded since.  *)
StoreOK ==
  /\ store # {} => folder
  /\ \A v \in uploaded : v > cleared
  /\ \A v \in store : v > cleared => v \in uploaded
  /\ \A v \in uploaded : Cardinality(NewerIn(uploaded, v)) < Keep => v \in store

(* An operation: what it has found, what it has yet to find, and what it   *)
(* may delete.                                                             *)
Superseded(v, up, cl) == v <= cl \/ Cardinality(NewerIn(up, v)) >= Keep

OpOK(o, st, up, cl, n) ==
  /\ o.found \subseteq 0 .. n /\ o.todo \subseteq 1 .. n /\ o.name <= n
  /\ o.since \subseteq st /\ (Foreign \in o.found => Foreign \in st)
  /\ \A v \in o.found : v > cl => v \in up
  /\ o.pc \in ListPc => \A v \in o.since : v <= o.cursor => v \in o.found
  /\ o.pc \in {"pull", "prune", "clear"} => Versions(o.since) \subseteq o.found
  /\ o.pc \in {"prune", "clear"} => o.todo # {}
  /\ o.pc = "prune" => \A v \in o.todo : Superseded(v, up, cl)
  /\ o.pc \in {"folder", "put"} => o.name > 0

OpsOK == \A d \in Device : OpOK(op[d], store, uploaded, cleared, named)

(* An operation goes on with the newest token of its device, and leaves it *)
(* in one place.                                                           *)
TokenOK(d) ==
  /\ conn[d] # 0 => slot[d] = 0
  /\ op[d].pc # "idle" => op[d].token # 0
  /\ d \notin dropped =>
       IF op[d].pc = "idle" THEN issued[d] \in {conn[d], slot[d]} ELSE op[d].token = issued[d]

TokensOK == \A d \in Device : TokenOK(d)

TokenTypes ==
  /\ conn \in [Device -> 0 .. MaxTokens] /\ slot \in [Device -> 0 .. MaxTokens]
  /\ issued \in [Device -> 1 .. MaxTokens] /\ dropped \subseteq Device

Inv == Types /\ StoreOK /\ OpsOK /\ TokensOK

-----------------------------------------------------------------------------
(* Sets of numbers.                                                        *)

LEMMA ConstantsAre ==
  ASSUME ObjectStoresAssumption
  PROVE  /\ Keep \in Nat \ {0} /\ PageSize \in Nat \ {0} /\ MaxPages \in Nat \ {0}
         /\ MaxNames \in Nat \ {0} /\ MaxTokens \in Nat \ {0}
  BY DEF ObjectStoresAssumption

LEMMA BoundedMax ==
  ASSUME NEW S \in SUBSET Nat, S # {}, NEW b \in Nat, \A n \in S : n <= b
  PROVE  \E m \in S : \A n \in S : n <= m
  <1> DEFINE T == {n \in Nat : \A k \in S : k <= n}
             R == OpToRel(<, Nat)
  <1>1. T \subseteq Nat /\ T # {}
    OBVIOUS
  <1>2. PICK m \in T : \A n \in T : ~ (<<n, m>> \in R)
    <2>1. IsWellFoundedOn(R, Nat)
      BY NatLessThanWellFounded
    <2> HIDE DEF R, T
    <2>2. QED
      BY <1>1, <2>1, WFMin
  <1>3. \A n \in T : ~ (n < m)
    BY <1>1, <1>2 DEF OpToRel
  <1>4. CASE m \in S
    BY <1>4
  <1>5. CASE m \notin S
    <2>1. \A k \in S : k \in Nat /\ m \in Nat /\ k < m
      BY <1>5
    <2>2. PICK k \in S : TRUE
      OBVIOUS
    <2>3. m - 1 \in Nat
      BY <2>1, <2>2
    <2>4. \A n \in S : n <= m - 1
      BY <2>1
    <2>5. QED
      BY <1>3, <2>3, <2>4
  <1>6. QED
    BY <1>4, <1>5

LEMMA NewestIs ==
  ASSUME NEW n \in Nat, NEW S, S \subseteq 0 .. n, S # {}
  PROVE  Newest(S) \in S /\ \A w \in S : w <= Newest(S)
  <1>1. PICK T : T = S
    OBVIOUS
  <1>2. T \in SUBSET Nat /\ T # {} /\ \A m \in T : m <= n
    BY <1>1
  <1>3. \E m \in T : \A w \in T : w <= m
    BY <1>2, BoundedMax
  <1>4. QED
    BY <1>1, <1>3 DEF Newest

LEMMA NewerFinite ==
  ASSUME NEW n \in Nat, NEW S, S \subseteq 0 .. n
  PROVE  /\ IsFiniteSet(S)
         /\ \A v : IsFiniteSet(NewerIn(S, v)) /\ Cardinality(NewerIn(S, v)) \in Nat
  <1>1. IsFiniteSet(0 .. n)
    BY FS_Interval
  <1>2. \A T : T \subseteq 0 .. n => IsFiniteSet(T) /\ Cardinality(T) \in Nat
    BY <1>1, FS_Subset, FS_CardinalityType
  <1>3. \A v : NewerIn(S, v) \subseteq 0 .. n
    BY DEF NewerIn
  <1>4. QED
    BY <1>2, <1>3

LEMMA NewerGrow ==
  ASSUME NEW n \in Nat, NEW S, S \subseteq 0 .. n, NEW R, R \subseteq S, NEW v
  PROVE  /\ Cardinality(NewerIn(R, v)) \in Nat /\ Cardinality(NewerIn(S, v)) \in Nat
         /\ Cardinality(NewerIn(R, v)) <= Cardinality(NewerIn(S, v))
  <1>1. NewerIn(R, v) \subseteq NewerIn(S, v) /\ R \subseteq 0 .. n
    BY DEF NewerIn
  <1>2. QED
    BY <1>1, NewerFinite, FS_Subset

-----------------------------------------------------------------------------
(* Operations while the store changes.                                     *)

LEMMA OpGrows ==
  ASSUME ObjectStoresAssumption, NEW o \in OpRecord, NEW st, NEW st2, NEW up, NEW up2, NEW cl,
         NEW n \in Nat, NEW n2 \in Nat, n <= n2, st \subseteq st2, up \subseteq up2,
         up2 \subseteq 0 .. n2, OpOK(o, st, up, cl, n)
  PROVE  OpOK(o, st2, up2, cl, n2)
  <1>1. ASSUME NEW v, Superseded(v, up, cl) PROVE Superseded(v, up2, cl)
    <2>1. /\ Cardinality(NewerIn(up, v)) \in Nat /\ Cardinality(NewerIn(up2, v)) \in Nat
          /\ Cardinality(NewerIn(up, v)) <= Cardinality(NewerIn(up2, v))
      BY NewerGrow
    <2>2. Keep \in Nat
      BY ConstantsAre
    <2>3. QED
      BY <1>1, <2>1, <2>2 DEF Superseded
  <1>2. o.name \in Nat
    BY DEF OpRecord
  <1>3. QED
    BY <1>1, <1>2 DEF OpOK

LEMMA IdleOK ==
  ASSUME ObjectStoresAssumption, NEW st, NEW up, NEW cl, NEW n \in Nat
  PROVE  Idle \in OpRecord /\ OpOK(Idle, st, up, cl, n)
  BY ConstantsAre DEF Idle, OpRecord, Pc, ListPc, OpOK

(* One operation gets on, while the store at most grows.                   *)
LEMMA OpsGrow ==
  ASSUME ObjectStoresAssumption, Inv, NEW d \in Device, NEW o \in OpRecord, Sets(d, o),
         store \subseteq store', uploaded \subseteq uploaded', uploaded' \subseteq 0 .. named',
         cleared' = cleared, named' \in Nat, named <= named',
         OpOK(o, store', uploaded', cleared', named')
  PROVE  op' \in [Device -> OpRecord] /\ OpsOK'
  <1>1. op \in [Device -> OpRecord] /\ named \in Nat
    BY DEF Inv, Types
  <1>2. op' \in [Device -> OpRecord] /\ op'[d] = o /\ \A e \in Device \ {d} : op'[e] = op[e]
    BY <1>1 DEF Sets
  <1>3. ASSUME NEW e \in Device PROVE OpOK(op'[e], store', uploaded', cleared', named')
    <2>1. CASE e = d
      BY <1>2, <2>1
    <2>2. CASE e # d
      <3>1. OpOK(op[e], store, uploaded, cleared, named) /\ op[e] \in OpRecord
        BY <1>1 DEF Inv, OpsOK
      <3>2. OpOK(op[e], store', uploaded', cleared, named')
        BY <1>1, <3>1, OpGrows
      <3>3. QED
        BY <1>2, <2>2, <3>2
    <2>3. QED
      BY <2>1, <2>2
  <1>4. QED
    BY <1>2, <1>3 DEF OpsOK

LEMMA Quietly ==
  ASSUME ObjectStoresAssumption, Inv, NEW d \in Device, NEW o \in OpRecord, Sets(d, o),
         UNCHANGED <<remote, named>>, OpOK(o, store, uploaded, cleared, named),
         TokenTypes', TokensOK'
  PROVE  Inv'
  <1>1. UNCHANGED <<store, folder, uploaded, cleared, named>>
    BY DEF remote
  <1>2. named \in Nat /\ uploaded \subseteq 0 .. named
    BY ConstantsAre DEF Inv, Types
  <1>3. op' \in [Device -> OpRecord] /\ OpsOK'
    BY <1>1, <1>2, OpsGrow
  <1>4. StoreOK'
    BY <1>1 DEF Inv, StoreOK
  <1>5. Types'
    BY <1>1, <1>3 DEF Inv, Types, TokenTypes
  <1>6. QED
    BY <1>3, <1>4, <1>5 DEF Inv

-----------------------------------------------------------------------------
(* The tokens.  t is the token an operation knows after a request.         *)

Knows(d, t) ==
  /\ t \in 1 .. MaxTokens
  /\ issued' \in [Device -> 1 .. MaxTokens]
  /\ \A e \in Device \ {d} : issued'[e] = issued[e]
  /\ d \notin dropped => t = issued'[d]

LEMMA AuthorizedKnows ==
  ASSUME ObjectStoresAssumption, Inv, NEW d \in Device, ~Is(d, "idle"),
         NEW t \in 1 .. MaxTokens, Authorized(d, t)
  PROVE  Knows(d, t)
  BY ConstantsAre DEF Inv, Types, TokensOK, TokenOK, Authorized, Knows, Is

LEMMA StillKnows ==
  ASSUME ObjectStoresAssumption, Inv, NEW d \in Device, issued' = issued
  PROVE  /\ Knows(d, issued[d])
         /\ ~Is(d, "idle") => Knows(d, op[d].token)
  <1>1. op[d].token \in 0 .. MaxTokens /\ issued \in [Device -> 1 .. MaxTokens]
    BY DEF Inv, Types, OpRecord
  <1>2. QED
    BY <1>1, ConstantsAre DEF Inv, TokensOK, TokenOK, Knows, Is

LEMMA Ends ==
  ASSUME ObjectStoresAssumption, Inv, NEW d \in Device, NEW t, Knows(d, t),
         Saves(d, t) \/ GivesUp(d)
  PROVE  Sets(d, Idle) /\ TokenTypes' /\ TokensOK'
  <1>1. /\ conn \in [Device -> 0 .. MaxTokens] /\ slot \in [Device -> 0 .. MaxTokens]
        /\ dropped \subseteq Device /\ op \in [Device -> OpRecord]
    BY DEF Inv, Types
  <1>2. t \in 0 .. MaxTokens /\ 0 \in 0 .. MaxTokens
    BY ConstantsAre DEF Knows
  <1>3. Sets(d, Idle)
    BY DEF Saves, GivesUp
  <1>4. op'[d] = Idle /\ \A e \in Device \ {d} : op'[e] = op[e]
    BY <1>1, <1>3 DEF Sets
  <1>5. TokenTypes'
    BY <1>1, <1>2 DEF Saves, GivesUp, TokenTypes, Knows
  <1>6. ASSUME NEW e \in Device, e # d PROVE TokenOK(e)'
    <2>1. conn'[e] = conn[e] /\ slot'[e] = slot[e] /\ issued'[e] = issued[e]
          /\ (e \in dropped' <=> e \in dropped)
      BY <1>1, <1>6 DEF Saves, GivesUp, Knows
    <2>2. QED
      BY <1>4, <1>6, <2>1 DEF Inv, TokensOK, TokenOK
  <1>7. TokenOK(d)'
    <2>1. CASE Saves(d, t)
      <3>1. conn'[d] = t /\ slot'[d] = 0 /\ (d \notin dropped' => t = issued'[d])
        BY <1>1, <2>1 DEF Saves, Knows
      <3>2. QED
        BY <1>4, <3>1 DEF TokenOK, Idle
    <2>2. CASE GivesUp(d)
      <3>1. conn' = conn /\ slot' = slot
            /\ (d \notin dropped' => issued'[d] \in {conn[d], slot[d]})
        BY <2>2 DEF GivesUp
      <3>2. QED
        BY <1>4, <3>1 DEF TokenOK, Idle, Inv, TokensOK
    <2>3. QED
      BY <2>1, <2>2
  <1>8. QED
    BY <1>3, <1>5, <1>6, <1>7 DEF TokensOK

LEMMA GoesOn ==
  ASSUME ObjectStoresAssumption, Inv, NEW d \in Device, NEW t, Knows(d, t),
         op' \in [Device -> OpRecord], \A e \in Device \ {d} : op'[e].pc = op[e].pc,
         \A e \in Device \ {d} : op'[e].token = op[e].token,
         op'[d].pc # "idle", op'[d].token = t, UNCHANGED saved
  PROVE  TokenTypes' /\ TokensOK'
  <1>1. conn' = conn /\ slot' = slot /\ dropped' = dropped
    BY DEF saved
  <1>2. TokenTypes'
    BY <1>1 DEF Inv, Types, TokenTypes, Knows
  <1>3. QED
    BY <1>1, <1>2 DEF Inv, TokensOK, TokenOK, Knows

(* An operation ends, or gets on, and the store is what it was.            *)
LEMMA EndsQuietly ==
  ASSUME ObjectStoresAssumption, Inv, NEW d \in Device, NEW t, Knows(d, t),
         Saves(d, t) \/ GivesUp(d), UNCHANGED <<remote, named>>
  PROVE  Inv'
  <1>1. Sets(d, Idle) /\ TokenTypes' /\ TokensOK'
    BY Ends
  <1>2. named \in Nat
    BY ConstantsAre DEF Inv, Types
  <1>3. Idle \in OpRecord /\ OpOK(Idle, store, uploaded, cleared, named)
    BY <1>2, IdleOK
  <1>4. QED
    BY <1>1, <1>3, Quietly

LEMMA FailsQuietly ==
  ASSUME ObjectStoresAssumption, Inv, NEW d \in Device, NEW t, Knows(d, t), Fails(d, t),
         UNCHANGED <<remote, named>>
  PROVE  Inv'
  BY EndsQuietly DEF Fails

LEMMA GoesOnQuietly ==
  ASSUME ObjectStoresAssumption, Inv, NEW d \in Device, NEW t, Knows(d, t), NEW o \in OpRecord,
         Sets(d, o), o.pc # "idle", o.token = t, OpOK(o, store, uploaded, cleared, named),
         UNCHANGED <<remote, named>>, UNCHANGED saved
  PROVE  Inv'
  <1>1. op' \in [Device -> OpRecord] /\ op'[d] = o /\ \A e \in Device \ {d} : op'[e] = op[e]
    BY DEF Inv, Types, Sets
  <1>2. TokenTypes' /\ TokensOK'
    BY <1>1, GoesOn
  <1>3. QED
    BY <1>2, Quietly

-----------------------------------------------------------------------------
(* The steps that leave the store alone.                                   *)

LEMMA OpIs ==
  ASSUME ObjectStoresAssumption, Inv, NEW d \in Device
  PROVE  /\ op[d] \in OpRecord /\ OpOK(op[d], store, uploaded, cleared, named)
         /\ named \in Nat /\ store \subseteq 0 .. named /\ uploaded \subseteq 0 .. named
         /\ cleared \in Nat
  BY ConstantsAre DEF Inv, Types, OpsOK

Started(kind, pc, t, st) ==
  [kind |-> kind, pc |-> pc, token |-> t, cursor |-> -1, page |-> 0, found |-> {},
   since |-> st, todo |-> {}, name |-> 0]

LEMMA ListingIs ==
  ASSUME NEW kind, NEW pc, NEW t
  PROVE  [Listing(kind, t, Idle) EXCEPT !.pc = pc] = Started(kind, pc, t, store)
  <1>1. Listing(kind, t, Idle) = Started(kind, "idle", t, store)
    <2>1. Idle = Started("none", "idle", 0, {})
      BY DEF Idle, Started
    <2>2. [Started("none", "idle", 0, {}) EXCEPT !.kind = kind] = Started(kind, "idle", 0, {})
      BY DEF Started
    <2>3. [Started(kind, "idle", 0, {}) EXCEPT !.token = t] = Started(kind, "idle", t, {})
      BY DEF Started
    <2>4. [Started(kind, "idle", t, {}) EXCEPT !.cursor = -1] = Started(kind, "idle", t, {})
      BY DEF Started
    <2>5. [Started(kind, "idle", t, {}) EXCEPT !.page = 0] = Started(kind, "idle", t, {})
      BY DEF Started
    <2>6. [Started(kind, "idle", t, {}) EXCEPT !.found = {}] = Started(kind, "idle", t, {})
      BY DEF Started
    <2>7. [Started(kind, "idle", t, {}) EXCEPT !.since = store] = Started(kind, "idle", t, store)
      BY DEF Started
    <2>8. QED
      BY <2>1, <2>2, <2>3, <2>4, <2>5, <2>6, <2>7, Zenon DEF Listing
  <1>2. [Started(kind, "idle", t, store) EXCEPT !.pc = pc] = Started(kind, pc, t, store)
    BY DEF Started
  <1>3. QED
    BY <1>1, <1>2

LEMMA ListingOK ==
  ASSUME ObjectStoresAssumption, NEW t \in 0 .. MaxTokens, NEW pc \in ListPc,
         NEW kind \in {"sync", "restore", "versions", "connect", "force"},
         NEW n \in Nat, NEW st \in SUBSET (0 .. n), NEW up \in SUBSET Nat,
         NEW cl \in Nat
  PROVE  /\ Started(kind, pc, t, st) \in OpRecord
         /\ OpOK(Started(kind, pc, t, st), st, up, cl, n)
         /\ Started(kind, pc, t, st).pc = pc /\ Started(kind, pc, t, st).token = t
  <1>1. st \in SUBSET Nat /\ -1 \in Int /\ pc \in Pc
    BY DEF Pc
  <1>2. Started(kind, pc, t, st) \in OpRecord
    BY <1>1 DEF OpRecord, Started
  <1>3. \A v \in st : ~(v <= -1)
    OBVIOUS
  <1>4. OpOK(Started(kind, pc, t, st), st, up, cl, n)
    <2>1. PICK o : o = Started(kind, pc, t, st)
      OBVIOUS
    <2>2. /\ o.pc = pc /\ o.cursor = -1 /\ o.found = {} /\ o.since = st /\ o.todo = {}
          /\ o.name = 0
      BY <2>1 DEF Started
    <2>3. \A v \in o.since : ~(v <= o.cursor)
      BY <1>3, <2>2
    <2>4. pc \notin {"pull", "prune", "clear", "folder", "put"}
      BY DEF ListPc
    <2>5. OpOK(o, st, up, cl, n)
      BY <2>2, <2>3, <2>4 DEF OpOK
    <2>6. QED
      BY <2>1, <2>5
  <1>5. QED
    BY <1>2, <1>4 DEF Started

LEMMA BeginOK ==
  ASSUME ObjectStoresAssumption, Inv, NEW d \in Device, Begin(d)
  PROVE  Inv'
  <1>1. UNCHANGED <<remote, named>> /\ UNCHANGED saved /\ issued' = issued
    BY DEF Begin, remote, saved
  <1>2. /\ conn[d] \in 0 .. MaxTokens /\ slot[d] \in 0 .. MaxTokens
        /\ issued[d] \in 1 .. MaxTokens /\ op[d].pc = "idle"
        /\ conn[d] # 0 => slot[d] = 0
        /\ d \notin dropped => issued[d] \in {conn[d], slot[d]}
    BY DEF Inv, Types, TokensOK, TokenOK, Begin, Is
  <1>3. PICK t \in {conn[d], slot[d]} :
          /\ t # 0
          /\ d \notin dropped => t = issued[d]
          /\ \E kind \in {"sync", "restore", "versions", "connect", "force"} :
               Sets(d, [Listing(kind, t, Idle) EXCEPT !.pc = "list"])
    BY <1>2, ConstantsAre DEF Begin
  <1>4. Knows(d, t)
    BY <1>1, <1>2, <1>3, ConstantsAre DEF Knows, Inv, Types
  <1>5. PICK kind \in {"sync", "restore", "versions", "connect", "force"} :
          Sets(d, [Listing(kind, t, Idle) EXCEPT !.pc = "list"])
    BY <1>3
  <1>6. PICK o : o = Started(kind, "list", t, store)
    OBVIOUS
  <1>7. /\ o \in OpRecord /\ o.pc = "list" /\ o.token = t
        /\ OpOK(o, store, uploaded, cleared, named)
    <2>1. t \in 0 .. MaxTokens /\ store \subseteq 0 .. named /\ named \in Nat
      BY <1>2, OpIs
    <2>2. "list" \in ListPc
      BY DEF ListPc
    <2>3. /\ Started(kind, "list", t, store) \in OpRecord
          /\ Started(kind, "list", t, store).pc = "list"
          /\ Started(kind, "list", t, store).token = t
          /\ OpOK(Started(kind, "list", t, store), store, uploaded, cleared, named)
      <3>1. uploaded \in SUBSET Nat /\ cleared \in Nat /\ store \in SUBSET (0 .. named)
        BY <2>1, OpIs
      <3>2. QED
        <4>1. PICK pc \in ListPc : pc = "list"
          BY <2>2
        <4>2. /\ Started(kind, pc, t, store) \in OpRecord
              /\ OpOK(Started(kind, pc, t, store), store, uploaded, cleared, named)
          BY <2>1, <3>1, ListingOK
        <4>3. QED
          BY <4>1, <4>2 DEF Started
    <2>4. QED
      BY <1>6, <2>3
  <1>8. Sets(d, o)
    BY <1>5, <1>6, ListingIs
  <1>9. QED
    BY <1>1, <1>4, <1>7, <1>8, GoesOnQuietly

(* After a listing an operation goes on to one of these.                   *)
LEMMA AdvanceOK ==
  ASSUME ObjectStoresAssumption, Inv, NEW d \in Device, NEW t, Knows(d, t),
         NEW pc \in {"merge", "export", "save"},
         Sets(d, [op[d] EXCEPT !.pc = pc, !.token = t]),
         UNCHANGED <<remote, named>>, UNCHANGED saved
  PROVE  Inv'
  <1>1. PICK o : o = [op[d] EXCEPT !.pc = pc, !.token = t]
    OBVIOUS
  <1>2. t \in 0 .. MaxTokens
    BY ConstantsAre DEF Knows
  <1>3. o \in OpRecord /\ o.pc = pc /\ o.token = t /\ o.found = op[d].found
        /\ o.todo = op[d].todo /\ o.name = op[d].name /\ o.since = op[d].since
    BY <1>1, <1>2, OpIs DEF OpRecord, Pc
  <1>4. OpOK(o, store, uploaded, cleared, named)
    BY <1>3, OpIs DEF OpOK, ListPc
  <1>5. QED
    BY <1>1, <1>3, <1>4, GoesOnQuietly

LEMMA GetsOK ==
  ASSUME ObjectStoresAssumption, Inv, NEW d \in Device, ~Is(d, "idle"), NEW v,
         NEW then \in {"merge", "save"}, Gets(d, v, then)
  PROVE  Inv'
  <1>1. PICK t \in 1 .. MaxTokens :
          /\ Authorized(d, t)
          /\ IF v \in store
             THEN Sets(d, [op[d] EXCEPT !.pc = then, !.token = t]) /\ UNCHANGED saved
             ELSE Fails(d, t)
          /\ UNCHANGED <<provider, remote, named>> /\ UNCHANGED folder
    BY DEF Gets, remote
  <1>2. Knows(d, t)
    BY <1>1, AuthorizedKnows
  <1>3. CASE v \in store
    BY <1>1, <1>2, <1>3, AdvanceOK
  <1>4. CASE v \notin store
    BY <1>1, <1>2, <1>4, FailsQuietly
  <1>5. QED
    BY <1>3, <1>4

(* The requests of an operation that only read, and its end.               *)
LEMMA ReadsOK ==
  ASSUME ObjectStoresAssumption, Inv, NEW d \in Device,
         PullNewest(d) \/ PullOlder(d) \/ PullChosen(d)
  PROVE  Inv'
  <1>0. ~Is(d, "idle")
    BY DEF PullNewest, PullOlder, PullChosen, Is
  <1>1. CASE PullNewest(d)
    BY <1>0, <1>1, GetsOK DEF PullNewest
  <1>2. CASE PullOlder(d)
    BY <1>0, <1>2, GetsOK DEF PullOlder
  <1>3. CASE PullChosen(d)
    <2>1. CASE \E v \in op[d].found : Gets(d, v, "save")
      BY <1>0, <2>1, GetsOK
    <2>2. CASE UNCHANGED <<provider, remote, named, issued>> /\ GivesUp(d)
      BY <2>2, StillKnows, EndsQuietly DEF remote
    <2>3. QED
      BY <1>3, <2>1, <2>2 DEF PullChosen
  <1>4. QED
    BY <1>1, <1>2, <1>3

(* A request of an operation fails.                                        *)
LEMMA RequestFails ==
  ASSUME ObjectStoresAssumption, Inv, NEW d \in Device, ~Is(d, "idle"),
         \E t \in 1 .. MaxTokens : Authorized(d, t) /\ Fails(d, t),
         UNCHANGED <<remote, named>>
  PROVE  Inv'
  BY AuthorizedKnows, FailsQuietly

LEMMA GivesUpQuietly ==
  ASSUME ObjectStoresAssumption, Inv, NEW d \in Device, issued' = issued, GivesUp(d),
         UNCHANGED <<remote, named>>
  PROVE  Inv'
  BY StillKnows, EndsQuietly

(* An operation gets on without a request.                                 *)
LEMMA MovesOn ==
  ASSUME ObjectStoresAssumption, Inv, NEW d \in Device, ~Is(d, "idle"),
         NEW pc \in {"export", "save"}, Sets(d, [op[d] EXCEPT !.pc = pc]),
         issued' = issued, UNCHANGED <<remote, named>>, UNCHANGED saved
  PROVE  Inv'
  <1>1. Knows(d, op[d].token)
    BY StillKnows
  <1>2. [op[d] EXCEPT !.pc = pc] = [op[d] EXCEPT !.pc = pc, !.token = op[d].token]
    BY OpIs DEF OpRecord
  <1>3. QED
    BY <1>1, <1>2, AdvanceOK

LEMMA EndOK ==
  ASSUME ObjectStoresAssumption, Inv, NEW d \in Device,
         Save(d) \/ Quit(d) \/ Import(d) \/ WrongPassphrase(d) \/ TooLarge(d)
  PROVE  Inv'
  <1>0. ~Is(d, "idle")
    BY DEF Save, Quit, Import, WrongPassphrase, TooLarge, Is
  <1>1. CASE Save(d)
    BY <1>0, <1>1, StillKnows, EndsQuietly DEF Save
  <1>2. CASE Quit(d)
    BY <1>2, GivesUpQuietly DEF Quit
  <1>3. CASE Import(d)
    <2>1. CASE Sets(d, [op[d] EXCEPT !.pc = "export"]) /\ UNCHANGED saved
      <3>1. PICK pc \in {"export", "save"} : pc = "export"
        OBVIOUS
      <3>2. Sets(d, [op[d] EXCEPT !.pc = pc]) /\ UNCHANGED saved
        BY <2>1, <3>1
      <3>3. issued' = issued /\ UNCHANGED <<remote, named>>
        BY <1>3 DEF Import
      <3>4. QED
        BY <1>0, <3>2, <3>3, MovesOn
    <2>2. CASE GivesUp(d)
      BY <1>3, <2>2, GivesUpQuietly DEF Import
    <2>3. QED
      BY <1>3, <2>1, <2>2 DEF Import
  <1>4. CASE WrongPassphrase(d)
    BY <1>0, <1>4, RequestFails DEF WrongPassphrase
  <1>5. CASE TooLarge(d)
    BY <1>0, <1>5, RequestFails DEF TooLarge
  <1>6. QED
    BY <1>1, <1>2, <1>3, <1>4, <1>5

(* sync_disconnect.                                                        *)
LEMMA DisconnectOK ==
  ASSUME ObjectStoresAssumption, Inv, NEW d \in Device, Disconnect(d)
  PROVE  Inv'
  <1>1. /\ op' = op /\ UNCHANGED <<remote, named, issued>> /\ op[d].pc = "idle"
        /\ conn' = [conn EXCEPT ![d] = 0] /\ slot' = [slot EXCEPT ![d] = issued[d]]
        /\ dropped' = dropped \ {d}
    BY DEF Disconnect, Is
  <1>2. UNCHANGED <<store, folder, uploaded, cleared, named>>
    BY <1>1 DEF remote
  <1>3. Types'
    BY <1>1, <1>2, ConstantsAre DEF Inv, Types
  <1>4. TokensOK'
    BY <1>1 DEF Inv, Types, TokensOK, TokenOK
  <1>5. StoreOK' /\ OpsOK'
    BY <1>1, <1>2 DEF Inv, StoreOK, OpsOK
  <1>6. QED
    BY <1>3, <1>4, <1>5 DEF Inv

(* A name is given out, or the collection is there now: nothing is         *)
(* uploaded yet.                                                           *)
LEMMA ReadiesOK ==
  ASSUME ObjectStoresAssumption, Inv, NEW d \in Device, ~Is(d, "idle"), NEW o \in OpRecord,
         Sets(d, o), o.pc \in {"folder", "put"}, o.token = op[d].token, o.name > 0,
         o.name <= named', o.found = op[d].found, o.todo = op[d].todo, o.since = op[d].since,
         named' \in Nat, named <= named', named' <= MaxNames,
         folder' \in {folder, TRUE}, UNCHANGED <<store, uploaded, cleared, issued, saved>>
  PROVE  Inv'
  <1>1. Knows(d, op[d].token)
    BY StillKnows
  <1>2. named \in Nat /\ store \subseteq 0 .. named /\ uploaded \subseteq 1 .. named
        /\ cleared \in 0 .. named /\ OpOK(op[d], store, uploaded, cleared, named)
    BY ConstantsAre, OpIs DEF Inv, Types
  <1>3. OpOK(o, store, uploaded, cleared, named')
    <2>1. PICK n \in Nat : n = named' /\ named <= n
      OBVIOUS
    <2>2. o.found \subseteq 0 .. n /\ o.todo \subseteq 1 .. n /\ o.since \subseteq store
      BY <1>2, <2>1 DEF OpOK
    <2>3. (\A v \in o.found : v > cleared => v \in uploaded)
          /\ (Foreign \in o.found => Foreign \in store)
      BY <1>2 DEF OpOK
    <2>4. o.name <= n /\ o.pc \notin ListPc \cup {"pull", "prune", "clear"}
      BY <2>1 DEF ListPc
    <2>5. QED
      BY <2>1, <2>2, <2>3, <2>4 DEF OpOK
  <1>4. op' \in [Device -> OpRecord] /\ OpsOK'
    BY <1>2, <1>3, OpsGrow
  <1>5. op'[d] = o /\ \A e \in Device \ {d} : op'[e] = op[e]
    BY DEF Inv, Types, Sets
  <1>6. TokenTypes' /\ TokensOK'
    BY <1>1, <1>4, <1>5, GoesOn DEF ListPc
  <1>7. StoreOK'
    BY DEF Inv, StoreOK
  <1>8. Types'
    <2>1. store' \subseteq 0 .. named' /\ uploaded' \subseteq 1 .. named'
          /\ cleared' \in 0 .. named' /\ named' \in 0 .. MaxNames
      BY <1>2, ConstantsAre
    <2>2. folder' \in BOOLEAN
      BY DEF Inv, Types
    <2>3. QED
      BY <1>4, <1>6, <2>1, <2>2 DEF Types, TokenTypes
  <1>9. QED
    BY <1>4, <1>6, <1>7, <1>8 DEF Inv

LEMMA ExportOK ==
  ASSUME ObjectStoresAssumption, Inv, NEW d \in Device, Export(d)
  PROVE  Inv'
  <1>0. ~Is(d, "idle") /\ issued' = issued /\ UNCHANGED remote
    BY DEF Export, Is
  <1>1. CASE Sets(d, [op[d] EXCEPT !.pc = "save"]) /\ UNCHANGED <<named, saved>>
    <2>1. PICK pc \in {"export", "save"} : pc = "save"
      OBVIOUS
    <2>2. Sets(d, [op[d] EXCEPT !.pc = pc])
      BY <1>1, <2>1
    <2>3. QED
      BY <1>0, <1>1, <2>2, MovesOn
  <1>2. CASE /\ named < MaxNames /\ named' = named + 1 /\ UNCHANGED saved
             /\ Sets(d, [op[d] EXCEPT !.pc = IF provider = "webdav" THEN "folder" ELSE "put",
                                      !.name = named'])
    <2>1. PICK pc \in {"folder", "put"} : pc = IF provider = "webdav" THEN "folder" ELSE "put"
      OBVIOUS
    <2>2. named \in Nat /\ named' \in Nat /\ named' > 0 /\ MaxNames \in Nat
          /\ named <= named' /\ named' <= MaxNames
      BY <1>2, OpIs, ConstantsAre
    <2>3. PICK o : o = [op[d] EXCEPT !.pc = pc, !.name = named']
      OBVIOUS
    <2>4. o \in OpRecord /\ o.pc = pc /\ o.name = named' /\ o.token = op[d].token
          /\ o.found = op[d].found /\ o.todo = op[d].todo /\ o.since = op[d].since
      BY <2>2, <2>3, OpIs DEF OpRecord, Pc
    <2>5. Sets(d, o)
      BY <1>2, <2>1, <2>3
    <2>6. UNCHANGED <<store, folder, uploaded, cleared>>
      BY <1>0 DEF remote
    <2>7. QED
      BY <1>0, <1>2, <2>2, <2>4, <2>5, <2>6, ReadiesOK
  <1>3. CASE GivesUp(d) /\ UNCHANGED named
    BY <1>0, <1>3, GivesUpQuietly
  <1>4. QED
    BY <1>1, <1>2, <1>3 DEF Export

LEMMA EnsureCollectionOK ==
  ASSUME ObjectStoresAssumption, Inv, NEW d \in Device, EnsureCollection(d)
  PROVE  Inv'
  <1>1. PICK pc \in {"folder", "put"} : pc = "put"
    OBVIOUS
  <1>2. PICK o : o = [op[d] EXCEPT !.pc = pc]
    OBVIOUS
  <1>3. o \in OpRecord /\ o.pc = pc /\ o.name = op[d].name /\ o.token = op[d].token
        /\ o.found = op[d].found /\ o.todo = op[d].todo /\ o.since = op[d].since
    BY <1>2, OpIs DEF OpRecord, Pc
  <1>4. op[d].pc = "folder" /\ Sets(d, o)
    BY <1>1, <1>2 DEF EnsureCollection, Is
  <1>5. named \in Nat /\ named <= MaxNames /\ o.name > 0 /\ o.name <= named /\ ~Is(d, "idle")
    BY <1>3, <1>4, OpIs, ConstantsAre DEF OpOK, Inv, Types, Is
  <1>6. named' \in Nat /\ named <= named' /\ named' <= MaxNames /\ o.name <= named'
    BY <1>5 DEF EnsureCollection
  <1>7. QED
    BY <1>3, <1>4, <1>5, <1>6, ReadiesOK DEF EnsureCollection

-----------------------------------------------------------------------------
(* Uploads.                                                                *)

LEMMA UploadedOK ==
  ASSUME ObjectStoresAssumption, Inv, NEW d \in Device, op[d].pc = "put", Uploaded(d),
         named' = named
  PROVE  /\ StoreOK' /\ store \subseteq store' /\ uploaded \subseteq uploaded'
         /\ store' \subseteq 0 .. named' /\ uploaded' \subseteq 1 .. named'
         /\ folder' \in BOOLEAN /\ cleared' = cleared
  <1>1. /\ named \in Nat /\ store \subseteq 0 .. named /\ uploaded \subseteq 1 .. named
        /\ cleared \in 0 .. named /\ op[d].name \in 1 .. named
    BY OpIs DEF Inv, Types, OpOK, OpRecord
  <1>2. PICK n \in 1 .. named : n = op[d].name
    BY <1>1
  <1>3. /\ store' = store \cup {n} /\ folder' = TRUE /\ cleared' = cleared
        /\ uploaded' = uploaded \cup ({n} \ 0 .. cleared)
    BY <1>2 DEF Uploaded
  <1>4. store' \subseteq 0 .. named /\ uploaded' \subseteq 1 .. named
    BY <1>1, <1>3
  <1>5. ASSUME NEW v \in uploaded', Cardinality(NewerIn(uploaded', v)) < Keep
        PROVE  v \in store'
    <2>1. CASE v = n
      BY <1>3, <2>1
    <2>2. CASE v \in uploaded
      <3>1. uploaded' \subseteq 0 .. named /\ uploaded \subseteq uploaded'
        BY <1>1, <1>3
      <3>2. Cardinality(NewerIn(uploaded, v)) <= Cardinality(NewerIn(uploaded', v))
            /\ Cardinality(NewerIn(uploaded, v)) \in Nat
            /\ Cardinality(NewerIn(uploaded', v)) \in Nat
        BY <1>1, <3>1, NewerGrow
      <3>3. Cardinality(NewerIn(uploaded, v)) < Keep
        BY <1>5, <3>2, ConstantsAre
      <3>4. QED
        BY <1>3, <2>2, <3>3 DEF Inv, StoreOK
    <2>3. QED
      BY <1>3, <2>1, <2>2
  <1>6. \A v \in uploaded' : v > cleared'
    BY <1>1, <1>3 DEF Inv, StoreOK
  <1>7. \A v \in store' : v > cleared' => v \in uploaded'
    BY <1>1, <1>3 DEF Inv, StoreOK
  <1>8. StoreOK'
    BY <1>3, <1>5, <1>6, <1>7 DEF StoreOK
  <1>9. QED
    BY <1>3, <1>4, <1>8

(* The upload has gone through: the operation gets on, or hears of an      *)
(* error.                                                                  *)
LEMMA UploadOK ==
  ASSUME ObjectStoresAssumption, Inv, NEW d \in Device, op[d].pc = "put", Uploaded(d),
         named' = named, NEW o \in OpRecord, Sets(d, o),
         OpOK(o, store', uploaded', cleared', named'), TokenTypes', TokensOK'
  PROVE  Inv'
  <1>1. /\ StoreOK' /\ store \subseteq store' /\ uploaded \subseteq uploaded'
        /\ store' \subseteq 0 .. named' /\ uploaded' \subseteq 1 .. named'
        /\ folder' \in BOOLEAN /\ cleared' = cleared
    BY UploadedOK
  <1>2. named \in 0 .. MaxNames /\ cleared \in 0 .. named /\ MaxNames \in Nat
    BY ConstantsAre DEF Inv, Types
  <1>3. uploaded' \subseteq 0 .. named' /\ named' \in Nat /\ named <= named'
    BY <1>1, <1>2
  <1>4. op' \in [Device -> OpRecord] /\ OpsOK'
    BY <1>1, <1>3, OpsGrow
  <1>5. Types'
    BY <1>1, <1>2, <1>4 DEF Types, TokenTypes
  <1>6. QED
    BY <1>1, <1>4, <1>5 DEF Inv

LEMMA PutOK ==
  ASSUME ObjectStoresAssumption, Inv, NEW d \in Device, Put(d)
  PROVE  Inv'
  <1>1. op[d].pc = "put" /\ Uploaded(d) /\ named' = named /\ UNCHANGED saved /\ ~Is(d, "idle")
    BY DEF Put, Is
  <1>2. PICK t \in 1 .. MaxTokens :
          /\ Authorized(d, t)
          /\ Sets(d, [Listing("sync", t, Idle) EXCEPT !.pc = "relist", !.since = store'])
    BY DEF Put
  <1>3. Knows(d, t)
    BY <1>1, <1>2, AuthorizedKnows
  <1>4. [Listing("sync", t, Idle) EXCEPT !.pc = "relist", !.since = store']
          = Started("sync", "relist", t, store')
    <2>1. [Listing("sync", t, Idle) EXCEPT !.pc = "relist"] = Started("sync", "relist", t, store)
      BY ListingIs
    <2>2. [Listing("sync", t, Idle) EXCEPT !.pc = "relist", !.since = store']
            = [[Listing("sync", t, Idle) EXCEPT !.pc = "relist"] EXCEPT !.since = store']
      BY DEF Listing, Idle
    <2>3. [Started("sync", "relist", t, store) EXCEPT !.since = store']
            = Started("sync", "relist", t, store')
      BY DEF Started
    <2>4. QED
      BY <2>1, <2>2, <2>3
  <1>5. PICK o : o = Started("sync", "relist", t, store')
    OBVIOUS
  <1>6. Sets(d, o)
    BY <1>2, <1>4, <1>5
  <1>7. /\ store' \subseteq 0 .. named' /\ uploaded' \subseteq 1 .. named' /\ cleared' \in Nat
        /\ named' \in Nat
    BY <1>1, UploadedOK, OpIs
  <1>8. /\ o \in OpRecord /\ o.pc = "relist" /\ o.token = t
        /\ OpOK(o, store', uploaded', cleared', named')
    <2>1. PICK pc \in ListPc, kind \in {"sync", "restore", "versions", "connect", "force"} :
            pc = "relist" /\ kind = "sync"
      BY DEF ListPc
    <2>2. PICK n \in Nat, up \in SUBSET Nat, cl \in Nat :
            n = named' /\ up = uploaded' /\ cl = cleared'
      BY <1>7
    <2>5. PICK st \in SUBSET (0 .. n) : st = store'
      BY <1>7, <2>2
    <2>3. t \in 0 .. MaxTokens
      BY ConstantsAre
    <2>4. /\ Started(kind, pc, t, st) \in OpRecord
          /\ OpOK(Started(kind, pc, t, st), st, up, cl, n)
      BY <2>3, ListingOK
    <2>6. o = Started(kind, pc, t, st)
      BY <1>5, <2>1, <2>5
    <2>7. o.pc = "relist" /\ o.token = t
      BY <2>1, <2>6 DEF Started
    <2>8. QED
      BY <2>2, <2>4, <2>5, <2>6, <2>7
  <1>9. op' \in [Device -> OpRecord] /\ op'[d] = o /\ \A e \in Device \ {d} : op'[e] = op[e]
    BY <1>6, <1>8 DEF Inv, Types, Sets
  <1>10. TokenTypes' /\ TokensOK'
    BY <1>1, <1>3, <1>8, <1>9, GoesOn
  <1>11. QED
    BY <1>1, <1>6, <1>8, <1>10, UploadOK

LEMMA CallFailsOK ==
  ASSUME ObjectStoresAssumption, Inv, NEW d \in Device, CallFails(d)
  PROVE  Inv'
  <1>1. ~Is(d, "idle") /\ named' = named
    BY DEF CallFails, Is
  <1>2. PICK t \in 1 .. MaxTokens : Authorized(d, t) /\ Fails(d, t)
    BY DEF CallFails
  <1>3. Knows(d, t)
    BY <1>1, <1>2, AuthorizedKnows
  <1>4. CASE UNCHANGED remote
    BY <1>1, <1>2, <1>3, <1>4, FailsQuietly
  <1>5. CASE Is(d, "put") /\ Uploaded(d)
    <2>1. Sets(d, Idle) /\ TokenTypes' /\ TokensOK'
      BY <1>2, <1>3, Ends DEF Fails
    <2>2. PICK n \in Nat : n = named'
      BY <1>1, OpIs
    <2>3. Idle \in OpRecord /\ OpOK(Idle, store', uploaded', cleared', named')
      BY <2>2, IdleOK
    <2>4. QED
      BY <1>1, <1>5, <2>1, <2>3, UploadOK DEF Is
  <1>6. QED
    BY <1>4, <1>5 DEF CallFails

-----------------------------------------------------------------------------
(* Listings.                                                               *)

LEMMA LeastIs ==
  ASSUME NEW S \in SUBSET Nat, S # {}
  PROVE  \E m \in S : \A n \in S : m <= n
  <1> DEFINE R == OpToRel(<, Nat)
  <1>1. PICK m \in S : \A n \in S : ~ (<<n, m>> \in R)
    <2>1. IsWellFoundedOn(R, Nat)
      BY NatLessThanWellFounded
    <2> HIDE DEF R
    <2>2. QED
      BY <2>1, WFMin
  <1>2. \A n \in S : ~ (n < m)
    BY <1>1 DEF OpToRel
  <1>3. QED
    BY <1>2

(* A page that is not the last has an object, and leaves none out between  *)
(* the cursor and its last one.                                            *)
LEMMA PageIs ==
  ASSUME ObjectStoresAssumption, Inv, NEW c \in Int, PageAfter(c) # Rest(c)
  PROVE  /\ Newest(PageAfter(c)) \in PageAfter(c)
         /\ \A o \in store : o > c /\ o <= Newest(PageAfter(c)) => o \in PageAfter(c)
  <1> DEFINE Before(o) == {p \in Rest(c) : p < o}
  <1>1. named \in Nat /\ store \subseteq 0 .. named /\ PageSize \in Nat \ {0}
    BY OpIs, ConstantsAre DEF Inv, Types
  <1>2. PageAfter(c) = {o \in Rest(c) : Cardinality(Before(o)) < PageSize}
        /\ Rest(c) \subseteq 0 .. named /\ PageAfter(c) \subseteq 0 .. named
    BY <1>1 DEF PageAfter, Rest
  <1>3. \A o : /\ IsFiniteSet(Before(o)) /\ Cardinality(Before(o)) \in Nat
               /\ \A S : S \subseteq Before(o) => /\ Cardinality(S) \in Nat
                                                  /\ Cardinality(S) <= Cardinality(Before(o))
    <2>1. IsFiniteSet(0 .. named)
      BY <1>1, FS_Interval
    <2>2. \A o : Before(o) \subseteq 0 .. named
      BY <1>2
    <2> HIDE DEF Before
    <2>3. \A o : IsFiniteSet(Before(o))
      BY <2>1, <2>2, FS_Subset
    <2>4. QED
      BY <2>3, FS_Subset, FS_CardinalityType
  <1>4. PageAfter(c) # {}
    <2>1. PICK m \in Rest(c) : \A n \in Rest(c) : m <= n
      BY <1>2, LeastIs
    <2>2. Before(m) = {}
      BY <1>2, <2>1
    <2>3. Cardinality(Before(m)) = 0
      BY <2>2, FS_EmptySet
    <2>4. QED
      BY <1>1, <1>2, <2>1, <2>3
  <1>5. Newest(PageAfter(c)) \in PageAfter(c)
    BY <1>1, <1>2, <1>4, NewestIs
  <1>6. ASSUME NEW o \in store, o > c, o <= Newest(PageAfter(c)) PROVE o \in PageAfter(c)
    <2>1. PICK l \in PageAfter(c) : l = Newest(PageAfter(c))
      BY <1>5
    <2>2. o \in Rest(c) /\ o <= l /\ o \in Nat /\ l \in Nat
      BY <1>1, <1>2, <1>6, <2>1 DEF Rest
    <2>3. Before(o) \subseteq Before(l)
      BY <1>2, <2>2
    <2>4. Cardinality(Before(l)) < PageSize
      BY <1>2
    <2>5. Cardinality(Before(o)) \in Nat /\ Cardinality(Before(l)) \in Nat
          /\ Cardinality(Before(o)) <= Cardinality(Before(l))
      <3> HIDE DEF Before
      <3>1. QED
        BY <1>3, <2>3
    <2>6. QED
      BY <1>1, <1>2, <2>2, <2>4, <2>5
  <1>7. QED
    BY <1>5, <1>6

(* What is stale among the versions listed is superseded for good: what    *)
(* was named since versions were last cleared was uploaded since.          *)
LEMMA StaleIs ==
  ASSUME ObjectStoresAssumption, Inv, NEW found, found \subseteq 1 .. named,
         \A v \in found : v > cleared => v \in uploaded
  PROVE  Stale(found) \subseteq found /\ \A v \in Stale(found) : Superseded(v, uploaded, cleared)
  <1>1. named \in Nat /\ cleared \in Nat /\ uploaded \subseteq 0 .. named /\ Keep \in Nat
    BY OpIs, ConstantsAre DEF Inv, Types
  <1>2. ASSUME NEW v \in Stale(found), ~(v <= cleared)
        PROVE  Cardinality(NewerIn(uploaded, v)) >= Keep
    <2>1. v \in found /\ Cardinality({w \in found : w > v}) >= Keep
      BY DEF Stale
    <2>2. v \in Nat /\ v > cleared
      BY <1>1, <1>2, <2>1
    <2>3. {w \in found : w > v} \subseteq NewerIn(uploaded, v)
      <3>1. ASSUME NEW w \in found, w > v PROVE w \in uploaded
        <4>1. w \in Nat
          BY <1>1
        <4>2. w > cleared
          BY <1>1, <2>2, <3>1, <4>1
        <4>3. QED
          BY <4>2
      <3>2. QED
        BY <3>1 DEF NewerIn
    <2>4. IsFiniteSet(NewerIn(uploaded, v)) /\ Cardinality(NewerIn(uploaded, v)) \in Nat
      BY <1>1, NewerFinite
    <2>5. Cardinality({w \in found : w > v}) \in Nat
          /\ Cardinality({w \in found : w > v}) <= Cardinality(NewerIn(uploaded, v))
      BY <2>3, <2>4, FS_Subset, FS_CardinalityType
    <2>6. QED
      BY <1>1, <2>1, <2>4, <2>5
  <1>3. QED
    BY <1>2 DEF Stale, Superseded

LEMMA ListedOK ==
  ASSUME ObjectStoresAssumption, Inv, NEW d \in Device, op[d].pc \in ListPc,
         NEW t, Knows(d, t), NEW S, S \subseteq 0 .. named,
         \A v \in S : v > cleared => v \in uploaded, op[d].since \subseteq S,
         Listed(d, t, S), UNCHANGED <<remote, named>>
  PROVE  Inv'
  <1> DEFINE found == Versions(S)
             next == AfterList(op[d], found)
  <1>1. found \subseteq 1 .. named /\ (\A v \in found : v > cleared => v \in uploaded)
        /\ Versions(op[d].since) \subseteq found /\ Foreign \notin found
    <2>1. \A v \in found : v \in S /\ v # 0
      BY DEF Versions, IsVersion, Foreign
    <2>2. found \subseteq 1 .. named
      <3> HIDE DEF found
      <3>1. \A v \in found : v \in 0 .. named /\ v # 0
        BY <2>1
      <3>2. QED
        BY <3>1, OpIs
    <2>3. Versions(op[d].since) \subseteq found
      BY DEF Versions
    <2>4. QED
      BY <2>1, <2>2, <2>3 DEF Foreign
  <1>2. t \in 0 .. MaxTokens /\ t \in Nat
    BY ConstantsAre DEF Knows
  <1>3. CASE GivesUp(d)
    BY <1>3, EndsQuietly
  <1>4. CASE UNCHANGED saved /\ next = "list all"
             /\ Sets(d, [Listing("force", t, Idle) EXCEPT !.pc = next])
    <2>1. PICK pc \in ListPc, kind \in {"sync", "restore", "versions", "connect", "force"} :
            pc = "list all" /\ kind = "force"
      BY DEF ListPc
    <2>2. PICK n \in Nat, up \in SUBSET Nat, cl \in Nat :
            n = named /\ up = uploaded /\ cl = cleared
      BY OpIs
    <2>3. PICK st \in SUBSET (0 .. n) : st = store
      BY <2>2, OpIs
    <2>4. /\ Started(kind, pc, t, st) \in OpRecord
          /\ OpOK(Started(kind, pc, t, st), st, up, cl, n)
      BY <1>2, ListingOK
    <2>5. Sets(d, Started(kind, pc, t, st))
      BY <1>4, <2>1, <2>3, ListingIs
    <2>6. PICK o : o = Started(kind, pc, t, st)
      OBVIOUS
    <2>7. o.pc = "list all" /\ o.token = t
      BY <2>1, <2>6 DEF Started
    <2>8. OpOK(o, store, uploaded, cleared, named) /\ o \in OpRecord /\ Sets(d, o)
      BY <2>2, <2>3, <2>4, <2>5, <2>6
    <2>9. QED
      BY <1>4, <2>7, <2>8, GoesOnQuietly
  <1>5. ASSUME next # "list all", UNCHANGED saved,
               Sets(d, [op[d] EXCEPT !.pc = next, !.token = t, !.found = found,
                             !.todo = CASE next = "prune" -> Stale(found)
                                        [] next = "clear" -> found
                                        [] OTHER -> {}])
        PROVE  Inv'
    <2>1. /\ next \in {"save", "prune", "clear", "export", "pull"}
          /\ next = "prune" => Stale(found) # {}
          /\ next = "clear" => found # {}
      BY <1>5 DEF AfterList
    <2>2. PICK todo : todo = CASE next = "prune" -> Stale(found)
                               [] next = "clear" -> found
                               [] OTHER -> {}
      OBVIOUS
    <2>3. Stale(found) \subseteq found
          /\ \A v \in Stale(found) : Superseded(v, uploaded, cleared)
      BY <1>1, StaleIs
    <2>4. /\ todo \subseteq found
          /\ next \in {"prune", "clear"} => todo # {}
          /\ next = "prune" => \A v \in todo : Superseded(v, uploaded, cleared)
      <3> HIDE DEF next, found
      <3>1. CASE next = "prune"
        BY <2>1, <2>2, <2>3, <3>1
      <3>2. CASE next = "clear"
        BY <2>1, <2>2, <3>2
      <3>3. CASE next \notin {"prune", "clear"}
        BY <2>2, <3>3
      <3>4. QED
        BY <3>1, <3>2, <3>3
    <2>5. PICK o : o = [op[d] EXCEPT !.pc = next, !.token = t, !.found = found, !.todo = todo]
      OBVIOUS
    <2>6. found \in SUBSET Nat /\ todo \in SUBSET Nat /\ next \in Pc
      <3>1. found \in SUBSET Nat /\ todo \in SUBSET Nat
        BY <1>1, <2>4, OpIs
      <3>2. QED
        BY <2>1, <3>1 DEF Pc
    <2>7. o \in OpRecord /\ o.pc = next /\ o.token = t /\ o.found = found /\ o.todo = todo
          /\ o.name = op[d].name /\ o.since = op[d].since
      <3> HIDE DEF next, found
      <3>1. QED
        BY <1>2, <2>5, <2>6, OpIs DEF OpRecord
    <2>8. OpOK(o, store, uploaded, cleared, named)
      <3> HIDE DEF next, found
      <3>1. found \subseteq 0 .. named /\ todo \subseteq 1 .. named
        BY <1>1, <2>4
      <3>2. op[d].name <= named /\ op[d].since \subseteq store
        BY OpIs DEF OpOK
      <3>3. next \notin ListPc \cup {"folder", "put"}
        BY <2>1 DEF ListPc
      <3>4. QED
        BY <1>1, <2>4, <2>7, <3>1, <3>2, <3>3 DEF OpOK
    <2>9. next # "idle" /\ Sets(d, o)
      BY <1>5, <2>1, <2>2, <2>5
    <2>10. QED
      BY <1>5, <2>7, <2>8, <2>9, GoesOnQuietly
  <1>6. QED
    BY <1>3, <1>4, <1>5 DEF Listed

LEMMA NextPageOK ==
  ASSUME ObjectStoresAssumption, Inv, NEW d \in Device, op[d].pc \in ListPc,
         NEW t, Knows(d, t), NextPage(d, t), UNCHANGED <<remote, named>>
  PROVE  Inv'
  <1> DEFINE page == PageAfter(op[d].cursor)
             found == op[d].found \cup page
  <1>1. /\ op[d].cursor \in Int /\ op[d].page \in Nat /\ op[d].found \subseteq 0 .. named
        /\ store \subseteq 0 .. named /\ named \in Nat /\ op[d].since \subseteq store
        /\ \A v \in op[d].since : v <= op[d].cursor => v \in op[d].found
        /\ \A v \in op[d].found : v > cleared => v \in uploaded
        /\ Foreign \in op[d].found => Foreign \in store
    BY OpIs DEF OpRecord, OpOK
  <1>2. page \subseteq store /\ found \subseteq 0 .. named
        /\ (\A v \in found : v > cleared => v \in uploaded)
        /\ (Foreign \in found => Foreign \in store)
    BY <1>1 DEF PageAfter, Rest, Inv, StoreOK
  <1>3. \A v \in op[d].since : v \in store /\ (v > op[d].cursor \/ v \in op[d].found)
    <2>1. PICK c \in Int : c = op[d].cursor
      BY <1>1
    <2>2. \A v \in store : v <= c \/ v > c
      BY <1>1
    <2>3. QED
      BY <1>1, <2>1, <2>2
  <1>4. CASE page = Rest(op[d].cursor)
    <2>1. Listed(d, t, found)
      BY <1>4 DEF NextPage
    <2>2. op[d].since \subseteq found
      <3>1. \A v \in op[d].since : v \in page \/ v \in op[d].found
        BY <1>1, <1>4, <1>3 DEF Rest
      <3>2. QED
        BY <3>1
    <2>3. QED
      BY <1>2, <2>1, <2>2, ListedOK
  <1>5. CASE Fails(d, t)
    BY <1>5, FailsQuietly
  <1>6. CASE /\ page # Rest(op[d].cursor) /\ UNCHANGED saved
             /\ Sets(d, [op[d] EXCEPT !.token = t, !.found = found, !.page = @ + 1,
                                      !.cursor = Newest(page)])
    <2>1. Newest(page) \in page
          /\ \A o \in store : o > op[d].cursor /\ o <= Newest(page) => o \in page
      BY <1>1, <1>6, PageIs
    <2>2. PICK c \in page : c = Newest(page)
      BY <2>1
    <2>3. PICK n \in Nat : n = op[d].page + 1
      BY <1>1
    <2> PICK o : o = [op[d] EXCEPT !.token = t, !.found = found, !.page = n, !.cursor = c]
      OBVIOUS
    <2>4. c \in Int /\ found \in SUBSET Nat /\ t \in 0 .. MaxTokens
      BY <1>1, <1>2, <2>2, ConstantsAre DEF Knows
    <2>5. /\ o \in OpRecord /\ o.pc = op[d].pc /\ o.token = t /\ o.found = found
          /\ o.cursor = c /\ o.todo = op[d].todo /\ o.name = op[d].name
          /\ o.since = op[d].since
      <3> HIDE DEF page, found
      <3>1. QED
        BY <2>4, OpIs DEF OpRecord
    <2>6. \A v \in op[d].since : v <= c => v \in found
      <3> HIDE DEF page
      <3>1. QED
        BY <1>3, <2>1, <2>2
    <2>7. OpOK(o, store, uploaded, cleared, named)
      <3> HIDE DEF page, found
      <3>1. op[d].name <= named /\ op[d].todo \subseteq 1 .. named
        BY OpIs DEF OpOK
      <3>2. op[d].pc \notin {"pull", "prune", "clear", "folder", "put"}
        BY DEF ListPc
      <3>3. QED
        BY <1>1, <1>2, <2>5, <2>6, <3>1, <3>2 DEF OpOK
    <2>8. Sets(d, o) /\ o.pc # "idle"
      BY <1>6, <2>2, <2>3, <2>5 DEF ListPc
    <2>9. QED
      BY <1>6, <2>5, <2>7, <2>8, GoesOnQuietly
  <1>7. QED
    BY <1>4, <1>5, <1>6 DEF NextPage

LEMMA ListOK ==
  ASSUME ObjectStoresAssumption, Inv, NEW d \in Device, List(d)
  PROVE  Inv'
  <1>1. op[d].pc \in ListPc /\ ~Is(d, "idle") /\ UNCHANGED <<remote, named>>
    BY DEF List, ListPc, Is
  <1>2. PICK t \in 1 .. MaxTokens :
          GdriveList(d, t) \/ OnedriveList(d, t) \/ S3List(d, t) \/ WebdavList(d, t)
    BY DEF List
  <1>3. Knows(d, t)
    <2>1. Authorized(d, t) \/ (t = op[d].token /\ issued' = issued)
      BY <1>2 DEF GdriveList, OnedriveList, S3List, WebdavList, TokenOfList
    <2>2. QED
      BY <1>1, <2>1, AuthorizedKnows, StillKnows
  <1>4. /\ store \subseteq 0 .. named /\ op[d].since \subseteq store
        /\ \A v \in store : v > cleared => v \in uploaded
    BY OpIs DEF OpOK, Inv, StoreOK
  <1>5. CASE NextPage(d, t)
    BY <1>1, <1>3, <1>5, NextPageOK
  <1>6. CASE ~folder /\ Listed(d, t, {})
    <2>1. store = {}
      BY <1>6 DEF Inv, StoreOK
    <2>2. PICK S : S = {}
      OBVIOUS
    <2>3. S \subseteq 0 .. named /\ op[d].since \subseteq S /\ Listed(d, t, S)
          /\ \A v \in S : v > cleared => v \in uploaded
      BY <1>4, <1>6, <2>1, <2>2
    <2>4. QED
      BY <1>1, <1>3, <2>3, ListedOK
  <1>7. CASE Listed(d, t, store)
    BY <1>1, <1>3, <1>4, <1>7, ListedOK
  <1>8. QED
    BY <1>2, <1>5, <1>6, <1>7 DEF GdriveList, OnedriveList, S3List, WebdavList

-----------------------------------------------------------------------------
(* Deletions.                                                              *)

Without(o, v) == [o EXCEPT !.since = @ \ {v}]

LEMMA WithoutIs ==
  ASSUME ObjectStoresAssumption, NEW o \in OpRecord, NEW v
  PROVE  /\ Without(o, v) \in OpRecord /\ Without(o, v).since = o.since \ {v}
         /\ Without(o, v).found = o.found /\ Without(o, v).todo = o.todo
         /\ Without(o, v).pc = o.pc /\ Without(o, v).token = o.token
         /\ Without(o, v).name = o.name /\ Without(o, v).cursor = o.cursor
  BY DEF Without, OpRecord

(* What an operation knows stays true when a version goes, pruned or       *)
(* cleared.                                                                *)
LEMMA OpWithout ==
  ASSUME ObjectStoresAssumption, NEW o \in OpRecord, NEW st, NEW up, NEW cl \in Nat, NEW v, v # Foreign,
         NEW n \in Nat, NEW up2, NEW cl2, OpOK(o, st, up, cl, n),
         (up2 = up /\ cl2 = cl) \/ (up2 = {} /\ cl2 = n)
  PROVE  OpOK(Without(o, v), st \ {v}, up2, cl2, n)
  <1>1. PICK p : p = Without(o, v)
    OBVIOUS
  <1>2. /\ p.since = o.since \ {v} /\ p.found = o.found /\ p.todo = o.todo /\ p.pc = o.pc
        /\ p.name = o.name /\ p.cursor = o.cursor
    BY <1>1, WithoutIs
  <1>3. p.since \subseteq st \ {v}
    BY <1>2 DEF OpOK
  <1>4. \A w \in p.found : w > cl2 => w \in up2
    BY <1>2 DEF OpOK
  <1>5. p.pc \in ListPc => \A w \in p.since : w <= p.cursor => w \in p.found
    BY <1>2 DEF OpOK
  <1>6. p.pc \in {"pull", "prune", "clear"} => Versions(p.since) \subseteq p.found
    BY <1>2 DEF OpOK, Versions
  <1>7. p.pc = "prune" => \A w \in p.todo : Superseded(w, up2, cl2)
    BY <1>2 DEF OpOK, Superseded
  <1>8. Foreign \in p.found => Foreign \in st \ {v}
    BY <1>2 DEF OpOK
  <1>9. OpOK(p, st \ {v}, up2, cl2, n)
    BY <1>2, <1>3, <1>4, <1>5, <1>6, <1>7, <1>8 DEF OpOK
  <1>10. QED
    BY <1>1, <1>9

LEMMA DeleteObjectOK ==
  ASSUME ObjectStoresAssumption, Inv, NEW d \in Device, DeleteObject(d)
  PROVE  Inv'
  <1> DEFINE v == Newest(op[d].todo)
             rest == op[d].todo \ {v}
  <1>1. /\ op[d].pc \in {"prune", "clear"} /\ ~Is(d, "idle")
        /\ folder' = folder /\ named' = named /\ UNCHANGED saved /\ store' = store \ {v}
        /\ op[d].pc = "clear" => uploaded' = {} /\ cleared' = named
        /\ op[d].pc # "clear" => uploaded' = uploaded /\ cleared' = cleared
    BY DEF DeleteObject, Is
  <1>2. PICK t \in 1 .. MaxTokens :
          /\ Authorized(d, t)
          /\ op' = [e \in Device |->
                     IF e # d THEN [op[e] EXCEPT !.since = @ \ {v}]
                     ELSE [op[d] EXCEPT !.since = @ \ {v}, !.todo = rest, !.token = t,
                                        !.pc = IF rest = {} THEN "save" ELSE @]]
    BY DEF DeleteObject
  <1>3. Knows(d, t)
    BY <1>1, <1>2, AuthorizedKnows
  <1>4. /\ store \subseteq 0 .. named /\ named \in 0 .. MaxNames /\ named \in Nat
        /\ uploaded \subseteq 1 .. named /\ cleared \in 0 .. named /\ cleared \in Nat
        /\ folder \in BOOLEAN
    BY OpIs DEF Inv, Types
  <1>5. v \in op[d].todo /\ op[d].todo \subseteq 1 .. named /\ v \in Nat /\ v # Foreign
    <2>1. op[d].todo \subseteq 1 .. named /\ op[d].todo # {}
      BY <1>1, OpIs DEF OpOK
    <2>2. op[d].todo \subseteq 0 .. named
      BY <1>4, <2>1
    <2>3. QED
      BY <1>4, <2>1, <2>2, NewestIs DEF Foreign
  <1>6. (uploaded' = uploaded /\ cleared' = cleared) \/ (uploaded' = {} /\ cleared' = named)
    BY <1>1
  <1>7. \A e \in Device : /\ Without(op[e], v) \in OpRecord
                          /\ OpOK(Without(op[e], v), store', uploaded', cleared', named')
    <2>1. TAKE e \in Device
    <2>2. op[e] \in OpRecord /\ OpOK(op[e], store, uploaded, cleared, named)
      BY OpIs
    <2>3. Without(op[e], v) \in OpRecord
      BY <2>2, WithoutIs
    <2>4. OpOK(Without(op[e], v), store \ {v}, uploaded', cleared', named)
      BY <1>4, <1>5, <1>6, <2>2, OpWithout
    <2>5. QED
      BY <1>1, <2>3, <2>4
  <1>8. PICK o : o = [Without(op[d], v) EXCEPT !.todo = rest, !.token = t,
                                               !.pc = IF rest = {} THEN "save" ELSE @]
    OBVIOUS
  <1>9. \A e \in Device : op'[e] = IF e # d THEN Without(op[e], v) ELSE o
    <2>1. [op[d] EXCEPT !.since = @ \ {v}, !.todo = rest, !.token = t,
                        !.pc = IF rest = {} THEN "save" ELSE @] = o
      BY <1>8, OpIs DEF Without, OpRecord
    <2>2. QED
      BY <1>2, <2>1 DEF Without
  <1>10. /\ o \in OpRecord /\ o.token = t /\ o.todo = rest
         /\ o.pc = (IF rest = {} THEN "save" ELSE op[d].pc)
         /\ o.found = Without(op[d], v).found /\ o.since = Without(op[d], v).since
         /\ o.name = Without(op[d], v).name /\ o.cursor = Without(op[d], v).cursor
    <2>1. Without(op[d], v) \in OpRecord /\ Without(op[d], v).pc = op[d].pc
      BY OpIs, WithoutIs
    <2>2. rest \in SUBSET Nat /\ t \in 0 .. MaxTokens
      BY <1>4, <1>5, ConstantsAre
    <2> HIDE DEF rest, v
    <2>3. QED
      BY <1>8, <2>1, <2>2 DEF OpRecord, Pc
  <1>11. OpOK(o, store', uploaded', cleared', named')
    <2>1. PICK p : p = Without(op[d], v)
      OBVIOUS
    <2>2. /\ p.pc = op[d].pc /\ p.todo = op[d].todo
          /\ OpOK(p, store', uploaded', cleared', named')
      BY <1>7, <2>1, OpIs, WithoutIs
    <2>3. /\ o.found = p.found /\ o.since = p.since /\ o.name = p.name /\ o.todo = rest
          /\ o.pc = (IF rest = {} THEN "save" ELSE p.pc)
      BY <1>10, <2>1, <2>2
    <2>4. rest \subseteq p.todo
      BY <2>2
    <2> HIDE DEF rest, v
    <2>5. CASE rest = {}
      BY <2>2, <2>3, <2>5 DEF OpOK, ListPc
    <2>6. CASE rest # {}
      BY <1>1, <2>2, <2>3, <2>4, <2>6 DEF OpOK, ListPc
    <2>7. QED
      BY <2>5, <2>6
  <1>12. op' \in [Device -> OpRecord] /\ OpsOK'
    <2>1. DOMAIN op' = Device /\ op' = [e \in Device |-> op'[e]]
      BY <1>2
    <2>2. QED
      BY <1>7, <1>9, <1>10, <1>11, <2>1 DEF OpsOK
  <1>13. TokenTypes' /\ TokensOK'
    <2>1. \A e \in Device \ {d} : op'[e].pc = op[e].pc /\ op'[e].token = op[e].token
      BY <1>9, OpIs, WithoutIs
    <2>2. op'[d].pc # "idle" /\ op'[d].token = t
      BY <1>1, <1>9, <1>10
    <2>3. QED
      BY <1>1, <1>3, <1>12, <2>1, <2>2, GoesOn
  <1>14. StoreOK'
    <2>1. CASE op[d].pc = "clear"
      <3>1. uploaded' = {} /\ cleared' = named /\ store' \subseteq store
        BY <1>1, <2>1
      <3>2. \A w \in store' : ~(w > named)
        BY <1>4, <3>1
      <3>3. QED
        BY <1>1, <3>1, <3>2 DEF Inv, StoreOK
    <2>2. CASE op[d].pc = "prune"
      <3>1. uploaded' = uploaded /\ cleared' = cleared
        BY <1>1, <2>2
      <3>2. Superseded(v, uploaded, cleared)
        BY <1>5, <2>2, OpIs DEF OpOK
      <3>3. v \in uploaded => ~(Cardinality(NewerIn(uploaded, v)) < Keep)
        <4>1. Cardinality(NewerIn(uploaded, v)) \in Nat
          <5>1. uploaded \subseteq 0 .. named
            BY OpIs
          <5>2. QED
            BY <1>4, <5>1, NewerFinite
        <4>2. v \in uploaded => v > cleared
          BY DEF Inv, StoreOK
        <4> HIDE DEF v
        <4>3. QED
          BY <1>4, <1>5, <3>2, <4>1, <4>2, ConstantsAre DEF Superseded
      <3> HIDE DEF v
      <3>4. QED
        BY <1>1, <3>1, <3>3 DEF Inv, StoreOK
    <2>3. QED
      BY <1>1, <2>1, <2>2
  <1>15. Types'
    <2>1. store' \subseteq 0 .. named' /\ named' \in 0 .. MaxNames
      <3> HIDE DEF v
      <3>1. QED
        BY <1>1, <1>4
    <2>4. uploaded' \subseteq 1 .. named' /\ cleared' \in 0 .. named'
      <3>1. CASE uploaded' = uploaded /\ cleared' = cleared
        BY <1>1, <1>4, <3>1
      <3>2. CASE uploaded' = {} /\ cleared' = named
        BY <1>1, <1>4, <3>2
      <3>3. QED
        BY <1>6, <3>1, <3>2
    <2>2. folder' \in BOOLEAN
      BY <1>1, <1>4
    <2>3. QED
      BY <1>12, <1>13, <2>1, <2>2, <2>4 DEF Types, TokenTypes
  <1>16. QED
    BY <1>12, <1>13, <1>14, <1>15 DEF Inv

-----------------------------------------------------------------------------
LEMMA InitOK ==
  ASSUME ObjectStoresAssumption, Init
  PROVE  Inv
  <1>1. /\ named = 0 /\ op = [d \in Device |-> Idle] /\ uploaded = {} /\ cleared = 0
        /\ dropped = {} /\ conn = [d \in Device |-> 0] /\ slot = [d \in Device |-> 1]
        /\ issued = [d \in Device |-> 1] /\ store \in {{}, {0}} /\ folder = (store # {})
    BY DEF Init, Foreign
  <1>2. store \subseteq 0 .. 0 /\ folder \in BOOLEAN /\ (store # {} => folder)
        /\ \A v \in store : ~(v > 0)
    <2>1. folder \in BOOLEAN /\ (store # {} => folder)
      BY <1>1
    <2>2. \A v \in store : v = 0
      BY <1>1
    <2>3. QED
      BY <2>1, <2>2
  <1>3. Idle \in OpRecord /\ OpOK(Idle, store, uploaded, cleared, named)
    BY <1>1, IdleOK
  <1>4. Types
    <2>1. op \in [Device -> OpRecord]
      BY <1>1, <1>3
    <2>2. conn \in [Device -> 0 .. MaxTokens] /\ slot \in [Device -> 0 .. MaxTokens]
          /\ issued \in [Device -> 1 .. MaxTokens] /\ named \in 0 .. MaxNames
          /\ cleared \in 0 .. named
      BY <1>1, ConstantsAre
    <2>3. QED
      BY <1>1, <1>2, <2>1, <2>2 DEF Types
  <1>5. StoreOK
    BY <1>1, <1>2 DEF StoreOK
  <1>6. OpsOK
    BY <1>1, <1>3 DEF OpsOK
  <1>7. TokensOK
    BY <1>1 DEF TokensOK, TokenOK, Idle
  <1>8. QED
    BY <1>4, <1>5, <1>6, <1>7 DEF Inv

LEMMA NextOK ==
  ASSUME ObjectStoresAssumption, Inv, [Next]_vars
  PROVE  Inv'
  <1>1. CASE UNCHANGED vars
    BY <1>1 DEF vars, Inv, Types, StoreOK, OpsOK, TokensOK, TokenOK
  <1>2. CASE Next
    <2>1. PICK d \in Device :
            \/ Begin(d) \/ List(d) \/ PullNewest(d) \/ PullOlder(d) \/ PullChosen(d)
            \/ WrongPassphrase(d) \/ Import(d) \/ Export(d) \/ EnsureCollection(d) \/ Put(d)
            \/ TooLarge(d) \/ DeleteObject(d) \/ CallFails(d) \/ Save(d) \/ Quit(d)
            \/ Disconnect(d)
      BY <1>2 DEF Next
    <2>2. CASE Begin(d)
      BY <2>2, BeginOK
    <2>3. CASE List(d)
      BY <2>3, ListOK
    <2>4. CASE PullNewest(d) \/ PullOlder(d) \/ PullChosen(d)
      BY <2>4, ReadsOK
    <2>5. CASE Save(d) \/ Quit(d) \/ Import(d) \/ WrongPassphrase(d) \/ TooLarge(d)
      BY <2>5, EndOK
    <2>6. CASE Export(d)
      BY <2>6, ExportOK
    <2>7. CASE EnsureCollection(d)
      BY <2>7, EnsureCollectionOK
    <2>8. CASE Put(d)
      BY <2>8, PutOK
    <2>9. CASE DeleteObject(d)
      BY <2>9, DeleteObjectOK
    <2>10. CASE CallFails(d)
      BY <2>10, CallFailsOK
    <2>11. CASE Disconnect(d)
      BY <2>11, DisconnectOK
    <2>12. QED
      BY <2>1, <2>2, <2>3, <2>4, <2>5, <2>6, <2>7, <2>8, <2>9, <2>10, <2>11
  <1>3. QED
    BY <1>1, <1>2

-----------------------------------------------------------------------------
(* What the invariant says.                                                *)

LEMMA InvTypes ==
  ASSUME ObjectStoresAssumption, Inv
  PROVE  TypeOK
  <1>1. named \in Nat /\ MaxNames \in Nat /\ named <= MaxNames
    BY ConstantsAre DEF Inv, Types
  <1>2. store \subseteq {Foreign} \cup Names /\ uploaded \subseteq Names
    BY <1>1 DEF Inv, Types, Names, Foreign
  <1>3. ASSUME NEW d \in Device PROVE op[d].found \cup op[d].todo \subseteq store \cup Names
    <2>1. op[d].found \subseteq 0 .. named /\ op[d].todo \subseteq 1 .. named
          /\ (0 \in op[d].found => 0 \in store)
      BY OpIs DEF OpOK, Foreign
    <2>2. QED
      BY <1>1, <2>1 DEF Names
  <1>4. QED
    BY <1>1, <1>2, <1>3 DEF Inv, Types, TypeOK

(* The largest of the uploaded versions that have gone has enough newer    *)
(* ones, all of which are there: they serve the smaller ones as well.      *)
LEMMA InvNewest ==
  ASSUME ObjectStoresAssumption, Inv
  PROVE  NewestAreKept
  <1>1. /\ named \in Nat /\ uploaded \subseteq 1 .. named /\ uploaded \subseteq 0 .. named
        /\ store \subseteq 0 .. named /\ Keep \in Nat
        /\ \A v \in uploaded : Cardinality(NewerIn(uploaded, v)) < Keep => v \in store
    BY OpIs, ConstantsAre DEF Inv, Types, StoreOK
  <1>2. SUFFICES ASSUME NEW v \in uploaded \ store
                 PROVE  Cardinality({w \in store : IsVersion(w) /\ w > v}) >= Keep
    BY DEF NewestAreKept
  <1>3. PICK m \in uploaded \ store : \A w \in uploaded \ store : w <= m
    <2>1. PICK G \in SUBSET Nat : G = uploaded \ store
      <3>1. uploaded \ store \subseteq Nat
        BY <1>1
      <3>2. QED
        BY <3>1
    <2>2. G # {} /\ \A w \in G : w <= named
      BY <1>1, <2>1
    <2>3. QED
      BY <1>1, <2>1, <2>2, BoundedMax
  <1>4. NewerIn(uploaded, m) \subseteq {w \in store : IsVersion(w) /\ w > v}
    <2>1. ASSUME NEW w \in uploaded, w > m PROVE w \in store /\ w # 0 /\ w > v
      <3>1. w \in Nat /\ m \in Nat /\ v \in Nat /\ v <= m /\ w # 0
        BY <1>1, <1>3
      <3>2. ~(w <= m)
        BY <2>1, <3>1
      <3>3. QED
        BY <1>3, <2>1, <3>1, <3>2
    <2>2. QED
      BY <2>1 DEF NewerIn, IsVersion, Foreign
  <1>5. ~(Cardinality(NewerIn(uploaded, m)) < Keep) /\ Cardinality(NewerIn(uploaded, m)) \in Nat
    BY <1>1, NewerFinite
  <1>6. IsFiniteSet({w \in store : IsVersion(w) /\ w > v})
    BY <1>1, NewerFinite, FS_Subset
  <1>7. Cardinality({w \in store : IsVersion(w) /\ w > v}) \in Nat
        /\ Cardinality(NewerIn(uploaded, m))
             <= Cardinality({w \in store : IsVersion(w) /\ w > v})
    BY <1>4, <1>6, FS_Subset, FS_CardinalityType
  <1>8. QED
    BY <1>1, <1>5, <1>7

LEMMA InvOthers ==
  ASSUME ObjectStoresAssumption, Inv
  PROVE  OthersStay
  <1>1. named \in Nat /\ MaxNames \in Nat /\ named <= MaxNames
    BY ConstantsAre DEF Inv, Types
  <1>2. \A d \in Device : op[d].todo \subseteq 1 .. named
    BY OpIs DEF OpOK
  <1>3. QED
    BY <1>1, <1>2 DEF OthersStay, Names

LEMMA InvLists ==
  ASSUME Inv
  PROVE  ListsAreComplete
  BY DEF Inv, OpsOK, OpOK, ListsAreComplete

LEMMA InvTokens ==
  ASSUME Inv
  PROVE  TokensAreKept
  BY DEF Inv, TokensOK, TokenOK, TokensAreKept, Is

-----------------------------------------------------------------------------
LEMMA Invariant ==
  ASSUME ObjectStoresAssumption
  PROVE  Spec => []Inv
  BY InitOK, NextOK, PTL DEF Spec

(* Every variable has its type; what an operation has found and is to      *)
(* delete are versions, or objects that are still there.                   *)
THEOREM TypeCorrect ==
  ASSUME ObjectStoresAssumption
  PROVE  Spec => []TypeOK
  BY Invariant, InvTypes, PTL

(* However devices upload, prune and list across each other, a version     *)
(* named since the last clearing goes only when enough newer ones are      *)
(* there.                                                                  *)
THEOREM NewestVersionsStay ==
  ASSUME ObjectStoresAssumption
  PROVE  Spec => []NewestAreKept
  BY Invariant, InvNewest, PTL

(* Neither pruning nor clearing deletes an object that is no version.      *)
THEOREM ForeignObjectsStay ==
  ASSUME ObjectStoresAssumption
  PROVE  Spec => []OthersStay
  BY Invariant, InvOthers, PTL

(* A listing of several pages has every version that was there from its    *)
(* beginning to its end, whatever others upload and delete meanwhile.      *)
THEOREM ListingsMissNothing ==
  ASSUME ObjectStoresAssumption
  PROVE  Spec => []ListsAreComplete
  BY Invariant, InvLists, PTL

(* A device that is not in an operation can go on with the newest refresh  *)
(* token it was issued, unless an error made the code return without it.   *)
THEOREM NewestTokenIsKept ==
  ASSUME ObjectStoresAssumption
  PROVE  Spec => []TokensAreKept
  BY Invariant, InvTokens, PTL
=============================================================================
