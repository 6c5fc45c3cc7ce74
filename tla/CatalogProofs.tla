---------------------------- MODULE CatalogProofs ----------------------------
(***************************************************************************)
(* Theorems about the records of the vault: no operation of a user leaves  *)
(* a reference to a deleted record, and no jump host is reached through    *)
(* itself, whatever devices save, import and merge.                        *)
(***************************************************************************)
EXTENDS Catalog, FiniteSetTheorems, TLAPS

-----------------------------------------------------------------------------
(* Finite sets.                                                            *)

(* A family of finite sets has a member with no other member within it.    *)
LEMMA LeastMember ==
  ASSUME NEW S, IsFiniteSet(S), NEW F \in SUBSET SUBSET S, F # {}
  PROVE  \E C \in F : \A D \in F : D \subseteq C => D = C
  <1> DEFINE R == StrictSubsetOrdering(S)
  <1>1. F \subseteq FiniteSubsetsOf(S)
    BY FS_FiniteSubsetsOfFinite
  <1>2. PICK C \in F : \A D \in F : ~ (<<D, C>> \in R)
    <2>1. IsWellFoundedOn(R, FiniteSubsetsOf(S))
      BY FS_StrictSubsetOrderingWellFounded
    <2> HIDE DEF R
    <2>2. QED
      BY <1>1, <2>1, WFMin
  <1>3. QED
    BY <1>2 DEF StrictSubsetOrdering

(* Among finitely many numbers one is the largest.                         *)
LEMMA FiniteMax ==
  ASSUME NEW C, C \subseteq Nat, IsFiniteSet(C), C # {}
  PROVE  \E g \in C : \A h \in C : h <= g
  <1> DEFINE Above(g) == {h \in C : h > g}
             F == {Above(g) : g \in C}
  <1>1. F \in SUBSET SUBSET C /\ F # {} /\ IsFiniteSet(C)
    OBVIOUS
  <1>2. PICK U \in F : \A V \in F : V \subseteq U => V = U
    <2>1. PICK S, G : S = C /\ G = F
      OBVIOUS
    <2> HIDE DEF F
    <2>2. IsFiniteSet(S) /\ G \in SUBSET SUBSET S /\ G # {}
      BY <1>1, <2>1
    <2>3. \E U \in G : \A V \in G : V \subseteq U => V = U
      BY <2>2, LeastMember
    <2>4. QED
      BY <2>1, <2>3
  <1>3. PICK g \in C : U = Above(g)
    OBVIOUS
  <1>4. ASSUME NEW h \in Above(g) PROVE FALSE
    <2>1. h \in C /\ h \in Nat /\ g \in Nat /\ h > g
      OBVIOUS
    <2>2. \A x \in Above(h) : x \in Above(g)
      BY <2>1
    <2>3. h \notin Above(h) /\ Above(h) \in F
      BY <2>1
    <2>4. QED
      BY <1>2, <1>3, <1>4, <2>2, <2>3
  <1>5. QED
    BY <1>4

-----------------------------------------------------------------------------
(* The inductive invariant.                                                *)

(* What a record of each kind may refer to.                                *)
MayReferTo(r) ==
  CASE r \in Host -> Key \cup Identity \cup Host
    [] r \in Identity -> Key
    [] r \in Forward \cup Bookmark \cup Task -> Host
    [] OTHER -> {}

(* A table: a host has one jump host at most.                              *)
Typed(t) ==
  /\ t \in [Record -> Row]
  /\ \A r \in Record : t[r].refs \subseteq MayReferTo(r)
  /\ \A h \in Host : \A x, y \in Jump(t, h) : x = y

(* Whatever live hosts one takes, one of them jumps to none of them.       *)
Acyclic(t) ==
  \A S \in SUBSET LiveIn(t, Host) : S # {} => \E h \in S : Jump(t, h) \cap S = {}

Inv ==
  /\ TypeOK
  /\ importing \in [Device -> [on : BOOLEAN, keys : SUBSET Key, hosts : SUBSET Host]]
  /\ \A d \in Device : Typed(db[d]) /\ Acyclic(db[d])
  /\ ReferencesHold

-----------------------------------------------------------------------------
(* The tables are disjoint.                                                *)
LEMMA Disjoint ==
  ASSUME CatalogAssumption
  PROVE  /\ \A h \in Host : h \notin Key \cup Identity \cup Forward \cup Bookmark \cup Task \cup Proxy
         /\ \A i \in Identity : i \notin Key \cup Forward \cup Bookmark \cup Task \cup Proxy
         /\ \A k \in Key : k \notin Forward \cup Bookmark \cup Task \cup Proxy
         /\ IsFiniteSet(Host) /\ Host \subseteq Record /\ Host \subseteq Nat
  <1>1. \A i, j \in 1..7 : i # j => Tables[i] \cap Tables[j] = {}
    BY DEF CatalogAssumption
  <1>2. /\ Tables[1] = Key /\ Tables[2] = Identity /\ Tables[3] = Host /\ Tables[4] = Forward
        /\ Tables[5] = Bookmark /\ Tables[6] = Task /\ Tables[7] = Proxy
    BY DEF Tables
  <1>3. /\ Host \cap Key = {} /\ Host \cap Identity = {} /\ Host \cap Forward = {}
        /\ Host \cap Bookmark = {} /\ Host \cap Task = {} /\ Host \cap Proxy = {}
    BY <1>1, <1>2
  <1>4. /\ Identity \cap Key = {} /\ Identity \cap Forward = {} /\ Identity \cap Bookmark = {}
        /\ Identity \cap Task = {} /\ Identity \cap Proxy = {}
    BY <1>1, <1>2
  <1>5. /\ Key \cap Forward = {} /\ Key \cap Bookmark = {} /\ Key \cap Task = {}
        /\ Key \cap Proxy = {}
    BY <1>1, <1>2
  <1>6. IsFiniteSet(Host) /\ Host \subseteq Record /\ Host \subseteq Nat
    BY FS_Subset DEF CatalogAssumption, Record
  <1>7. QED
    BY <1>3, <1>4, <1>5, <1>6

LEMMA RowsAre ==
  ASSUME NEW t, Typed(t), NEW r \in Record
  PROVE  t[r] \in Row /\ t[r].ts \in Nat /\ t[r].live \in BOOLEAN /\ t[r].refs \subseteq Record
  BY DEF Typed, Row

(* A set whose members all jump within it has no end.                      *)
LEMMA NoEnd ==
  ASSUME NEW t, Typed(t), ~Acyclic(t)
  PROVE  \E S \in SUBSET LiveIn(t, Host) :
           S # {} /\ \A h \in S : Jump(t, h) # {} /\ Jump(t, h) \subseteq S
  <1>1. PICK S \in SUBSET LiveIn(t, Host) : S # {} /\ \A h \in S : Jump(t, h) \cap S # {}
    BY DEF Acyclic
  <1>2. \A h \in S : h \in Host /\ \A x, y \in Jump(t, h) : x = y
    BY DEF LiveIn, Typed
  <1>3. ASSUME NEW h \in S
        PROVE  Jump(t, h) # {} /\ Jump(t, h) \subseteq S
    <2>1. PICK x \in Jump(t, h) : x \in S
      BY <1>1
    <2>2. \A y \in Jump(t, h) : y = x
      BY <1>2
    <2>3. QED
      BY <2>1, <2>2
  <1>4. QED
    BY <1>1, <1>3

(* Then no loop is closed: in a loop everyone has a jump host in it, for   *)
(* who is the jump host of whom is one to one.                             *)
LEMMA AcyclicHasNoLoops ==
  ASSUME CatalogAssumption, NEW t, Typed(t), Acyclic(t), NEW C \in SUBSET LiveIn(t, Host)
  PROVE  ~ClosedLoop(t, C)
  <1> SUFFICES ASSUME C # {}, UNION {Jump(t, h) : h \in C} = C
               PROVE  FALSE
    BY DEF ClosedLoop
  <1>1. C \subseteq Host /\ IsFiniteSet(C)
    <2>1. C \subseteq Host
      BY DEF LiveIn
    <2>2. QED
      BY <2>1, Disjoint, FS_Subset
  <1>2. \A h \in C : \A x, y \in Jump(t, h) : x = y
    BY <1>1 DEF Typed
  <1>3. \A y \in C : \E h \in C : y \in Jump(t, h)
    OBVIOUS
  <1> DEFINE from == [y \in C |-> CHOOSE h \in C : y \in Jump(t, h)]
  <1>4. \A y \in C : from[y] \in C /\ y \in Jump(t, from[y])
    BY <1>3
  <1>5. from \in [C -> C]
    BY <1>4
  <1> HIDE DEF from
  <1>6. \A x, y \in C : from[x] = from[y] => x = y
    BY <1>2, <1>4
  <1>7. from \in Injection(C, C)
    BY <1>5, <1>6 DEF Injection, IsInjective
  <1>8. from \in Surjection(C, C)
    BY <1>1, <1>7, FS_Injection
  <1>9. \A h \in C : \E y \in C : from[y] = h
    BY <1>8 DEF Surjection
  <1>10. \A h \in C : Jump(t, h) \cap C # {}
    BY <1>4, <1>9
  <1>11. QED
    BY <1>10 DEF Acyclic

(* Less jumping or fewer live hosts make no loop.                          *)
LEMMA StaysAcyclic ==
  ASSUME CatalogAssumption, NEW t, Acyclic(t), NEW u,
         \A h \in Host : u[h].live => t[h].live /\ u[h].refs = t[h].refs
  PROVE  Acyclic(u)
  <1> SUFFICES ASSUME NEW S \in SUBSET LiveIn(u, Host), S # {}
               PROVE  \E h \in S : Jump(u, h) \cap S = {}
    BY DEF Acyclic
  <1>1. S \subseteq LiveIn(t, Host) /\ \A h \in S : Jump(u, h) = Jump(t, h)
    BY DEF LiveIn, Jump
  <1>2. QED
    BY <1>1 DEF Acyclic

(* The chain of a host has its jump hosts and theirs.                      *)
LEMMA ChainIsClosed ==
  ASSUME NEW t, NEW h \in Host
  PROVE  /\ Chain(t, h) \subseteq Host /\ h \in Chain(t, h)
         /\ \A g \in Chain(t, h) : Jump(t, g) \subseteq Chain(t, h)
         /\ \A C \in SUBSET Host :
              h \in C /\ (\A x \in C : Jump(t, x) \subseteq C) => Chain(t, h) \subseteq C
  <1>1. Chain(t, h) \subseteq Host /\ h \in Chain(t, h)
    BY DEF Chain
  <1>2. ASSUME NEW C \in SUBSET Host, h \in C, \A x \in C : Jump(t, x) \subseteq C
        PROVE  Chain(t, h) \subseteq C
    BY <1>2 DEF Chain
  <1>3. ASSUME NEW g \in Chain(t, h), NEW y \in Jump(t, g)
        PROVE  y \in Chain(t, h)
    <2>1. y \in Host
      BY DEF Jump
    <2>2. ASSUME NEW C \in SUBSET Host, h \in C, \A x \in C : Jump(t, x) \subseteq C
          PROVE  y \in C
      <3>1. g \in C
        BY <1>2, <2>2
      <3>2. QED
        BY <2>2, <3>1
    <2>3. QED
      BY <2>1, <2>2 DEF Chain
  <1>4. QED
    BY <1>1, <1>2, <1>3

(* A host whose jump host has a live chain without it closes no loop.      *)
LEMMA SaveHostAcyclic ==
  ASSUME NEW t, Typed(t), Acyclic(t), NEW h \in Host, NEW u, NEW refs,
         ValidHost(t, h, refs), \A x, y \in refs \cap Host : x = y,
         Jump(u, h) = refs \cap Host,
         \A g \in Host \ {h} : Jump(u, g) = Jump(t, g) /\ (u[g].live => t[g].live)
  PROVE  Acyclic(u)
  <1> SUFFICES ASSUME NEW S \in SUBSET LiveIn(u, Host), S # {}
               PROVE  \E g \in S : Jump(u, g) \cap S = {}
    BY DEF Acyclic
  <1>1. S \subseteq Host /\ \A g \in S : u[g].live
    BY DEF LiveIn
  <1>2. CASE h \notin S
    <2>1. S \subseteq LiveIn(t, Host) /\ \A g \in S : Jump(u, g) = Jump(t, g)
      BY <1>1, <1>2 DEF LiveIn
    <2>2. QED
      BY <2>1 DEF Acyclic
  <1>3. CASE h \in S /\ Jump(u, h) \cap S # {}
    <2>1. PICK j \in refs \cap Host : j \in S
      BY <1>3
    <2>2. h \notin Chain(t, j) /\ \A g \in Chain(t, j) : t[g].live
      BY DEF ValidHost, IsChain
    <2>3. PICK D : D = Chain(t, j)
      OBVIOUS
    <2>4. D \subseteq Host /\ j \in D /\ \A g \in D : Jump(t, g) \subseteq D
      BY <2>3, ChainIsClosed
    <2>5. S \cap D \in SUBSET LiveIn(t, Host) /\ S \cap D # {}
      BY <2>1, <2>2, <2>3, <2>4 DEF LiveIn
    <2>6. PICK g \in S \cap D : Jump(t, g) \cap (S \cap D) = {}
      BY <2>5 DEF Acyclic
    <2>7. g # h /\ g \in Host
      BY <2>2, <2>3, <2>4
    <2>8. Jump(u, g) = Jump(t, g)
      BY <2>7
    <2>9. Jump(u, g) \cap S = {}
      BY <2>4, <2>6, <2>8
    <2>10. QED
      BY <2>6, <2>9
  <1>4. QED
    BY <1>2, <1>3

(* A graph in which every chain has an end has no loop.                    *)
LEMMA ValidGraphAcyclic ==
  ASSUME NEW t, Typed(t), ValidJumpGraph(t)
  PROVE  Acyclic(t)
  <1> SUFFICES ASSUME ~Acyclic(t) PROVE FALSE
    OBVIOUS
  <1>1. PICK S \in SUBSET LiveIn(t, Host) :
          S # {} /\ \A h \in S : Jump(t, h) # {} /\ Jump(t, h) \subseteq S
    BY NoEnd
  <1>2. PICK h \in S : TRUE
    BY <1>1
  <1>3. h \in Host /\ h \in LiveIn(t, Host) /\ S \subseteq Host
    BY DEF LiveIn
  <1>4. Chain(t, h) \subseteq S
    BY <1>1, <1>3, ChainIsClosed
  <1>5. PICK g \in Chain(t, h) : Jump(t, g) = {}
    BY <1>3 DEF ValidJumpGraph, IsChain
  <1>6. QED
    BY <1>1, <1>4, <1>5

(* Loops are broken at their greatest host, so none is left.               *)
LEMMA RepairedAcyclic ==
  ASSUME CatalogAssumption, NEW t, Typed(t), Typed(Repaired(t))
  PROVE  Acyclic(Repaired(t))
  <1> SUFFICES ASSUME ~Acyclic(Repaired(t)) PROVE FALSE
    OBVIOUS
  <1>1. PICK u : u = Repaired(t)
    OBVIOUS
  <1>2. PICK S \in SUBSET LiveIn(u, Host) :
          S # {} /\ \A h \in S : Jump(u, h) # {} /\ Jump(u, h) \subseteq S
    BY <1>1, NoEnd
  <1>3. S \subseteq Host /\ Host \subseteq Record /\ IsFiniteSet(S)
    <2>1. S \subseteq Host
      BY DEF LiveIn
    <2>2. QED
      BY <2>1, Disjoint, FS_Subset
  <1>4. ASSUME NEW h \in S
        PROVE  /\ h \notin Breakers(t) /\ Jump(t, h) = Jump(u, h) /\ h \in LiveIn(t, Host)
               /\ \A x, y \in Jump(t, h) : x = y
    <2>1. h \in Record /\ h \in Host /\ u[h].live /\ t[h] \in Row
      BY <1>3, RowsAre DEF LiveIn
    <2>2. u[h] = IF h \in Breakers(t)
                 THEN [t[h] EXCEPT !.refs = @ \ Host, !.ts = IF @ < clock THEN clock + 1 ELSE @ + 1]
                 ELSE t[h]
      BY <1>1, <2>1 DEF Repaired
    <2>3. h \notin Breakers(t)
      <3> SUFFICES ASSUME h \in Breakers(t) PROVE FALSE
        OBVIOUS
      <3>1. u[h].refs = t[h].refs \ Host
        BY <2>1, <2>2 DEF Row
      <3>2. QED
        BY <1>2, <3>1 DEF Jump
    <2>4. u[h] = t[h]
      BY <2>2, <2>3
    <2>5. QED
      BY <2>1, <2>3, <2>4 DEF LiveIn, Jump, Typed
  <1> DEFINE Closed == {D \in SUBSET S : D # {} /\ \A h \in D : Jump(t, h) \subseteq D}
  <1>5. S \in Closed
    BY <1>2, <1>4
  <1>6. PICK C \in Closed : \A D \in Closed : D \subseteq C => D = C
    <2>1. Closed \in SUBSET SUBSET S /\ Closed # {}
      BY <1>5
    <2> HIDE DEF Closed
    <2>2. QED
      BY <1>3, <2>1, LeastMember
  <1>7. C \subseteq S /\ C # {} /\ \A h \in C : Jump(t, h) \subseteq C /\ Jump(t, h) # {}
    BY <1>2, <1>4
  <1>8. ASSUME NEW D \in SUBSET C, ClosedLoop(t, D)
        PROVE  D = C
    <2>1. D \in Closed
      BY <1>7, <1>8 DEF ClosedLoop
    <2>2. QED
      BY <1>6, <2>1
  <1>9. ClosedLoop(t, C)
    <2>1. PICK D : D = UNION {Jump(t, h) : h \in C}
      OBVIOUS
    <2>2. D \subseteq C
      BY <1>7, <2>1
    <2>3. D # {}
      BY <1>7, <2>1
    <2>4. \A h \in D : Jump(t, h) \subseteq D
      BY <2>1, <2>2
    <2>5. D \in Closed
      BY <1>7, <2>2, <2>3, <2>4
    <2>6. D = C
      BY <1>6, <2>2, <2>5
    <2>7. QED
      BY <1>7, <2>1, <2>6 DEF ClosedLoop
  <1>10. C \in Loops(t)
    BY <1>4, <1>7, <1>8, <1>9 DEF Loops
  <1>11. \E g \in C : \A h \in C : h <= g
    <2>1. C \subseteq Nat /\ IsFiniteSet(C)
      BY <1>3, <1>7, Disjoint, FS_Subset
    <2>2. QED
      BY <1>7, <2>1, FiniteMax
  <1>12. (CHOOSE h \in C : \A g \in C : g <= h) \in C
    BY <1>11
  <1>13. (CHOOSE h \in C : \A g \in C : g <= h) \in Breakers(t)
    BY <1>10 DEF Breakers
  <1>14. QED
    BY <1>4, <1>7, <1>12, <1>13

-----------------------------------------------------------------------------
(* Who may refer to whom.                                                  *)

LEMMA Referrers ==
  ASSUME CatalogAssumption, NEW t, Typed(t), NEW u \in Record, NEW x \in t[u].refs
  PROVE  /\ x \in Record /\ x \notin Forward \cup Bookmark \cup Task \cup Proxy
         /\ x \in Key => u \in Host \cup Identity
         /\ x \in Identity => u \in Host
         /\ x \in Host => u \in Host \cup Forward \cup Bookmark \cup Task
  <1>1. x \in MayReferTo(u) /\ x \in Record
    BY RowsAre DEF Typed
  <1>2. CASE u \in Host
    <2>1. MayReferTo(u) = Key \cup Identity \cup Host
      BY <1>2, Disjoint DEF MayReferTo
    <2>2. QED
      BY <1>1, <1>2, <2>1, Disjoint
  <1>3. CASE u \in Identity
    <2>1. MayReferTo(u) = Key
      BY <1>3, Disjoint DEF MayReferTo
    <2>2. QED
      BY <1>1, <1>3, <2>1, Disjoint
  <1>4. CASE u \in Forward \cup Bookmark \cup Task
    <2>1. MayReferTo(u) = Host
      BY <1>4, Disjoint DEF MayReferTo
    <2>2. QED
      BY <1>1, <1>4, <2>1, Disjoint
  <1>5. CASE u \notin Host \cup Identity \cup Forward \cup Bookmark \cup Task
    <2>1. MayReferTo(u) = {}
      BY <1>5 DEF MayReferTo
    <2>2. QED
      BY <1>1, <2>1
  <1>6. QED
    BY <1>2, <1>3, <1>4, <1>5

LEMMA MayRefer ==
  ASSUME CatalogAssumption
  PROVE  /\ \A h \in Host : MayReferTo(h) = Key \cup Identity \cup Host
         /\ \A i \in Identity : MayReferTo(i) = Key
         /\ \A r \in Forward \cup Bookmark \cup Task : MayReferTo(r) = Host
         /\ Key \subseteq Record /\ Identity \subseteq Record /\ Host \subseteq Record
         /\ Forward \cup Bookmark \cup Task \cup Proxy \subseteq Record
  <1>1. \A h \in Host : MayReferTo(h) = Key \cup Identity \cup Host
    BY Disjoint DEF MayReferTo
  <1>2. \A i \in Identity : MayReferTo(i) = Key
    BY Disjoint DEF MayReferTo
  <1>3. \A r \in Forward \cup Bookmark \cup Task : MayReferTo(r) = Host
    BY Disjoint DEF MayReferTo
  <1>4. QED
    BY <1>1, <1>2, <1>3 DEF Record

(* A pair of a dangling reference.                                         *)
LEMMA DanglingPairs ==
  ASSUME NEW t, NEW E
  PROVE  Dangling(t) \subseteq E
         <=> \A r, x \in Record : t[r].live /\ x \in t[r].refs /\ ~t[x].live => <<r, x>> \in E
  <1>1. ASSUME Dangling(t) \subseteq E, NEW r \in Record, NEW x \in Record,
               t[r].live, x \in t[r].refs, ~t[x].live
        PROVE  <<r, x>> \in E
    BY <1>1 DEF Dangling
  <1>2. ASSUME \A r, x \in Record : t[r].live /\ x \in t[r].refs /\ ~t[x].live => <<r, x>> \in E,
               NEW p \in Dangling(t)
        PROVE  p \in E
    <2>1. p \in Record \X Record /\ t[p[1]].live /\ p[2] \in t[p[1]].refs /\ ~t[p[2]].live
      BY DEF Dangling
    <2>2. p = <<p[1], p[2]>> /\ p[1] \in Record /\ p[2] \in Record
      BY <2>1
    <2>3. QED
      BY <1>2, <2>1, <2>2
  <1>3. QED
    BY <1>1, <1>2

-----------------------------------------------------------------------------
(* One device writes its tables.                                           *)
Others ==
  /\ active' \in [Device -> Proxy \cup {None}] /\ clock' \in Nat
  /\ importing' \in [Device -> [on : BOOLEAN, keys : SUBSET Key, hosts : SUBSET Host]]
  /\ excused' \in [Device -> SUBSET (Record \X Record)]
  /\ \A d \in Device : excused[d] \subseteq excused'[d]

LEMMA TableWritten ==
  ASSUME Inv, Others, NEW d \in Device, NEW t, Typed(t), Acyclic(t),
         Dangling(t) \subseteq excused'[d], db' = [db EXCEPT ![d] = t]
  PROVE  Inv'
  <1>1. db \in [Device -> [Record -> Row]] /\ t \in [Record -> Row]
    BY DEF Inv, TypeOK, Typed
  <1>2. \A e \in Device : db'[e] = IF e = d THEN t ELSE db[e]
    BY <1>1
  <1>3. db' \in [Device -> [Record -> Row]]
    BY <1>1
  <1>4. ASSUME NEW e \in Device
        PROVE  Typed(db'[e]) /\ Acyclic(db'[e]) /\ Dangling(db'[e]) \subseteq excused'[e]
    <2>1. CASE e = d
      BY <1>2, <2>1
    <2>2. CASE e # d
      <3>1. db'[e] = db[e]
        BY <1>2, <2>2
      <3>2. Dangling(db[e]) \subseteq excused[e] /\ excused[e] \subseteq excused'[e]
        BY DEF Inv, ReferencesHold, Others
      <3>3. QED
        BY <3>1, <3>2 DEF Inv
    <2>3. QED
      BY <2>1, <2>2
  <1>5. TypeOK'
    BY <1>3 DEF TypeOK, Others
  <1>6. ReferencesHold'
    BY <1>4 DEF ReferencesHold
  <1>7. \A e \in Device : (Typed(db[e]) /\ Acyclic(db[e]))'
    BY <1>4 DEF Typed, Acyclic, Jump, LiveIn
  <1>8. QED
    BY <1>5, <1>6, <1>7 DEF Inv, Others

(* The other variables, when an operation leaves them alone.               *)
LEMMA OthersSame ==
  ASSUME Inv, Same, clock' \in Nat
  PROVE  Others
  BY DEF Inv, TypeOK, Same, Others

-----------------------------------------------------------------------------
(* A user saves one record: what it refers to is live, or excused.         *)
LEMMA SaveOK ==
  ASSUME CatalogAssumption, Inv, Others, NEW d \in Device, NEW r \in Record,
         NEW refs, refs \subseteq MayReferTo(r), refs \subseteq Record,
         r \in Host => \A x, y \in refs \cap Host : x = y,
         r \in Host => \/ ValidHost(db[d], r, refs)
                       \/ db[d][r].live /\ refs = db[d][r].refs,
         \A x \in refs : db[d][x].live \/ <<r, x>> \in excused'[d],
         Write(d, Saved(db[d], r, refs))
  PROVE  Inv'
  <1>1. PICK t, u : t = db[d] /\ u = Saved(t, r, refs)
    OBVIOUS
  <1>2. Typed(t) /\ Acyclic(t) /\ clock \in Nat /\ Dangling(t) \subseteq excused[d]
    BY <1>1 DEF Inv, TypeOK, ReferencesHold
  <1>3. t \in [Record -> Row]
    BY <1>2 DEF Typed
  <1>4. \A x \in Record : u[x] = IF x = r THEN [ts |-> clock + 1, live |-> TRUE, refs |-> refs]
                                  ELSE t[x]
    BY <1>1, <1>3 DEF Saved
  <1>5. u[r].live = TRUE /\ u[r].refs = refs /\ \A x \in Record \ {r} : u[x] = t[x]
    BY <1>4
  <1>6. u \in [Record -> Row]
    <2>1. [ts |-> clock + 1, live |-> TRUE, refs |-> refs] \in Row
      BY <1>2 DEF Row
    <2>2. QED
      BY <1>1, <1>3, <2>1 DEF Saved
  <1>7. Typed(u)
    <2>1. \A x \in Record : u[x].refs \subseteq MayReferTo(x)
      BY <1>2, <1>5 DEF Typed
    <2>2. \A h \in Host : \A x, y \in Jump(u, h) : x = y
      BY <1>2, <1>5, MayRefer DEF Typed, Jump
    <2>3. QED
      BY <1>6, <2>1, <2>2 DEF Typed
  <1>8. Acyclic(u)
    <2>1. CASE r \in Host /\ ValidHost(t, r, refs)
      <3>1. Jump(u, r) = refs \cap Host
        BY <1>5 DEF Jump
      <3>2. \A g \in Host \ {r} : Jump(u, g) = Jump(t, g) /\ (u[g].live => t[g].live)
        BY <1>5, MayRefer DEF Jump
      <3>3. QED
        BY <1>2, <2>1, <3>1, <3>2, SaveHostAcyclic
    <2>2. CASE r \notin Host \/ (t[r].live /\ refs = t[r].refs)
      <3>1. \A h \in Host : u[h].live => t[h].live /\ u[h].refs = t[h].refs
        BY <1>5, <2>2, MayRefer
      <3>2. QED
        BY <1>2, <3>1, StaysAcyclic
    <2>3. QED
      BY <1>1, <2>1, <2>2
  <1>9. Dangling(u) \subseteq excused'[d]
    <2>1. ASSUME NEW s \in Record, NEW x \in Record, u[s].live, x \in u[s].refs, ~u[x].live
          PROVE  <<s, x>> \in excused'[d]
      <3>1. x # r /\ ~t[x].live
        BY <1>5, <2>1
      <3>2. CASE s = r
        BY <1>1, <1>5, <2>1, <3>1, <3>2
      <3>3. CASE s # r
        <4>1. t[s].live /\ x \in t[s].refs
          BY <1>5, <2>1, <3>3
        <4>2. <<s, x>> \in excused[d]
          BY <1>2, <3>1, <4>1, DanglingPairs
        <4>3. QED
          BY <4>2 DEF Others
      <3>4. QED
        BY <3>2, <3>3
    <2>2. QED
      BY <2>1, DanglingPairs
  <1>10. db' = [db EXCEPT ![d] = u]
    BY <1>1 DEF Write
  <1>11. QED
    BY <1>7, <1>8, <1>9, <1>10, TableWritten

(* A user deletes records that no other live record refers to.             *)
LEMMA DeleteOK ==
  ASSUME CatalogAssumption, Inv, Others, NEW d \in Device, NEW gone, gone \subseteq Record,
         \A u \in Record \ gone : db[d][u].live => db[d][u].refs \cap gone = {},
         Write(d, Tombstone(db[d], gone))
  PROVE  Inv'
  <1>1. PICK t, u : t = db[d] /\ u = Tombstone(t, gone)
    OBVIOUS
  <1>2. Typed(t) /\ Acyclic(t) /\ clock \in Nat /\ Dangling(t) \subseteq excused[d]
    BY <1>1 DEF Inv, TypeOK, ReferencesHold
  <1>3. ASSUME NEW r \in Record
        PROVE  /\ u[r] \in Row /\ u[r].refs = t[r].refs
               /\ r \in gone => u[r].live = FALSE
               /\ r \notin gone => u[r] = t[r]
    <2>1. t[r] \in Row
      BY <1>2, RowsAre
    <2>2. u[r] = IF r \in gone THEN [t[r] EXCEPT !.ts = clock + 1, !.live = FALSE] ELSE t[r]
      BY <1>1 DEF Tombstone
    <2>3. CASE r \in gone
      <3>1. u[r] = [t[r] EXCEPT !.ts = clock + 1, !.live = FALSE]
        BY <2>2, <2>3
      <3>2. u[r] = [ts |-> clock + 1, live |-> FALSE, refs |-> t[r].refs]
        BY <2>1, <3>1 DEF Row
      <3>3. u[r] \in Row /\ u[r].refs = t[r].refs /\ u[r].live = FALSE
        <4>1. clock + 1 \in Nat /\ t[r].refs \in SUBSET Record
          BY <1>2, <2>1 DEF Row
        <4>2. QED
          BY <3>2, <4>1 DEF Row
      <3>4. QED
        BY <2>3, <3>3
    <2>4. CASE r \notin gone
      BY <2>1, <2>2, <2>4
    <2>5. QED
      BY <2>3, <2>4
  <1>4. u \in [Record -> Row]
    BY <1>1, <1>3 DEF Tombstone
  <1>5. Typed(u)
    <2>1. \A h \in Host : Jump(u, h) = Jump(t, h)
      BY <1>3, MayRefer DEF Jump
    <2>2. QED
      BY <1>2, <1>3, <1>4, <2>1 DEF Typed
  <1>6. Acyclic(u)
    <2>1. \A h \in Host : u[h].live => t[h].live /\ u[h].refs = t[h].refs
      BY <1>3, MayRefer
    <2>2. QED
      BY <1>2, <2>1, StaysAcyclic
  <1>7. Dangling(u) \subseteq excused'[d]
    <2>1. ASSUME NEW s \in Record, NEW x \in Record, u[s].live, x \in u[s].refs, ~u[x].live
          PROVE  <<s, x>> \in excused'[d]
      <3>1. s \notin gone /\ t[s].live /\ x \in t[s].refs
        BY <1>3, <2>1
      <3>2. x \notin gone
        BY <1>1, <3>1
      <3>3. ~t[x].live
        BY <1>3, <2>1, <3>2
      <3>4. <<s, x>> \in excused[d]
        BY <1>2, <3>1, <3>3, DanglingPairs
      <3>5. QED
        BY <3>4 DEF Others
    <2>2. QED
      BY <2>1, DanglingPairs
  <1>8. db' = [db EXCEPT ![d] = u]
    BY <1>1 DEF Write
  <1>9. QED
    BY <1>5, <1>6, <1>7, <1>8, TableWritten

-----------------------------------------------------------------------------
(* The operations of the user.                                             *)

LEMMA WriteClock ==
  ASSUME Inv, NEW d, NEW t, Write(d, t)
  PROVE  clock' \in Nat
  BY DEF Inv, TypeOK, Write

(* The references of a record as it is.                                    *)
LEMMA OwnRefs ==
  ASSUME CatalogAssumption, Inv, NEW d \in Device, NEW r \in Record, db[d][r].live
  PROVE  /\ db[d][r].refs \subseteq MayReferTo(r) /\ db[d][r].refs \subseteq Record
         /\ r \in Host => \A x, y \in db[d][r].refs \cap Host : x = y
         /\ \A x \in db[d][r].refs : db[d][x].live \/ <<r, x>> \in excused[d]
  <1>1. Typed(db[d]) /\ Dangling(db[d]) \subseteq excused[d]
    BY DEF Inv, ReferencesHold
  <1>2. db[d][r].refs \subseteq MayReferTo(r) /\ db[d][r].refs \subseteq Record
    BY <1>1, RowsAre DEF Typed
  <1>3. r \in Host => \A x, y \in db[d][r].refs \cap Host : x = y
    BY <1>1 DEF Typed, Jump
  <1>4. ASSUME NEW x \in db[d][r].refs, ~db[d][x].live
        PROVE  <<r, x>> \in excused[d]
    BY <1>1, <1>2, <1>4, DanglingPairs
  <1>5. QED
    BY <1>2, <1>3, <1>4

LEMMA SavesOK ==
  ASSUME CatalogAssumption, Inv, NEW d \in Device,
         \/ SaveKey(d) \/ SaveIdentity(d) \/ SaveHost(d) \/ SaveForward(d)
         \/ CreateBookmark(d) \/ SaveProxy(d)
  PROVE  Inv'
  <1>1. PICK r, refs :
          /\ r \in Record /\ Same /\ Write(d, Saved(db[d], r, refs))
          /\ refs \subseteq MayReferTo(r) /\ \A x, y \in refs \cap Host : x = y
          /\ \A x \in refs : db[d][x].live
          /\ r \in Host => ValidHost(db[d], r, refs)
    <2>1. CASE SaveKey(d) \/ SaveProxy(d)
      <3>1. PICK r \in Key \cup Proxy : Same /\ Write(d, Saved(db[d], r, {}))
        BY <2>1 DEF SaveKey, SaveProxy
      <3>2. r \in Record /\ r \notin Host
        BY MayRefer, Disjoint
      <3>3. QED
        BY <3>1, <3>2
    <2>2. CASE SaveIdentity(d)
      <3>1. PICK i \in Identity, refs \in IdentityInput :
              Same /\ ValidReference(db[d], refs) /\ Write(d, Saved(db[d], i, refs))
        BY <2>2 DEF SaveIdentity
      <3>2. refs \subseteq Key
        BY DEF IdentityInput, Optional
      <3>3. i \in Record /\ i \notin Host /\ refs \subseteq MayReferTo(i) /\ refs \cap Host = {}
        BY <3>2, MayRefer, Disjoint
      <3>4. QED
        BY <3>1, <3>3 DEF ValidReference
    <2>3. CASE SaveHost(d)
      <3>1. PICK h \in Host, refs \in HostInput :
              Same /\ ValidHost(db[d], h, refs) /\ Write(d, Saved(db[d], h, refs))
        BY <2>3 DEF SaveHost
      <3>2. PICK login \in Optional(Key \cup Identity), jump \in Optional(Host) :
              refs = login \cup jump
        BY DEF HostInput
      <3>3. login \subseteq Key \cup Identity /\ jump \subseteq Host /\ \A x, y \in jump : x = y
        BY DEF Optional
      <3>4. login \cap Host = {}
        BY <3>3, Disjoint
      <3>5. refs \subseteq MayReferTo(h) /\ refs \cap Host = jump /\ h \in Record
        BY <3>2, <3>3, <3>4, MayRefer
      <3>6. QED
        BY <3>1, <3>3, <3>5 DEF ValidHost
    <2>4. CASE SaveForward(d) \/ CreateBookmark(d)
      <3>1. PICK r \in Forward \cup Bookmark, refs \in ForwardInput \cup BookmarkInput :
              Same /\ ValidReference(db[d], refs) /\ Write(d, Saved(db[d], r, refs))
        BY <2>4 DEF SaveForward, CreateBookmark
      <3>2. refs \subseteq Host /\ \A x, y \in refs : x = y
        BY DEF ForwardInput, BookmarkInput, Optional
      <3>3. r \in Record /\ r \notin Host /\ refs \subseteq MayReferTo(r)
        BY <3>2, MayRefer, Disjoint
      <3>4. QED
        BY <3>1, <3>2, <3>3 DEF ValidReference
    <2>5. QED
      BY <2>1, <2>2, <2>3, <2>4
  <1>2. Others
    BY <1>1, OthersSame, WriteClock
  <1>3. refs \subseteq Record
    BY <1>1, MayRefer DEF MayReferTo
  <1>4. QED
    BY <1>1, <1>2, <1>3, SaveOK

LEMMA TouchesOK ==
  ASSUME CatalogAssumption, Inv, NEW d \in Device, TouchHost(d) \/ UpdateLabel(d)
  PROVE  Inv'
  <1>1. PICK r \in Host \cup Bookmark :
          /\ r \in LiveIn(db[d], Host \cup Bookmark)
          /\ Same /\ Write(d, Saved(db[d], r, db[d][r].refs))
    BY DEF TouchHost, UpdateLabel, LiveIn
  <1>2. r \in Record /\ db[d][r].live
    BY <1>1, MayRefer DEF LiveIn
  <1>3. Others /\ UNCHANGED excused
    BY <1>1, OthersSame, WriteClock DEF Same
  <1>4. PICK refs : refs = db[d][r].refs
    OBVIOUS
  <1>5. /\ refs \subseteq MayReferTo(r) /\ refs \subseteq Record
        /\ \A x \in refs : db[d][x].live \/ <<r, x>> \in excused'[d]
    BY <1>2, <1>3, <1>4, OwnRefs
  <1>6. r \in Host => \A x, y \in refs \cap Host : x = y
    BY <1>2, <1>4, OwnRefs
  <1>7. QED
    BY <1>1, <1>2, <1>3, <1>4, <1>5, <1>6, SaveOK

(* More is excused on a device.                                            *)
LEMMA ExcusedMore ==
  ASSUME Inv, NEW d \in Device, NEW E \in SUBSET (Record \X Record), clock' \in Nat,
         excused' = [excused EXCEPT ![d] = @ \cup E], UNCHANGED active,
         importing' \in [Device -> [on : BOOLEAN, keys : SUBSET Key, hosts : SUBSET Host]]
  PROVE  Others /\ excused'[d] = excused[d] \cup E
  <1>1. excused \in [Device -> SUBSET (Record \X Record)]
    BY DEF Inv, TypeOK
  <1>2. \A e \in Device : excused'[e] = IF e = d THEN excused[d] \cup E ELSE excused[e]
    BY <1>1
  <1>3. excused' \in [Device -> SUBSET (Record \X Record)]
    <2>1. \A e \in Device : excused[e] \in SUBSET (Record \X Record)
      BY <1>1
    <2>2. excused[d] \cup E \in SUBSET (Record \X Record)
      BY <2>1
    <2>3. QED
      BY <1>1, <2>2
  <1>4. active' \in [Device -> Proxy \cup {None}]
    BY DEF Inv, TypeOK
  <1>5. \A e \in Device : excused[e] \subseteq excused'[e]
    BY <1>2
  <1>6. QED
    BY <1>2, <1>3, <1>4, <1>5 DEF Others

LEMMA SaveTaskOK ==
  ASSUME CatalogAssumption, Inv, NEW d \in Device, SaveTask(d)
  PROVE  Inv'
  <1>1. PICK t \in Task, refs \in TaskInput :
          /\ Write(d, Saved(db[d], t, refs))
          /\ excused' = [excused EXCEPT ![d] = @ \cup ({t} \X {x \in refs : ~db[d][x].live})]
          /\ UNCHANGED <<active, importing>>
    BY DEF SaveTask
  <1>2. refs \subseteq Host
    BY DEF TaskInput, Optional
  <1>3. t \in Record /\ t \notin Host /\ refs \subseteq MayReferTo(t) /\ refs \subseteq Record
    BY <1>2, MayRefer, Disjoint
  <1>4. PICK E : E = {t} \X {x \in refs : ~db[d][x].live}
    OBVIOUS
  <1>5. E \in SUBSET (Record \X Record) /\ excused' = [excused EXCEPT ![d] = @ \cup E]
    BY <1>1, <1>3, <1>4
  <1>6. clock' \in Nat /\ UNCHANGED active
        /\ importing' \in [Device -> [on : BOOLEAN, keys : SUBSET Key, hosts : SUBSET Host]]
    BY <1>1, WriteClock DEF Inv
  <1>7. Others /\ excused'[d] = excused[d] \cup E
    BY <1>5, <1>6, ExcusedMore
  <1>8. \A x \in refs : db[d][x].live \/ <<t, x>> \in excused'[d]
    BY <1>4, <1>7
  <1>9. QED
    BY <1>1, <1>3, <1>7, <1>8, SaveOK

LEMMA DeletesOK ==
  ASSUME CatalogAssumption, Inv, NEW d \in Device,
         \/ DeleteKey(d) \/ DeleteIdentity(d) \/ DeleteHost(d) \/ DeleteOther(d)
         \/ DeleteProxy(d)
  PROVE  Inv'
  <1>1. PICK t : t = db[d] /\ Typed(t)
    BY DEF Inv
  <1>2. PICK gone :
          /\ Write(d, Tombstone(t, gone)) /\ gone \subseteq Record
          /\ \A u \in Record \ gone : t[u].live => t[u].refs \cap gone = {}
    <2>1. CASE DeleteKey(d)
      <3>1. PICK k \in Key : Users(t, k, Host \cup Identity) = {} /\ Write(d, Tombstone(t, {k}))
        BY <1>1, <2>1 DEF DeleteKey, LiveIn
      <3>2. ASSUME NEW u \in Record, t[u].live, k \in t[u].refs PROVE FALSE
        <4>1. u \in Host \cup Identity
          BY <1>1, <3>2, Referrers
        <4>2. u \in Users(t, k, Host \cup Identity)
          BY <3>2, <4>1 DEF Users, LiveIn
        <4>3. QED
          BY <3>1, <4>2
      <3>3. QED
        BY <3>1, <3>2, MayRefer
    <2>2. CASE DeleteIdentity(d)
      <3>1. PICK i \in Identity : Users(t, i, Host) = {} /\ Write(d, Tombstone(t, {i}))
        BY <1>1, <2>2 DEF DeleteIdentity, LiveIn
      <3>2. ASSUME NEW u \in Record, t[u].live, i \in t[u].refs PROVE FALSE
        <4>1. u \in Host
          BY <1>1, <3>2, Referrers
        <4>2. u \in Users(t, i, Host)
          BY <3>2, <4>1 DEF Users, LiveIn
        <4>3. QED
          BY <3>1, <4>2
      <3>3. QED
        BY <3>1, <3>2, MayRefer
    <2>3. CASE DeleteHost(d)
      <3>1. PICK h \in Host :
              /\ Users(t, h, Host \ {h}) = {} /\ Users(t, h, Forward \cup Task) = {}
              /\ Write(d, Tombstone(t, {h} \cup Users(t, h, Bookmark)))
        BY <1>1, <2>3 DEF DeleteHost, LiveIn
      <3>2. PICK gone : gone = {h} \cup Users(t, h, Bookmark)
        OBVIOUS
      <3>3. gone \subseteq {h} \cup Bookmark
        BY <3>2 DEF Users, LiveIn
      <3>4. ASSUME NEW u \in Record \ gone, t[u].live, NEW x \in t[u].refs, x \in gone
            PROVE  FALSE
        <4>1. x = h
          BY <1>1, <3>3, <3>4, Referrers
        <4>2. u \in Host \cup Forward \cup Bookmark \cup Task
          BY <1>1, <4>1, Referrers
        <4>3. u \in Users(t, h, Host \ {h}) \cup Users(t, h, Forward \cup Task) \cup gone
          BY <3>2, <3>4, <4>1, <4>2 DEF Users, LiveIn
        <4>4. QED
          BY <3>1, <4>3
      <3>5. QED
        BY <3>1, <3>2, <3>3, <3>4, MayRefer
    <2>4. CASE DeleteOther(d) \/ DeleteProxy(d)
      <3>1. PICK r \in Forward \cup Bookmark \cup Task \cup Proxy : Write(d, Tombstone(t, {r}))
        BY <1>1, <2>4 DEF DeleteOther, DeleteProxy, LiveIn
      <3>2. \A u \in Record : r \notin t[u].refs
        BY <1>1, Referrers
      <3>3. QED
        BY <3>1, <3>2, MayRefer
    <2>5. QED
      BY <2>1, <2>2, <2>3, <2>4
  <1>3. Others
    <2>1. clock' \in Nat
      BY <1>2, WriteClock
    <2>2. CASE DeleteKey(d) \/ DeleteIdentity(d) \/ DeleteHost(d) \/ DeleteOther(d)
      BY <2>1, <2>2, OthersSame DEF DeleteKey, DeleteIdentity, DeleteHost, DeleteOther
    <2>3. CASE DeleteProxy(d)
      BY <2>1, <2>3 DEF DeleteProxy, Others, Inv, TypeOK
    <2>4. QED
      BY <2>2, <2>3
  <1>4. QED
    BY <1>1, <1>2, <1>3, DeleteOK

-----------------------------------------------------------------------------
(* Import and merge.                                                       *)

(* A key that was deleted under an import is excused; every other reference *)
(* of an imported host is in a chain of live hosts.                        *)
LEMMA ImportOK ==
  ASSUME CatalogAssumption, Inv, NEW d \in Device, ImportApply(d)
  PROVE  Inv'
  <1>1. PICK hosts, key, jump :
          /\ hosts \in SUBSET {h \in Host : Unused(h)}
          /\ key \in Optional(importing[d].keys \cup {k \in Key : Unused(k)})
          /\ jump \in Optional(importing[d].hosts \cup hosts)
          /\ ImportRows(d, hosts, key, jump)
    BY DEF ImportApply
  <1>2. PICK t, u, made, E :
          /\ t = db[d] /\ u = Imported(d, hosts, key, jump) /\ made = {k \in key : Unused(k)}
          /\ E = hosts \X {k \in key : ~u[k].live}
    OBVIOUS
  <1>3. /\ ValidJumpGraph(u) /\ Write(d, u)
        /\ excused' = [excused EXCEPT ![d] = @ \cup E] /\ UNCHANGED active
    BY <1>1, <1>2 DEF ImportApply, ImportRows
  <1>4. Typed(t) /\ clock \in Nat /\ Dangling(t) \subseteq excused[d]
        /\ importing \in [Device -> [on : BOOLEAN, keys : SUBSET Key, hosts : SUBSET Host]]
    BY <1>2 DEF Inv, TypeOK, ReferencesHold
  <1>5. importing[d].keys \subseteq Key /\ importing[d].hosts \subseteq Host
    BY <1>4
  <1>6. /\ hosts \subseteq Host /\ key \subseteq Key /\ made \subseteq key
        /\ jump \subseteq Host /\ \A x, y \in jump : x = y
    <2>1. hosts \subseteq Host /\ made \subseteq key
      BY <1>1, <1>2
    <2>2. key \subseteq Key
      BY <1>1, <1>5 DEF Optional
    <2>3. jump \subseteq Host /\ \A x, y \in jump : x = y
      BY <1>1, <1>5, <2>1 DEF Optional
    <2>4. QED
      BY <2>1, <2>2, <2>3
  <1>7. /\ hosts \subseteq Record /\ made \subseteq Record /\ \A h \in hosts : h \notin made
        /\ key \cap Host = {} /\ key \subseteq Record /\ jump \subseteq Record
    BY <1>6, MayRefer, Disjoint
  <1>8. /\ u = [r \in Record |->
                 IF r \in hosts
                 THEN [ts |-> clock + 1, live |-> TRUE, refs |-> key \cup (jump \ {r})]
                 ELSE IF r \in made THEN [ts |-> clock + 1, live |-> TRUE, refs |-> {}]
                 ELSE t[r]]
    BY <1>2 DEF Imported
  <1>9. ASSUME NEW r \in Record
        PROVE  /\ u[r] \in Row /\ u[r].refs \subseteq MayReferTo(r)
               /\ r \in hosts => u[r].live = TRUE /\ u[r].refs = key \cup (jump \ {r})
               /\ r \in made => u[r].live = TRUE /\ u[r].refs = {}
               /\ r \notin hosts \cup made => u[r] = t[r]
    <2>1. CASE r \in hosts
      <3>1. u[r] = [ts |-> clock + 1, live |-> TRUE, refs |-> key \cup (jump \ {r})]
        BY <1>8, <2>1
      <3>2. key \cup (jump \ {r}) \in SUBSET Record /\ clock + 1 \in Nat
        BY <1>4, <1>7
      <3>3. u[r] \in Row
        BY <3>1, <3>2 DEF Row
      <3>4. key \cup (jump \ {r}) \subseteq MayReferTo(r)
        BY <1>6, <2>1, MayRefer
      <3>5. QED
        BY <1>7, <2>1, <3>1, <3>3, <3>4
    <2>2. CASE r \in made
      <3>1. u[r] = [ts |-> clock + 1, live |-> TRUE, refs |-> {}]
        BY <1>7, <1>8, <2>2
      <3>2. clock + 1 \in Nat
        BY <1>4
      <3>3. u[r] \in Row
        BY <3>1, <3>2 DEF Row
      <3>4. QED
        BY <1>7, <2>2, <3>1, <3>3
    <2>3. CASE r \notin hosts \cup made
      BY <1>4, <1>8, <2>3, RowsAre DEF Typed
    <2>4. QED
      BY <2>1, <2>2, <2>3
  <1>10. Typed(u)
    <2>1. u \in [Record -> Row]
      BY <1>8, <1>9
    <2>2. ASSUME NEW h \in Host, NEW x \in Jump(u, h), NEW y \in Jump(u, h)
          PROVE  x = y
      <3>1. CASE h \in hosts
        <4>1. u[h].refs = key \cup (jump \ {h})
          BY <1>7, <1>9, <3>1
        <4>2. Jump(u, h) \subseteq jump
          BY <1>7, <4>1 DEF Jump
        <4>3. QED
          BY <1>6, <4>2
      <3>2. CASE h \notin hosts
        <4>1. h \notin made /\ h \in Record
          BY <1>6, <1>7, MayRefer
        <4>2. u[h] = t[h]
          BY <1>9, <3>2, <4>1
        <4>3. QED
          BY <1>4, <4>2 DEF Typed, Jump
      <3>3. QED
        BY <3>1, <3>2
    <2>3. QED
      BY <1>9, <2>1, <2>2 DEF Typed
  <1>11. Acyclic(u)
    BY <1>3, <1>10, ValidGraphAcyclic
  <1>12. Others /\ excused'[d] = excused[d] \cup E
    <2>1. E \in SUBSET (Record \X Record)
      BY <1>2, <1>7
    <2>2. importing' \in [Device -> [on : BOOLEAN, keys : SUBSET Key, hosts : SUBSET Host]]
      BY <1>4 DEF ImportApply, NotImporting
    <2>3. clock' \in Nat
      BY <1>3, WriteClock
    <2>4. QED
      BY <1>3, <2>1, <2>2, <2>3, ExcusedMore
  <1>13. Dangling(u) \subseteq excused'[d]
    <2>1. ASSUME NEW s \in Record, NEW x \in Record, u[s].live, x \in u[s].refs, ~u[x].live
          PROVE  <<s, x>> \in excused[d] \cup E
      <3>1. x \notin hosts /\ x \notin made
        BY <1>9, <2>1
      <3>2. ~t[x].live
        BY <1>9, <2>1, <3>1
      <3>3. CASE s \in hosts
        <4>1. x \in key \cup (jump \ {s})
          BY <1>9, <2>1, <3>3
        <4>2. CASE x \in key
          BY <1>2, <2>1, <3>3, <4>2
        <4>3. CASE x \in jump
          <5>1. s \in Host /\ s \in LiveIn(u, Host) /\ x \in Jump(u, s)
            BY <1>6, <2>1, <3>3, <4>3 DEF LiveIn, Jump
          <5>2. x \in Chain(u, s)
            BY <5>1, ChainIsClosed
          <5>3. u[x].live
            BY <1>3, <5>1, <5>2 DEF ValidJumpGraph, IsChain
          <5>4. QED
            BY <2>1, <5>3
        <4>4. QED
          BY <4>1, <4>2, <4>3
      <3>4. CASE s \notin hosts
        <4>1. s \notin made
          BY <1>9, <2>1
        <4>2. t[s].live /\ x \in t[s].refs
          BY <1>9, <2>1, <3>4, <4>1
        <4>3. <<s, x>> \in excused[d]
          BY <1>4, <3>2, <4>2, DanglingPairs
        <4>4. QED
          BY <4>3
      <3>5. QED
        BY <3>3, <3>4
    <2>2. QED
      BY <1>12, <2>1, DanglingPairs
  <1>14. QED
    BY <1>3, <1>10, <1>11, <1>12, <1>13, TableWritten DEF Write

(* What a merge breaks is excused, loops it closes are broken.             *)
LEMMA ReceiveOK ==
  ASSUME CatalogAssumption, Inv, NEW d \in Device, Merge(d) \/ Restore(d)
  PROVE  Inv'
  <1>1. PICK e \in Device : Receive(d, Newer(db[d], db[e])) \/ Receive(d, db[e])
    BY DEF Merge, Restore
  <1>2. Typed(db[d]) /\ Typed(db[e]) /\ clock \in Nat
    BY DEF Inv, TypeOK
  <1>3. Typed(Newer(db[d], db[e]))
    <2>1. PICK m, o, n : m = db[d] /\ o = db[e] /\ n = Newer(m, o) /\ Typed(m) /\ Typed(o)
      BY <1>2
    <2>2. \A r \in Record : n[r] = IF o[r].ts > m[r].ts THEN o[r] ELSE m[r]
      BY <2>1 DEF Newer
    <2>3. \A r \in Record : n[r] = o[r] \/ n[r] = m[r]
      BY <2>2
    <2>4. n \in [Record -> Row]
      BY <2>1, <2>3, RowsAre DEF Newer
    <2>5. \A r \in Record : n[r].refs \subseteq MayReferTo(r)
      BY <2>1, <2>3 DEF Typed
    <2>6. \A h \in Host : \A x, y \in Jump(n, h) : x = y
      BY <2>1, <2>3, MayRefer DEF Typed, Jump
    <2>7. QED
      BY <2>1, <2>4, <2>5, <2>6 DEF Typed
  <1>4. PICK t : Typed(t) /\ Receive(d, t)
    BY <1>1, <1>2, <1>3
  <1>5. PICK u : u = Repaired(t)
    OBVIOUS
  <1>6. \A r \in Record : u[r] \in Row /\ u[r].refs \subseteq t[r].refs
    <2> SUFFICES ASSUME NEW r \in Record
                 PROVE  u[r] \in Row /\ u[r].refs \subseteq t[r].refs
      OBVIOUS
    <2>1. t[r] \in Row /\ t[r].ts \in Nat
      BY <1>4, RowsAre
    <2>2. u[r] = IF r \in Breakers(t)
                 THEN [t[r] EXCEPT !.refs = @ \ Host, !.ts = IF @ < clock THEN clock + 1 ELSE @ + 1]
                 ELSE t[r]
      BY <1>5 DEF Repaired
    <2>3. CASE r \in Breakers(t)
      <3>1. PICK ts \in Nat : ts = IF t[r].ts < clock THEN clock + 1 ELSE t[r].ts + 1
        BY <1>2, <2>1
      <3>2. u[r] = [ts |-> ts, live |-> t[r].live, refs |-> t[r].refs \ Host]
        BY <2>1, <2>2, <2>3, <3>1 DEF Row
      <3>3. QED
        BY <2>1, <3>2 DEF Row
    <2>4. CASE r \notin Breakers(t)
      BY <2>1, <2>2, <2>4
    <2>5. QED
      BY <2>3, <2>4
  <1>7. Typed(u)
    <2>1. u \in [Record -> Row]
      BY <1>5, <1>6 DEF Repaired
    <2>2. \A h \in Host : Jump(u, h) \subseteq Jump(t, h)
      BY <1>6, MayRefer DEF Jump
    <2>3. QED
      BY <1>4, <1>6, <2>1, <2>2 DEF Typed
  <1>8. Acyclic(u)
    BY <1>4, <1>5, <1>7, RepairedAcyclic
  <1>9. PICK E : E = Dangling(u) /\ E \in SUBSET (Record \X Record)
    BY DEF Dangling
  <1>10. Others /\ excused'[d] = excused[d] \cup E
    <2>1. excused' = [excused EXCEPT ![d] = @ \cup E] /\ UNCHANGED <<active, importing>>
      BY <1>4, <1>5, <1>9 DEF Receive
    <2>2. clock' \in Nat
      BY <1>2, <1>4 DEF Receive
    <2>3. importing' \in [Device -> [on : BOOLEAN, keys : SUBSET Key, hosts : SUBSET Host]]
      BY <2>1 DEF Inv
    <2>4. QED
      BY <1>9, <2>1, <2>2, <2>3, ExcusedMore
  <1>11. Dangling(u) \subseteq excused'[d] /\ db' = [db EXCEPT ![d] = u]
    BY <1>4, <1>5, <1>9, <1>10 DEF Receive
  <1>12. QED
    BY <1>7, <1>8, <1>10, <1>11, TableWritten

(* Steps that leave the tables alone.                                      *)
LEMMA TablesSame ==
  ASSUME CatalogAssumption, Inv,
         \/ \E d \in Device : SetActive(d) \/ ImportRead(d) \/ ImportFails(d)
         \/ UNCHANGED vars
  PROVE  Inv'
  <1>1. UNCHANGED <<db, clock, excused>>
    BY DEF SetActive, ImportRead, ImportFails, vars
  <1>2. active' \in [Device -> Proxy \cup {None}]
    <2>1. CASE \E d \in Device : SetActive(d)
      BY <2>1 DEF SetActive, LiveIn, Inv, TypeOK
    <2>2. CASE UNCHANGED active
      BY <2>2 DEF Inv, TypeOK
    <2>3. QED
      BY <2>1, <2>2 DEF ImportRead, ImportFails, vars
  <1>3. importing' \in [Device -> [on : BOOLEAN, keys : SUBSET Key, hosts : SUBSET Host]]
    <2>1. CASE \E d \in Device : ImportRead(d)
      BY <2>1 DEF ImportRead, LiveIn, Inv
    <2>2. CASE \E d \in Device : ImportFails(d)
      BY <2>2 DEF ImportFails, NotImporting, Inv
    <2>3. CASE UNCHANGED importing
      BY <2>3 DEF Inv
    <2>4. QED
      BY <2>1, <2>2, <2>3 DEF SetActive, vars
  <1>4. \A d \in Device : (Typed(db[d]) /\ Acyclic(db[d]))'
    BY <1>1 DEF Inv, Typed, Acyclic, Jump, LiveIn
  <1>5. ReferencesHold'
    BY <1>1 DEF Inv, ReferencesHold, Dangling
  <1>6. \A d \in Device : importing'[d].keys \subseteq Key /\ importing'[d].hosts \subseteq Host
    BY <1>3
  <1>7. QED
    BY <1>1, <1>2, <1>3, <1>4, <1>5, <1>6 DEF Inv, TypeOK

-----------------------------------------------------------------------------
LEMMA InitOK ==
  ASSUME CatalogAssumption, Init
  PROVE  Inv
  <1>1. ASSUME NEW d \in Device, NEW r \in Record
        PROVE  db[d][r] \in Row /\ db[d][r].refs = {}
    BY DEF Init, Absent, Row
  <1>2. db \in [Device -> [Record -> Row]]
    <2>1. \A d \in Device : db[d] = [r \in Record |->
             IF r \in First THEN [ts |-> 1, live |-> TRUE, refs |-> {}] ELSE Absent]
      BY DEF Init
    <2>2. \A d \in Device : db[d] \in [Record -> Row]
      BY <1>1, <2>1
    <2>3. QED
      BY <2>2 DEF Init
  <1>3. importing \in [Device -> [on : BOOLEAN, keys : SUBSET Key, hosts : SUBSET Host]]
    BY DEF Init, NotImporting
  <1>4. TypeOK
    <2>1. \A d \in Device : importing[d].keys \subseteq Key /\ importing[d].hosts \subseteq Host
      BY <1>3
    <2>2. active \in [Device -> Proxy \cup {None}] /\ clock \in Nat
          /\ excused \in [Device -> SUBSET (Record \X Record)]
      BY DEF Init
    <2>3. QED
      BY <1>2, <2>1, <2>2 DEF TypeOK
  <1>5. ASSUME NEW d \in Device
        PROVE  Typed(db[d]) /\ Acyclic(db[d]) /\ Dangling(db[d]) \subseteq excused[d]
    <2>1. \A h \in Host : Jump(db[d], h) = {}
      BY <1>1, MayRefer DEF Jump
    <2>2. Typed(db[d])
      BY <1>1, <1>2, <2>1 DEF Typed
    <2>3. Acyclic(db[d])
      BY <2>1 DEF Acyclic, LiveIn
    <2>4. Dangling(db[d]) \subseteq excused[d]
      BY <1>1, DanglingPairs
    <2>5. QED
      BY <2>2, <2>3, <2>4
  <1>6. QED
    BY <1>3, <1>4, <1>5 DEF Inv, ReferencesHold

LEMMA NextOK ==
  ASSUME CatalogAssumption, Inv, [Next]_vars
  PROVE  Inv'
  <1>1. CASE Next
    <2>1. PICK d \in Device :
            \/ SaveKey(d) \/ SaveIdentity(d) \/ SaveHost(d) \/ TouchHost(d) \/ SaveForward(d)
            \/ CreateBookmark(d) \/ UpdateLabel(d) \/ SaveTask(d) \/ SaveProxy(d) \/ SetActive(d)
            \/ DeleteKey(d) \/ DeleteIdentity(d) \/ DeleteHost(d) \/ DeleteOther(d)
            \/ DeleteProxy(d)
            \/ ImportRead(d) \/ ImportApply(d) \/ ImportFails(d)
            \/ Merge(d) \/ Restore(d)
      BY <1>1 DEF Next
    <2>2. QED
      BY <2>1, SavesOK, TouchesOK, SaveTaskOK, DeletesOK, ImportOK, ReceiveOK, TablesSame
  <1>2. CASE UNCHANGED vars
    BY <1>2, TablesSame
  <1>3. QED
    BY <1>1, <1>2

(* The inductive invariant holds in every state.                           *)
LEMMA InvHolds ==
  ASSUME CatalogAssumption
  PROVE  Spec => []Inv
  <1>1. Init => Inv
    BY InitOK
  <1>2. Inv /\ [Next]_vars => Inv'
    BY NextOK
  <1>3. QED
    BY <1>1, <1>2, PTL DEF Spec

(* What the invariant says of jump hosts.                                  *)
LEMMA InvNoLoops ==
  ASSUME CatalogAssumption, Inv
  PROVE  NoJumpLoops
  BY AcyclicHasNoLoops DEF Inv, NoJumpLoops

(* The tables hold rows and the settings ids of the tables they name.      *)
THEOREM TypeCorrect ==
  ASSUME CatalogAssumption
  PROVE  Spec => []TypeOK
  <1>1. Inv => TypeOK
    BY DEF Inv
  <1>2. QED
    BY <1>1, InvHolds, PTL

(* No operation of a user leaves a live record that refers to a deleted    *)
(* one, but those that a merge, a task or an import under way excuses:     *)
(* validate_reference and the checks before a deletion, for any devices.   *)
THEOREM NothingDangles ==
  ASSUME CatalogAssumption
  PROVE  Spec => []ReferencesHold
  <1>1. Inv => ReferencesHold
    BY DEF Inv
  <1>2. QED
    BY <1>1, InvHolds, PTL

(* No jump host is reached through itself on any device: validate_references *)
(* of a host, the check of the whole graph by an import, and the repair of *)
(* the loops that two devices close together and a merge brings in.        *)
THEOREM JumpsEnd ==
  ASSUME CatalogAssumption
  PROVE  Spec => []NoJumpLoops
  <1>1. Inv => NoJumpLoops
    BY InvNoLoops
  <1>2. QED
    BY <1>1, InvHolds, PTL
=============================================================================
