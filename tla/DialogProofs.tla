---------------------------- MODULE DialogProofs ----------------------------
(***************************************************************************)
(* Theorems about who talks to whom: a connection with its servers and     *)
(* with the user whom it asks, a terminal pane with its shell, the window  *)
(* with a sign-in, with the updater and with a chat.                       *)
(***************************************************************************)
EXTENDS Integers, FiniteSets, Sequences, SequencesExt, FiniteSetTheorems, SequenceTheorems,
        TLAPS

CONSTANTS
  None,
  Conn, Server, Key, Algorithm, Hops, Proxies, Known, MaxRounds, MaxQuestions,
  Prompt, Attempts, MaxReloads,
  MaxOpens, MaxLoads,
  Provider, FirstProvider, MaxClicks,
  View, Version, MaxEvents, MaxMounts,
  Replies, MaxRetries, MaxShrinks

VARIABLES
  (* Handshake *)
  proxy, app, user, lock, copy, at, hop, hostKey, offer, hidden, rounds, left, replies,
  sent, vouched, remembered, partly,
  (* ConnectionPrompts *)
  stage, prompted, heard, queue, listener, attempt, snapshot, closed, answers, missed,
  refused, pageLoads,
  (* LocalTerminals *)
  pane, opens, calls, shell, entry, loads, told, crossed, repeated,
  (* SignIn *)
  kind, phase, current, connecting, clicks, requests, notices, slot, flow, connectJob,
  connection, handled, reordered, late,
  (* AppUpdates *)
  status, pending, operation, asked, view, shown, latest, events, toasts, notified,
  changes, mounts,
  (* ChatRequests *)
  reply, chatAt, stopRequested, retries, shrinks, item, kept, chat, got, registered,
  signalled, chatCancel, pieces, buffer, cut

Shake == INSTANCE Handshake WITH pc <- at, shown <- hostKey, answers <- replies
Asking == INSTANCE ConnectionPrompts WITH
  at <- stage, pending <- prompted, events <- heard, reloads <- pageLoads
Panes == INSTANCE LocalTerminals
Account == INSTANCE SignIn WITH
  calls <- requests, told <- notices, job <- connectJob, crossed <- reordered
Updates == INSTANCE AppUpdates WITH requests <- asked
Chat == INSTANCE ChatRequests WITH
  pc <- chatAt, shown <- item, call <- chat, entry <- registered, cancel <- chatCancel,
  channel <- pieces

-----------------------------------------------------------------------------

ShakeState == {"idle", "dial", "greet", "login", "tunnel", "key", "ask key", "learn",
               "write",
               "agreed", "ask password", "round", "answer", "up", "failed"}
Secret == {"saved", "typed"}
How == {"password", "hidden", "again", "echoed"}
Told == [conn : Conn, to : Server \X Key, secret : Secret, how : How]

(* Past the check of its key, a server may be told something.              *)
Checked == {"agreed", "learn", "write", "ask password", "round", "answer"}

-----------------------------------------------------------------------------
(* The inductive invariant.                                                *)

ShakeTypes ==
  /\ Shake!TypeOK
  /\ proxy \in Proxies
  /\ at \in [Conn -> ShakeState] /\ hop \in [Conn -> Nat] /\ hidden \in [Conn -> BOOLEAN]
  /\ replies \in [Conn -> SUBSET (Secret \X How)]
  /\ sent \subseteq Told
  /\ vouched \in [Conn -> SUBSET (Server \X Key)]
  /\ remembered \in [Server -> [Shake!Algorithms -> Key \cup {None}]]
  /\ partly \in [Conn -> BOOLEAN]

(* Whoever may be told something has shown a key that was vouched for.     *)
Vouched ==
  \A c \in Conn :
    /\ at[c] \in Checked \cup {"ask key"} => hostKey[c] \in Key
    /\ at[c] \in Checked => Shake!Pair(c) \in vouched[c]

(* Answers that wait to be sent hold the saved password in one place only. *)
Spared ==
  \A c \in Conn : \A a \in replies[c] : a[1] = "saved" => a[2] = "hidden"

(* Who rewrites the file holds the lock and has read what is in it.        *)
Locked ==
  \A c \in Conn : at[c] = "write" => lock = c /\ copy[c] = app

(* A key is remembered under its own kind.                                 *)
ShakeKinds ==
  \A s \in Server, a \in Shake!Algorithms :
    remembered[s][a] # None => Algorithm[remembered[s][a]] = a

ShakeInv ==
  /\ ShakeTypes /\ Vouched /\ Spared /\ Locked /\ ShakeKinds
  /\ Shake!SecretsAreGuarded /\ Shake!PasswordIsSpared /\ Shake!RememberedStays

-----------------------------------------------------------------------------
(* A pair of a set of pairs.                                               *)
LEMMA ShakePairs ==
  ASSUME NEW S, NEW T, NEW y \in S \X T
  PROVE  y = <<y[1], y[2]>> /\ y[1] \in S /\ y[2] \in T
  OBVIOUS

LEMMA HopsType ==
  ASSUME Shake!HandshakeAssumption, NEW c \in Conn
  PROVE  /\ Hops[c] \in Seq([server : Server, auth : Shake!Auth])
         /\ Len(Hops[c]) \in Nat /\ 1 \in 1 .. Len(Hops[c])
  <1>1. Hops[c] \in Seq([server : Server, auth : Shake!Auth]) /\ Hops[c] # <<>>
    BY DEF Shake!HandshakeAssumption
  <1> DEFINE s == Hops[c]
  <1> HIDE DEF s
  <1>2. s \in Seq([server : Server, auth : Shake!Auth]) /\ s # <<>>
    BY <1>1 DEF s
  <1>3. Len(s) \in Nat /\ Len(s) # 0
    BY <1>2
  <1>4. QED
    BY <1>1, <1>3 DEF s

LEMMA HopType ==
  ASSUME Shake!HandshakeAssumption, Shake!TypeOK, NEW c \in Conn
  PROVE  /\ hop[c] \in 1 .. Len(Hops[c])
         /\ Shake!ServerOf(c) \in Server /\ Shake!AuthOf(c) \in Shake!Auth
  <1>1. hop[c] \in 1 .. Len(Hops[c])
    BY DEF Shake!TypeOK
  <1>2. Hops[c][hop[c]] \in [server : Server, auth : Shake!Auth]
    <2> DEFINE s == Hops[c]
               S == [server : Server, auth : Shake!Auth]
    <2>1. s \in Seq(S) /\ hop[c] \in 1 .. Len(s)
      BY <1>1, HopsType
    <2> HIDE DEF s, S
    <2>2. s[hop[c]] \in S
      BY <2>1
    <2>3. QED
      BY <2>2 DEF s, S
  <1>3. QED
    BY <1>1, <1>2 DEF Shake!ServerOf, Shake!AuthOf

LEMMA ShakeBounds ==
  ASSUME Shake!HandshakeAssumption
  PROVE  MaxRounds \in Nat /\ MaxQuestions \in Nat /\ 0 \in 0 .. MaxRounds
           /\ 0 \in 0 .. MaxQuestions
  <1>1. MaxRounds \in Nat /\ MaxQuestions \in Nat
    BY DEF Shake!HandshakeAssumption
  <1>2. QED
    BY <1>1

LEMMA ShakeInitInv ==
  ASSUME Shake!HandshakeAssumption, Shake!Init
  PROVE  ShakeInv
  <1> USE DEF Shake!Init, Shake!HandshakeAssumption
  <1>1. app \subseteq Server \X Key /\ user \subseteq Server \X Key
    OBVIOUS
  <1>2. \A c \in Conn : 1 \in 1 .. Len(Hops[c])
    BY HopsType
  <1>3. \A s \in Server, a \in Shake!Algorithms :
          /\ remembered[s][a] \in Key \cup {None}
          /\ remembered[s][a] # None =>
               <<s, remembered[s][a]>> \in app /\ Algorithm[remembered[s][a]] = a
    <2> SUFFICES ASSUME NEW s \in Server, NEW a \in Shake!Algorithms
                 PROVE  /\ remembered[s][a] \in Key \cup {None}
                        /\ remembered[s][a] # None =>
                             <<s, remembered[s][a]>> \in app
                               /\ Algorithm[remembered[s][a]] = a
      OBVIOUS
    <2>1. CASE \E x \in app : x[1] = s /\ Algorithm[x[2]] = a
      <3> DEFINE y == CHOOSE x \in app : x[1] = s /\ Algorithm[x[2]] = a
      <3>1. y \in app /\ y[1] = s /\ Algorithm[y[2]] = a
        BY <2>1
      <3>2. remembered[s][a] = y[2]
        BY <2>1
      <3>3. y = <<y[1], y[2]>> /\ y[2] \in Key
        BY <3>1, <1>1, ShakePairs
      <3> HIDE DEF y
      <3>4. QED
        BY <3>1, <3>2, <3>3
    <2>2. CASE ~ \E x \in app : x[1] = s /\ Algorithm[x[2]] = a
      BY <2>2
    <2>3. QED
      BY <2>1, <2>2
  <1>4. remembered \in [Server -> [Shake!Algorithms -> Key \cup {None}]]
    BY <1>3
  <1>5. ShakeTypes
    <2>0. 0 \in 0 .. MaxRounds /\ 0 \in 0 .. MaxQuestions
      BY ShakeBounds
    <2>1. Shake!TypeOK
      <3>1. /\ copy \in [Conn -> SUBSET (Server \X Key)]
            /\ hostKey \in [Conn -> Key \cup {None}]
            /\ offer \in [Conn -> {"none", "saved", "typed"}]
            /\ rounds \in [Conn -> 0 .. MaxRounds] /\ left \in [Conn -> 0 .. MaxQuestions]
        BY <2>0
      <3>2. \A c \in Conn : hop[c] \in 1 .. Len(Hops[c])
        BY <1>2
      <3>3. QED
        BY <1>1, <3>1, <3>2 DEF Shake!TypeOK
    <2>2. at \in [Conn -> ShakeState] /\ hop \in [Conn -> Nat]
      BY DEF ShakeState
    <2>3. QED
      BY <1>4, <2>1, <2>2 DEF ShakeTypes
  <1>6. Vouched /\ Spared /\ Locked
    BY DEF Vouched, Spared, Locked, Checked
  <1>7. ShakeKinds /\ Shake!RememberedStays
    BY <1>3 DEF ShakeKinds, Shake!RememberedStays
  <1>8. Shake!SecretsAreGuarded /\ Shake!PasswordIsSpared
    BY DEF Shake!SecretsAreGuarded, Shake!PasswordIsSpared
  <1>9. QED
    BY <1>5, <1>6, <1>7, <1>8 DEF ShakeInv
-----------------------------------------------------------------------------
(* A connection that goes on without being checked disturbs nothing.       *)
LEMMA Going ==
  ASSUME Shake!HandshakeAssumption, ShakeInv, NEW c \in Conn,
         NEW next \in ShakeState \ (Checked \cup {"ask key"}),
         Shake!Goto(c, next), UNCHANGED <<proxy, Shake!files, hop, hostKey, Shake!talk,
                                          Shake!history>>
  PROVE  ShakeInv'
  <1> USE DEF ShakeInv, Shake!files, Shake!talk, Shake!history
  <1>1. /\ at' \in [Conn -> ShakeState] /\ at'[c] = next
        /\ \A d \in Conn \ {c} : at'[d] = at[d]
    BY DEF Shake!Goto, ShakeTypes
  <1>2. ShakeTypes'
    BY <1>1 DEF ShakeTypes, Shake!TypeOK
  <1>3. Vouched' /\ Locked'
    BY <1>1 DEF Vouched, Locked, Checked, Shake!Pair, Shake!ServerOf
  <1>4. Spared' /\ ShakeKinds' /\ Shake!SecretsAreGuarded' /\ Shake!PasswordIsSpared'
          /\ Shake!RememberedStays'
    BY DEF Spared, ShakeKinds, Shake!SecretsAreGuarded, Shake!PasswordIsSpared,
           Shake!RememberedStays
  <1>5. QED
    BY <1>2, <1>3, <1>4

(* What a step of authenticate may do, and to whom.                        *)
Talks(c) ==
  /\ UNCHANGED <<proxy, Shake!files, hostKey, vouched, remembered>>
  /\ \A d \in Conn \ {c} :
       /\ at'[d] = at[d] /\ hop'[d] = hop[d] /\ replies'[d] = replies[d]
       /\ offer'[d] = offer[d] /\ partly'[d] = partly[d]
  /\ at'[c] \notin {"write", "ask key"}
  /\ at'[c] \in Checked => at[c] \in Checked /\ hop'[c] = hop[c]
  /\ \A a \in replies'[c] : a[1] = "saved" => a[2] = "hidden"
  /\ partly'[c] => offer'[c] = "none"
  /\ \A x \in sent' \ sent :
       x.to \in vouched[x.conn] /\ (x.secret = "saved" => x.how \in {"password", "hidden"})

LEMMA TalkInv ==
  ASSUME ShakeInv, ShakeTypes', NEW c \in Conn, Talks(c)
  PROVE  ShakeInv'
  <1> USE DEF ShakeInv, Talks, Shake!files
  <1>1. Vouched'
    <2> SUFFICES ASSUME NEW d \in Conn, at'[d] \in Checked \cup {"ask key"}
                 PROVE  hostKey'[d] \in Key
                          /\ (at'[d] \in Checked => Shake!Pair(d)' \in vouched'[d])
      BY DEF Vouched
    <2>1. /\ at[d] \in Checked \cup {"ask key"}
          /\ at'[d] \in Checked => at[d] \in Checked /\ hop'[d] = hop[d]
      OBVIOUS
    <2>2. QED
      BY <2>1 DEF Vouched, Shake!Pair, Shake!ServerOf
  <1>2. Spared'
    BY DEF Spared
  <1>3. Locked'
    BY DEF Locked
  <1>4. ShakeKinds' /\ Shake!RememberedStays'
    BY DEF ShakeKinds, Shake!RememberedStays
  <1>5. Shake!SecretsAreGuarded'
    BY DEF Shake!SecretsAreGuarded
  <1>6. Shake!PasswordIsSpared'
    BY DEF Shake!PasswordIsSpared
  <1>7. QED
    BY <1>1, <1>2, <1>3, <1>4, <1>5, <1>6

(* What servers are told by this step.                                     *)
Tells(S) ==
  /\ S \subseteq Told
  /\ \A x \in S : /\ x.to \in vouched[x.conn]
                  /\ x.secret = "saved" => x.how \in {"password", "hidden"}

Rest == UNCHANGED <<proxy, Shake!files, hostKey, vouched, remembered>>

LEMMA PassedInv ==
  ASSUME Shake!HandshakeAssumption, ShakeInv, NEW c \in Conn, Shake!Passed(c), Rest,
         NEW S, Tells(S), sent' = sent \cup S
  PROVE  ShakeInv'
  <1> USE DEF ShakeInv, Rest, Shake!files
  <1>1. /\ at \in [Conn -> ShakeState] /\ hop \in [Conn -> Nat]
        /\ hidden \in [Conn -> BOOLEAN]
        /\ replies \in [Conn -> SUBSET (Secret \X How)] /\ partly \in [Conn -> BOOLEAN]
        /\ offer \in [Conn -> {"none", "saved", "typed"}]
        /\ rounds \in [Conn -> 0 .. MaxRounds] /\ left \in [Conn -> 0 .. MaxQuestions]
    BY DEF ShakeTypes, Shake!TypeOK
  <1>2. hop[c] \in 1 .. Len(Hops[c]) /\ Len(Hops[c]) \in Nat
    BY HopsType DEF ShakeTypes, Shake!TypeOK
  <1>3. hop' \in [Conn -> Nat] /\ \A d \in Conn : hop'[d] \in 1 .. Len(Hops[d])
    <2>1. CASE hop[c] = Len(Hops[c])
      BY <2>1 DEF Shake!Passed, ShakeTypes, Shake!TypeOK
    <2>2. CASE hop[c] # Len(Hops[c])
      <3>1. hop' = [hop EXCEPT ![c] = @ + 1]
        BY <2>2 DEF Shake!Passed
      <3>2. hop[c] + 1 \in 1 .. Len(Hops[c]) /\ hop[c] + 1 \in Nat
        BY <1>2, <2>2
      <3>3. QED
        BY <3>1, <3>2, <1>1 DEF ShakeTypes, Shake!TypeOK
    <2>3. QED
      BY <2>1, <2>2
  <1>4. /\ at' \in [Conn -> ShakeState] /\ at'[c] \in {"up", "dial"}
        /\ partly' \in [Conn -> BOOLEAN] /\ offer'[c] = "none" /\ replies'[c] = {}
        /\ \A d \in Conn \ {c} :
             /\ at'[d] = at[d] /\ hop'[d] = hop[d] /\ replies'[d] = replies[d]
             /\ offer'[d] = offer[d] /\ partly'[d] = partly[d]
    BY <1>1 DEF Shake!Passed, Shake!Goto, ShakeState
  <1>5. /\ hidden' \in [Conn -> BOOLEAN] /\ replies' \in [Conn -> SUBSET (Secret \X How)]
        /\ offer' \in [Conn -> {"none", "saved", "typed"}]
        /\ rounds' \in [Conn -> 0 .. MaxRounds] /\ left' \in [Conn -> 0 .. MaxQuestions]
    BY <1>1, ShakeBounds DEF Shake!Passed
  <1>6. ShakeTypes'
    BY <1>3, <1>4, <1>5 DEF ShakeTypes, Shake!TypeOK, Tells
  <1>7. Talks(c)
    BY <1>4 DEF Talks, Tells, Checked
  <1>8. QED
    BY <1>6, <1>7, TalkInv

LEMMA InteractiveInv ==
  ASSUME Shake!HandshakeAssumption, ShakeInv, NEW c \in Conn, at[c] \in Checked,
         NEW password \in {"none", "saved", "typed"}, NEW partial \in BOOLEAN,
         partial => password = "none",
         Shake!Interactive(c, password, partial), Rest,
         NEW S, Tells(S), sent' = sent \cup S
  PROVE  ShakeInv'
  <1> USE DEF ShakeInv, Rest, Shake!files
  <1>1. /\ at \in [Conn -> ShakeState] /\ partly \in [Conn -> BOOLEAN]
        /\ offer \in [Conn -> {"none", "saved", "typed"}]
    BY DEF ShakeTypes, Shake!TypeOK
  <1>2. /\ at' \in [Conn -> ShakeState] /\ at'[c] = "round"
        /\ partly' \in [Conn -> BOOLEAN] /\ partly'[c] = partial
        /\ offer' \in [Conn -> {"none", "saved", "typed"}] /\ offer'[c] = password
        /\ hop' = hop /\ replies' = replies
        /\ \A d \in Conn \ {c} :
             at'[d] = at[d] /\ offer'[d] = offer[d] /\ partly'[d] = partly[d]
    BY <1>1 DEF Shake!Interactive, Shake!Goto, ShakeState
  <1>3. ShakeTypes'
    BY <1>2 DEF ShakeTypes, Shake!TypeOK, Tells, Shake!Interactive
  <1>4. Talks(c)
    BY <1>2 DEF Talks, Tells, Checked, Spared
  <1>5. QED
    BY <1>3, <1>4, TalkInv

LEMMA StaysInv ==
  ASSUME Shake!HandshakeAssumption, ShakeInv, NEW c \in Conn,
         NEW next \in ShakeState \ {"write", "ask key"},
         next \in Checked => at[c] \in Checked,
         Shake!Stays(c, next), Rest,
         NEW S, Tells(S), sent' = sent \cup S
  PROVE  ShakeInv'
  <1> USE DEF ShakeInv, Rest, Shake!files
  <1>1. /\ at' \in [Conn -> ShakeState] /\ at'[c] = next
        /\ \A d \in Conn \ {c} : at'[d] = at[d]
    BY DEF Shake!Stays, Shake!Goto, ShakeTypes
  <1>2. ShakeTypes'
    BY <1>1 DEF ShakeTypes, Shake!TypeOK, Tells, Shake!Stays, Shake!talk
  <1>3. Talks(c)
    BY <1>1 DEF Talks, Tells, Shake!Stays, Shake!talk, Spared, Shake!PasswordIsSpared
  <1>4. QED
    BY <1>2, <1>3, TalkInv

LEMMA NobodyTold == Tells({})
  BY DEF Tells

(* A password is told to a server whose key was vouched for.               *)
LEMMA TryPasswordInv ==
  ASSUME Shake!HandshakeAssumption, ShakeInv, NEW c \in Conn, at[c] \in Checked,
         NEW secret \in Secret, Shake!TryPassword(c, secret)
  PROVE  ShakeInv'
  <1> DEFINE S == {[conn |-> c, to |-> Shake!Pair(c), secret |-> secret, how |-> "password"]}
  <1>1. sent' = sent \cup S
    BY DEF Shake!TryPassword, Shake!Tell
  <1>2. Tells(S)
    <2>1. Shake!Pair(c) \in Server \X Key /\ Shake!Pair(c) \in vouched[c]
      BY HopType DEF ShakeInv, ShakeTypes, Vouched, Shake!Pair
    <2>2. S \subseteq Told
      BY <2>1 DEF Told, How
    <2>3. QED
      BY <2>1, <2>2 DEF Tells
  <1>3. Rest
    BY DEF Shake!TryPassword, Rest
  <1> HIDE DEF S
  <1>4. CASE Shake!Passed(c)
    BY <1>1, <1>2, <1>3, <1>4, PassedInv
  <1>5. CASE \E partial \in BOOLEAN :
               Shake!Interactive(c, Shake!Reusable(secret, partial), partial)
    <2>1. PICK partial \in BOOLEAN :
                 Shake!Interactive(c, Shake!Reusable(secret, partial), partial)
      BY <1>5
    <2>2. Shake!Reusable(secret, partial) \in {"none", "saved", "typed"}
      BY DEF Shake!Reusable, Secret
    <2>3. partial => Shake!Reusable(secret, partial) = "none"
      BY DEF Shake!Reusable
    <2>4. QED
      BY <1>1, <1>2, <1>3, <2>1, <2>2, <2>3, InteractiveInv
  <1>6. CASE Shake!Stays(c, "failed")
    BY <1>1, <1>2, <1>3, <1>6, StaysInv DEF ShakeState, Checked
  <1>7. QED
    BY <1>4, <1>5, <1>6 DEF Shake!TryPassword

LEMMA ProbeInv ==
  ASSUME Shake!HandshakeAssumption, ShakeInv, NEW c \in Conn,
         Shake!Probe(c) \/ Shake!ByKey(c)
  PROVE  ShakeInv'
  <1>1. at[c] \in Checked /\ Rest /\ sent' = sent \cup {}
    BY DEF Shake!Probe, Shake!ByKey, Shake!At, Checked, Rest
  <1>2. CASE Shake!Passed(c)
    BY <1>1, <1>2, PassedInv, NobodyTold
  <1>3. CASE Shake!Interactive(c, "none", TRUE)
    BY <1>1, <1>3, InteractiveInv, NobodyTold
  <1>4. CASE \E methods \in SUBSET Shake!Method : Shake!Stays(c, Shake!WithoutSaved(methods))
    <2>1. PICK methods \in SUBSET Shake!Method : Shake!Stays(c, Shake!WithoutSaved(methods))
      BY <1>4
    <2>2. Shake!WithoutSaved(methods) \in ShakeState \ {"write", "ask key"}
      BY DEF Shake!WithoutSaved, ShakeState
    <2>3. QED
      BY <1>1, <2>1, <2>2, StaysInv, NobodyTold
  <1>5. CASE Shake!Stays(c, "failed")
    BY <1>1, <1>5, StaysInv, NobodyTold DEF ShakeState
  <1>6. QED
    BY <1>2, <1>3, <1>4, <1>5 DEF Shake!Probe, Shake!ByKey

LEMMA RoundInv ==
  ASSUME Shake!HandshakeAssumption, ShakeInv, NEW c \in Conn,
         Shake!Round(c) \/ Shake!TooManyRounds(c)
  PROVE  ShakeInv'
  <1>1. at[c] = "round" /\ Rest /\ sent' = sent \cup {}
    BY DEF Shake!Round, Shake!TooManyRounds, Shake!At, Rest
  <1>2. CASE Shake!Passed(c)
    BY <1>1, <1>2, PassedInv, NobodyTold
  <1>3. CASE Shake!Stays(c, "failed")
    BY <1>1, <1>3, StaysInv, NobodyTold DEF ShakeState, Checked
  <1>4. CASE /\ rounds[c] < MaxRounds
             /\ \E n \in 0 .. MaxQuestions :
               /\ left' = [left EXCEPT ![c] = n] /\ rounds' = [rounds EXCEPT ![c] = @ + 1]
               /\ Shake!Goto(c, "answer")
               /\ UNCHANGED <<hop, offer, hidden, replies, partly>>
    <2> USE DEF ShakeInv, Rest, Shake!files
    <2>1. PICK n \in 0 .. MaxQuestions :
            /\ left' = [left EXCEPT ![c] = n] /\ rounds' = [rounds EXCEPT ![c] = @ + 1]
            /\ Shake!Goto(c, "answer") /\ UNCHANGED <<hop, offer, hidden, replies, partly>>
      BY <1>4
    <2>2. rounds[c] + 1 \in 0 .. MaxRounds
      BY <1>4, ShakeBounds DEF ShakeTypes, Shake!TypeOK
    <2>3. /\ at' \in [Conn -> ShakeState] /\ at'[c] = "answer"
          /\ \A d \in Conn \ {c} : at'[d] = at[d]
      BY <2>1 DEF Shake!Goto, ShakeTypes, ShakeState
    <2>4. left' \in [Conn -> 0 .. MaxQuestions] /\ rounds' \in [Conn -> 0 .. MaxRounds]
      BY <2>1, <2>2 DEF ShakeTypes, Shake!TypeOK
    <2>5. ShakeTypes'
      BY <1>1, <2>1, <2>3, <2>4 DEF ShakeTypes, Shake!TypeOK
    <2>6. Talks(c)
      BY <1>1, <2>1, <2>3 DEF Talks, Spared, Shake!PasswordIsSpared, Checked
    <2>7. QED
      BY <2>5, <2>6, TalkInv
  <1>5. QED
    BY <1>2, <1>3, <1>4 DEF Shake!Round, Shake!TooManyRounds

(* The password at hand goes into a hidden answer, the first.              *)
LEMMA QuestionInv ==
  ASSUME Shake!HandshakeAssumption, ShakeInv, NEW c \in Conn, Shake!Question(c)
  PROVE  ShakeInv'
  <1> USE DEF ShakeInv, Rest, Shake!files, Shake!history
  <1>1. PICK echo \in BOOLEAN : Shake!Answer(c, echo)
    BY DEF Shake!Question
  <1>2. at' = at /\ at[c] = "answer" /\ left[c] > 0 /\ Rest /\ sent' = sent
    BY DEF Shake!Question, Shake!At
  <1> DEFINE secret == IF Shake!ByItself(c, echo) THEN offer[c] ELSE "typed"
             how == IF echo THEN "echoed" ELSE IF hidden[c] THEN "again" ELSE "hidden"
  <1>3. /\ replies' = [replies EXCEPT ![c] = @ \cup {<<secret, how>>}]
        /\ offer' = [offer EXCEPT ![c] = IF Shake!ByItself(c, echo) THEN "none" ELSE @]
        /\ hidden' = [hidden EXCEPT ![c] = @ \/ ~echo]
        /\ left' = [left EXCEPT ![c] = @ - 1]
        /\ UNCHANGED <<hop, rounds, partly>>
    BY <1>1 DEF Shake!Answer
  <1>4. offer[c] \in {"none", "saved", "typed"} /\ hidden[c] \in BOOLEAN
    BY DEF ShakeTypes, Shake!TypeOK
  <1>5. secret \in Secret /\ how \in How /\ (secret = "saved" => how = "hidden")
    BY <1>4 DEF Shake!ByItself, Secret, How
  <1> HIDE DEF secret, how
  <1>6. /\ replies' \in [Conn -> SUBSET (Secret \X How)]
        /\ replies'[c] = replies[c] \cup {<<secret, how>>}
        /\ \A d \in Conn \ {c} : replies'[d] = replies[d]
    <2>1. <<secret, how>> \in Secret \X How
      BY <1>5
    <2>2. replies \in [Conn -> SUBSET (Secret \X How)]
      BY DEF ShakeTypes
    <2> DEFINE new == <<secret, how>>
               All == Secret \X How
    <2> HIDE DEF new, All
    <2>3. QED
      BY <1>3, <2>1, <2>2 DEF new, All
  <1>7. /\ offer' \in [Conn -> {"none", "saved", "typed"}]
        /\ offer'[c] \in {"none", offer[c]} /\ \A d \in Conn \ {c} : offer'[d] = offer[d]
    BY <1>3 DEF ShakeTypes, Shake!TypeOK
  <1>8. hidden' \in [Conn -> BOOLEAN]
    BY <1>3 DEF ShakeTypes
  <1>9. left' \in [Conn -> 0 .. MaxQuestions]
    BY <1>2, <1>3, ShakeBounds DEF ShakeTypes, Shake!TypeOK
  <1>10. ShakeTypes'
    BY <1>2, <1>3, <1>6, <1>7, <1>8, <1>9 DEF ShakeTypes, Shake!TypeOK
  <1>11. \A a \in replies'[c] : a[1] = "saved" => a[2] = "hidden"
    BY <1>5, <1>6 DEF Spared
  <1>12. Talks(c)
    BY <1>2, <1>3, <1>6, <1>7, <1>11 DEF Talks, Shake!PasswordIsSpared
  <1>13. QED
    BY <1>10, <1>12, TalkInv

(* The answers of a round are sent to the server that asked.               *)
LEMMA RespondInv ==
  ASSUME Shake!HandshakeAssumption, ShakeInv, NEW c \in Conn, Shake!Respond(c)
  PROVE  ShakeInv'
  <1> USE DEF ShakeInv, Shake!files
  <1> DEFINE S == {[conn |-> c, to |-> Shake!Pair(c), secret |-> a[1],
                    how |-> a[2]] : a \in replies[c]}
  <1>1. at[c] = "answer" /\ Rest /\ sent' = sent \cup S
    BY DEF Shake!Respond, Shake!At, Rest
  <1>2. Tells(S)
    <2>1. Shake!Pair(c) \in Server \X Key /\ Shake!Pair(c) \in vouched[c]
      BY <1>1, HopType DEF ShakeTypes, Vouched, Shake!Pair, Checked
    <2>2. \A a \in replies[c] : a[1] \in Secret /\ a[2] \in How
      BY DEF ShakeTypes
    <2>3. \A a \in replies[c] : a[1] = "saved" => a[2] = "hidden"
      BY DEF Spared
    <2>4. S \subseteq Told
      BY <2>1, <2>2 DEF Told
    <2>5. QED
      BY <2>1, <2>3, <2>4 DEF Tells
  <1>3. /\ at' \in [Conn -> ShakeState] /\ at'[c] = "round" /\ replies'[c] = {}
        /\ replies' \in [Conn -> SUBSET (Secret \X How)]
        /\ \A d \in Conn \ {c} : at'[d] = at[d] /\ replies'[d] = replies[d]
    BY DEF Shake!Respond, Shake!Goto, ShakeTypes, ShakeState
  <1> HIDE DEF S
  <1>4. ShakeTypes'
    BY <1>1, <1>2, <1>3 DEF ShakeTypes, Shake!TypeOK, Shake!Respond, Tells, Rest
  <1>5. Talks(c)
    BY <1>1, <1>2, <1>3 DEF Talks, Tells, Shake!Respond, Rest, Shake!PasswordIsSpared,
                            Checked
  <1>6. QED
    BY <1>4, <1>5, TalkInv
-----------------------------------------------------------------------------
(* What a file of known hosts confirms, it holds.                          *)
LEMMA TrustedIsKnown ==
  ASSUME NEW s, NEW k, Shake!Trusted(s, k)
  PROVE  <<s, k>> \in app \cup user
  BY DEF Shake!Trusted, Shake!Confirms

LEMMA ShowKeyInv ==
  ASSUME Shake!HandshakeAssumption, ShakeInv, NEW c \in Conn, Shake!ShowKey(c)
  PROVE  ShakeInv'
  <1> USE DEF ShakeInv, Shake!files, Shake!talk
  <1>1. PICK k \in Key :
          /\ hostKey' = [hostKey EXCEPT ![c] = k]
          /\ Shake!Goto(c, IF Shake!Trusted(Shake!ServerOf(c), k) THEN "agreed"
                          ELSE "ask key")
          /\ vouched' =
               [vouched EXCEPT ![c] = @
                \cup ({<<Shake!ServerOf(c), k>>} \cap (app \cup user))]
    BY DEF Shake!ShowKey
  <1>2. UNCHANGED <<proxy, Shake!files, hop, Shake!talk, sent, remembered, partly>>
    BY DEF Shake!ShowKey
  <1>3. /\ at' \in [Conn -> ShakeState] /\ \A d \in Conn \ {c} : at'[d] = at[d]
        /\ at'[c] = IF Shake!Trusted(Shake!ServerOf(c), k) THEN "agreed" ELSE "ask key"
    BY <1>1 DEF Shake!Goto, ShakeTypes, ShakeState
  <1>4. /\ hostKey' \in [Conn -> Key \cup {None}] /\ hostKey'[c] = k
        /\ \A d \in Conn \ {c} : hostKey'[d] = hostKey[d]
    BY <1>1 DEF ShakeTypes, Shake!TypeOK
  <1>5. /\ vouched' \in [Conn -> SUBSET (Server \X Key)]
        /\ \A d \in Conn : vouched[d] \subseteq vouched'[d]
        /\ <<Shake!ServerOf(c), k>> \in app \cup user =>
             <<Shake!ServerOf(c), k>> \in vouched'[c]
    BY <1>1 DEF ShakeTypes, Shake!TypeOK
  <1>6. ShakeTypes'
    BY <1>2, <1>3, <1>4, <1>5 DEF ShakeTypes, Shake!TypeOK
  <1>7. Vouched'
    <2> SUFFICES ASSUME NEW d \in Conn, at'[d] \in Checked \cup {"ask key"}
                 PROVE  hostKey'[d] \in Key
                          /\ (at'[d] \in Checked => Shake!Pair(d)' \in vouched'[d])
      BY DEF Vouched
    <2>1. CASE d = c
      <3>1. at'[c] \in Checked => Shake!Trusted(Shake!ServerOf(c), k)
        BY <1>3 DEF Checked
      <3>2. at'[c] \in Checked => <<Shake!ServerOf(c), k>> \in vouched'[c]
        BY <1>5, <3>1, TrustedIsKnown
      <3>3. QED
        BY <1>2, <1>4, <2>1, <3>2 DEF Shake!Pair, Shake!ServerOf
    <2>2. CASE d # c
      BY <1>2, <1>3, <1>4, <1>5, <2>2 DEF Vouched, Shake!Pair, Shake!ServerOf
    <2>3. QED
      BY <2>1, <2>2
  <1>8. Spared' /\ ShakeKinds' /\ Shake!RememberedStays' /\ Shake!PasswordIsSpared'
    BY <1>2 DEF Spared, ShakeKinds, Shake!RememberedStays, Shake!PasswordIsSpared
  <1>9. Locked'
    BY <1>2, <1>3 DEF Locked
  <1>10. Shake!SecretsAreGuarded'
    BY <1>2, <1>5 DEF Shake!SecretsAreGuarded, ShakeTypes, Told
  <1>11. QED
    BY <1>6, <1>7, <1>8, <1>9, <1>10

LEMMA DecideKeyInv ==
  ASSUME Shake!HandshakeAssumption, ShakeInv, NEW c \in Conn, Shake!DecideKey(c)
  PROVE  ShakeInv'
  <1> USE DEF ShakeInv, Shake!files, Shake!talk
  <1>1. CASE Shake!Goto(c, "failed") /\ UNCHANGED vouched
    BY <1>1, Going DEF Shake!DecideKey, Shake!history, ShakeState, Checked
  <1>2. CASE \E next \in {"agreed", "learn"} : Shake!Goto(c, next) /\ Shake!Accept(c)
    <2>1. PICK next \in {"agreed", "learn"} : Shake!Goto(c, next) /\ Shake!Accept(c)
      BY <1>2
    <2>2. UNCHANGED <<proxy, Shake!files, hop, hostKey, Shake!talk, sent, remembered,
                      partly>>
      BY DEF Shake!DecideKey
    <2>3. /\ at' \in [Conn -> ShakeState] /\ at'[c] = next
          /\ \A d \in Conn \ {c} : at'[d] = at[d]
      BY <2>1 DEF Shake!Goto, ShakeTypes, ShakeState
    <2>4. hostKey[c] \in Key /\ Shake!Pair(c) \in Server \X Key
      BY HopType DEF ShakeTypes, Shake!Pair, Vouched, Shake!DecideKey, Shake!At
    <2>5. /\ vouched' \in [Conn -> SUBSET (Server \X Key)]
          /\ \A d \in Conn : vouched[d] \subseteq vouched'[d]
          /\ Shake!Pair(c) \in vouched'[c]
      BY <2>1, <2>4 DEF Shake!Accept, ShakeTypes
    <2>6. ShakeTypes'
      BY <2>2, <2>3, <2>5 DEF ShakeTypes, Shake!TypeOK
    <2>7. Vouched'
      BY <2>2, <2>3, <2>4, <2>5 DEF Vouched, Shake!Pair, Shake!ServerOf
    <2>8. Spared' /\ ShakeKinds' /\ Shake!RememberedStays' /\ Shake!PasswordIsSpared'
      BY <2>2 DEF Spared, ShakeKinds, Shake!RememberedStays, Shake!PasswordIsSpared
    <2>9. Locked'
      BY <2>2, <2>3 DEF Locked
    <2>10. Shake!SecretsAreGuarded'
      BY <2>2, <2>5 DEF Shake!SecretsAreGuarded, ShakeTypes, Told
    <2>11. QED
      BY <2>6, <2>7, <2>8, <2>9, <2>10
  <1>3. QED
    BY <1>1, <1>2 DEF Shake!DecideKey

LEMMA LearnInv ==
  ASSUME Shake!HandshakeAssumption, ShakeInv, NEW c \in Conn, Shake!Learn(c)
  PROVE  ShakeInv'
  <1> USE DEF ShakeInv, Shake!files, Shake!talk, Shake!history
  <1>1. /\ at[c] = "learn" /\ lock = None /\ lock' = c /\ copy' = [copy EXCEPT ![c] = app]
        /\ UNCHANGED <<proxy, app, user, hop, hostKey, Shake!talk, Shake!history>>
    BY DEF Shake!Learn, Shake!MayRead, Shake!At
  <1>2. /\ at' \in [Conn -> ShakeState] /\ at'[c] = "write"
        /\ \A d \in Conn \ {c} : at'[d] = at[d]
    BY DEF Shake!Learn, Shake!Goto, ShakeTypes, ShakeState
  <1>3. copy' \in [Conn -> SUBSET (Server \X Key)] /\ copy'[c] = app
    BY <1>1 DEF ShakeTypes, Shake!TypeOK
  <1>4. ShakeTypes'
    BY <1>1, <1>2, <1>3 DEF ShakeTypes, Shake!TypeOK
  <1>5. Vouched'
    BY <1>1, <1>2 DEF Vouched, Shake!Pair, Shake!ServerOf, Checked
  <1>6. Locked'
    BY <1>1, <1>2, <1>3 DEF Locked, Shake!HandshakeAssumption
  <1>7. Spared' /\ ShakeKinds' /\ Shake!SecretsAreGuarded' /\ Shake!PasswordIsSpared'
          /\ Shake!RememberedStays'
    BY <1>1 DEF Spared, ShakeKinds, Shake!SecretsAreGuarded, Shake!PasswordIsSpared,
                Shake!RememberedStays
  <1>8. QED
    BY <1>4, <1>5, <1>6, <1>7

LEMMA WriteFailsInv ==
  ASSUME Shake!HandshakeAssumption, ShakeInv, NEW c \in Conn, Shake!WriteFails(c)
  PROVE  ShakeInv'
  <1> USE DEF ShakeInv, Shake!files, Shake!talk, Shake!history
  <1>1. /\ at[c] = "write" /\ lock' = None /\ copy' = [copy EXCEPT ![c] = {}]
        /\ UNCHANGED <<proxy, app, user, hop, hostKey, Shake!talk, Shake!history>>
    BY DEF Shake!WriteFails, Shake!At
  <1>2. /\ at' \in [Conn -> ShakeState] /\ at'[c] = "failed"
        /\ \A d \in Conn \ {c} : at'[d] = at[d]
    BY DEF Shake!WriteFails, Shake!Goto, ShakeTypes, ShakeState
  <1>3. copy' \in [Conn -> SUBSET (Server \X Key)]
    BY <1>1 DEF ShakeTypes, Shake!TypeOK
  <1>4. ShakeTypes'
    BY <1>1, <1>2, <1>3 DEF ShakeTypes, Shake!TypeOK
  <1>5. Vouched'
    BY <1>1, <1>2 DEF Vouched, Shake!Pair, Shake!ServerOf, Checked
  <1>6. Locked'
    BY <1>1, <1>2 DEF Locked
  <1>7. Spared' /\ ShakeKinds' /\ Shake!SecretsAreGuarded' /\ Shake!PasswordIsSpared'
          /\ Shake!RememberedStays'
    BY <1>1 DEF Spared, ShakeKinds, Shake!SecretsAreGuarded, Shake!PasswordIsSpared,
                Shake!RememberedStays
  <1>8. QED
    BY <1>4, <1>5, <1>6, <1>7

(* The new entry takes the place of those of its kind and of no other.     *)
LEMMA WriteFileInv ==
  ASSUME Shake!HandshakeAssumption, ShakeInv, NEW c \in Conn, Shake!WriteFile(c)
  PROVE  ShakeInv'
  <1> USE DEF ShakeInv, Shake!files, Shake!talk
  <1> DEFINE s == Shake!ServerOf(c)
             k == hostKey[c]
  <1>1. /\ at[c] = "write" /\ lock' = None /\ app' = Shake!Replaced(app, s, k)
        /\ remembered' = [remembered EXCEPT ![s][Algorithm[k]] = k]
        /\ copy' = [copy EXCEPT ![c] = {}]
        /\ UNCHANGED <<proxy, user, hop, hostKey, Shake!talk, sent, vouched, partly>>
    BY DEF Shake!WriteFile, Shake!At, Locked
  <1>2. s \in Server /\ k \in Key /\ Algorithm[k] \in Shake!Algorithms
    BY <1>1, HopType DEF ShakeTypes, Vouched, Checked, Shake!Algorithms
  <1> HIDE DEF s, k
  <1>3. /\ at' \in [Conn -> ShakeState] /\ at'[c] = "agreed"
        /\ \A d \in Conn \ {c} : at'[d] = at[d]
    BY DEF Shake!WriteFile, Shake!Goto, ShakeTypes, ShakeState
  <1>4. copy' \in [Conn -> SUBSET (Server \X Key)]
    BY <1>1 DEF ShakeTypes, Shake!TypeOK
  <1>5. app' \subseteq Server \X Key
    BY <1>1, <1>2 DEF ShakeTypes, Shake!TypeOK, Shake!Replaced
  <1>6. /\ remembered' \in [Server -> [Shake!Algorithms -> Key \cup {None}]]
        /\ remembered'[s][Algorithm[k]] = k
        /\ \A t \in Server, a \in Shake!Algorithms :
             t # s \/ a # Algorithm[k] => remembered'[t][a] = remembered[t][a]
    BY <1>1, <1>2 DEF ShakeTypes
  <1>7. ShakeTypes'
    BY <1>1, <1>3, <1>4, <1>5, <1>6 DEF ShakeTypes, Shake!TypeOK
  <1>8. Vouched'
    BY <1>1, <1>3 DEF Vouched, Shake!Pair, Shake!ServerOf, Checked
  <1>9. Locked'
    BY <1>1, <1>3 DEF Locked
  <1>10. ShakeKinds'
    BY <1>6 DEF ShakeKinds
  <1>11. Shake!RememberedStays'
    <2> SUFFICES ASSUME NEW t \in Server, NEW a \in Shake!Algorithms, remembered'[t][a] # None
                 PROVE  <<t, remembered'[t][a]>> \in app'
      BY DEF Shake!RememberedStays
    <2>1. CASE t = s /\ a = Algorithm[k]
      BY <1>1, <1>6, <2>1 DEF Shake!Replaced
    <2>2. CASE t # s \/ a # Algorithm[k]
      <3>1. remembered'[t][a] = remembered[t][a]
        BY <1>6, <2>2
      <3>2. /\ <<t, remembered[t][a]>> \in app
            /\ Algorithm[remembered[t][a]] = a
        BY <3>1 DEF Shake!RememberedStays, ShakeKinds
      <3>3. QED
        BY <1>1, <2>2, <3>1, <3>2 DEF Shake!Replaced
    <2>3. QED
      BY <2>1, <2>2
  <1>12. Spared' /\ Shake!SecretsAreGuarded' /\ Shake!PasswordIsSpared'
    BY <1>1 DEF Spared, Shake!SecretsAreGuarded, Shake!PasswordIsSpared
  <1>13. QED
    BY <1>7, <1>8, <1>9, <1>10, <1>11, <1>12
-----------------------------------------------------------------------------
LEMMA ShakeNextInv ==
  ASSUME Shake!HandshakeAssumption, ShakeInv, [Shake!Next]_Shake!vars
  PROVE  ShakeInv'
  <1>1. CASE UNCHANGED Shake!vars
    <2> USE <1>1 DEF Shake!vars, Shake!files, Shake!talk, Shake!history, ShakeInv
    <2>1. ShakeTypes' /\ Vouched' /\ Spared' /\ Locked' /\ ShakeKinds'
      BY DEF ShakeTypes, Shake!TypeOK, Vouched, Shake!Pair, Shake!ServerOf, Spared, Locked,
             ShakeKinds
    <2>2. Shake!SecretsAreGuarded' /\ Shake!PasswordIsSpared' /\ Shake!RememberedStays'
      BY DEF Shake!SecretsAreGuarded, Shake!PasswordIsSpared, Shake!RememberedStays
    <2>3. QED
      BY <2>1, <2>2
  <1>2. ASSUME NEW c \in Conn,
               Shake!Connect(c) \/ Shake!Dial(c) \/ Shake!Greet(c) \/ Shake!Login(c)
                 \/ Shake!Tunnel(c) \/ Shake!Fail(c)
        PROVE  ShakeInv'
    <2>1. UNCHANGED <<proxy, Shake!files, hop, hostKey, Shake!talk, Shake!history>>
      BY <1>2 DEF Shake!Connect, Shake!Dial, Shake!Greet, Shake!Login, Shake!Tunnel,
                  Shake!Fail
    <2>2. \E next \in ShakeState \ (Checked \cup {"ask key"}) : Shake!Goto(c, next)
      BY <1>2 DEF Shake!Connect, Shake!Dial, Shake!Greet, Shake!Login, Shake!Tunnel,
                  Shake!Fail, ShakeState, Checked
    <2>3. QED
      BY <2>1, <2>2, Going
  <1>3. ASSUME NEW c \in Conn, Shake!WithSaved(c) \/ Shake!TypePassword(c)
        PROVE  ShakeInv'
    BY <1>3, TryPasswordInv DEF Shake!WithSaved, Shake!TypePassword, Shake!At, Checked,
           Secret
  <1>4. ASSUME NEW c \in Conn,
               \/ Shake!ShowKey(c) \/ Shake!DecideKey(c) \/ Shake!Learn(c)
               \/ Shake!WriteFile(c) \/ Shake!WriteFails(c)
               \/ Shake!Probe(c) \/ Shake!ByKey(c) \/ Shake!Round(c)
               \/ Shake!TooManyRounds(c)
               \/ Shake!Question(c) \/ Shake!Respond(c)
        PROVE  ShakeInv'
    BY <1>4, ShowKeyInv, DecideKeyInv, LearnInv, WriteFileInv, WriteFailsInv, ProbeInv,
       RoundInv, QuestionInv, RespondInv
  <1>5. QED
    BY <1>1, <1>2, <1>3, <1>4 DEF Shake!Next

(* What the invariant says of the variables and of what is told.           *)
LEMMA ShakeInvSays ==
  ASSUME ShakeInv
  PROVE  /\ Shake!TypeOK /\ Shake!SecretsAreGuarded /\ Shake!PasswordIsSpared
         /\ Shake!RememberedStays
  BY DEF ShakeInv, ShakeTypes

LEMMA ShakeInvHolds == Shake!HandshakeAssumption => (Shake!Spec => []ShakeInv)
  <1> SUFFICES ASSUME Shake!HandshakeAssumption PROVE Shake!Spec => []ShakeInv
    OBVIOUS
  <1>1. Shake!Init => ShakeInv
    BY ShakeInitInv
  <1>2. ShakeInv /\ [Shake!Next]_Shake!vars => ShakeInv'
    BY ShakeNextInv
  <1>3. QED
    BY <1>1, <1>2, PTL DEF Shake!Spec

-----------------------------------------------------------------------------
(* Every variable has the values the code gives it.                        *)
THEOREM ShakeTypeCorrect ==
  ASSUME Shake!HandshakeAssumption
  PROVE  Shake!Spec => []Shake!TypeOK
  <1>1. ShakeInv => Shake!TypeOK
    BY ShakeInvSays
  <1>2. QED
    BY <1>1, ShakeInvHolds, PTL

(* Whatever servers show and answer and however many connections remember  *)
(* keys at the same time: a password or an answer goes to a server only if *)
(* the key it showed was known, or accepted for this connection            *)
(* (check_server_key before authenticate).                                 *)
THEOREM OnlyVouchedServersAreTold ==
  ASSUME Shake!HandshakeAssumption
  PROVE  Shake!Spec => []Shake!SecretsAreGuarded
  <1>1. ShakeInv => Shake!SecretsAreGuarded
    BY ShakeInvSays
  <1>2. QED
    BY <1>1, ShakeInvHolds, PTL

(* keyboard_interactive gives the saved password to the first hidden       *)
(* question and to no other, and to none once the server accepted it.      *)
THEOREM PasswordGoesOnce ==
  ASSUME Shake!HandshakeAssumption
  PROVE  Shake!Spec => []Shake!PasswordIsSpared
  <1>1. ShakeInv => Shake!PasswordIsSpared
    BY ShakeInvSays
  <1>2. QED
    BY <1>1, ShakeInvHolds, PTL

(* WRITE_LOCK keeps connections that remember keys at the same time from   *)
(* losing each other's (remember_path).                                    *)
THEOREM KeysStayRemembered ==
  ASSUME Shake!HandshakeAssumption
  PROVE  Shake!Spec => []Shake!RememberedStays
  <1>1. ShakeInv => Shake!RememberedStays
    BY ShakeInvSays
  <1>2. QED
    BY <1>1, ShakeInvHolds, PTL

-----------------------------------------------------------------------------

AskKinds == {"prompt", "closed"}

AskElements(q) == {q[i] : i \in DOMAIN q}
AskOnce(q) == \A i, j \in DOMAIN q : q[i] = q[j] => i = j

\* An event that is emitted and not yet handled.
AskComing(what, p) == \E i \in DOMAIN heard : heard[i] = <<what, p>>

AskTypeInv ==
  /\ Asking!TypeOK
  /\ stage \in [Prompt -> {"new", "pending", "asking", "closed"}]
  /\ queue \in Seq(Prompt) /\ AskOnce(queue)
  /\ heard \in Seq(AskKinds \X Prompt)
  /\ snapshot # Asking!Unasked => listener = "both" /\ snapshot[1] \subseteq Prompt

(* The end of a prompt is told after its beginning, and only of a prompt   *)
(* that has ended.                                                         *)
AskEventsOK ==
  /\ \A p \in Prompt : AskComing("closed", p) \/ p \in closed => stage[p] = "closed"
  /\ \A i \in DOMAIN heard, p \in Prompt : heard[i] = <<"prompt", p>> =>
       \/ stage[p] = "asking"
       \/ \E j \in DOMAIN heard : j > i /\ heard[j] = <<"closed", p>>

(* What is shown, or will be once the list is there, has not ended unless  *)
(* the page cannot know it or is about to.                                 *)
AskExcused(p) == stage[p] # "closed" \/ p \in missed \cup refused \/ AskComing("closed", p)

AskGoneOK ==
  /\ \A p \in Asking!Shown : AskExcused(p)
  /\ snapshot # Asking!Unasked => \A p \in snapshot[1] : AskExcused(p) \/ p \in closed

(* From the moment the page has the list, what can be answered is shown, or *)
(* will be.                                                                *)
AskReached(p) ==
  p \in Asking!Shown \/ p \in answers \/ AskComing("prompt", p)

AskShownOK ==
  listener = "done" \/ snapshot # Asking!Unasked =>
    \A p \in prompted : stage[p] = "asking" =>
      AskReached(p) \/ (snapshot # Asking!Unasked /\ p \in snapshot[1])

AskInv == AskTypeInv /\ AskEventsOK /\ AskGoneOK /\ AskShownOK

-----------------------------------------------------------------------------
(* Sequences in which nothing occurs twice *)

LEMMA PushOK ==
  ASSUME NEW q \in Seq(Prompt), AskOnce(q), NEW p \in Prompt
  PROVE  /\ Asking!Push(q, p) \in Seq(Prompt) /\ AskOnce(Asking!Push(q, p))
         /\ AskElements(Asking!Push(q, p)) = AskElements(q) \cup {p}
  <1>1. CASE \E i \in DOMAIN q : q[i] = p
    BY <1>1 DEF Asking!Push, AskElements
  <1>2. CASE ~\E i \in DOMAIN q : q[i] = p
    <2>1. Asking!Push(q, p) = Append(q, p)
      BY <1>2 DEF Asking!Push
    <2>2. /\ Append(q, p) \in Seq(Prompt) /\ Len(Append(q, p)) = Len(q) + 1
          /\ DOMAIN Append(q, p) = 1 .. Len(q) + 1 /\ DOMAIN q = 1 .. Len(q)
          /\ Len(q) \in Nat
          /\ \A i \in 1 .. Len(q) : Append(q, p)[i] = q[i]
          /\ Append(q, p)[Len(q) + 1] = p
      OBVIOUS
    <2>3. AskOnce(Append(q, p))
      <3>1. SUFFICES ASSUME NEW i \in DOMAIN Append(q, p), NEW j \in DOMAIN Append(q, p),
                            Append(q, p)[i] = Append(q, p)[j]
                     PROVE  i = j
        BY DEF AskOnce
      <3>2. CASE i \in 1 .. Len(q) /\ j \in 1 .. Len(q)
        BY <3>1, <3>2, <2>2 DEF AskOnce
      <3>3. CASE i = Len(q) + 1 \/ j = Len(q) + 1
        BY <3>1, <3>3, <2>2, <1>2
      <3>4. QED
        BY <3>2, <3>3, <2>2
    <2>4. AskElements(Append(q, p)) = AskElements(q) \cup {p}
      BY <2>2 DEF AskElements
    <2>5. QED
      BY <2>1, <2>2, <2>3, <2>4
  <1>3. QED
    BY <1>1, <1>2

LEMMA ReturnedOK ==
  ASSUME NEW q \in Seq(Prompt), AskOnce(q), NEW p \in Prompt
  PROVE  /\ Asking!Returned(q, p) \in Seq(Prompt) /\ AskOnce(Asking!Returned(q, p))
         /\ AskElements(Asking!Returned(q, p)) = AskElements(q) \cup {p}
  <1>1. CASE \E i \in DOMAIN q : q[i] = p
    BY <1>1 DEF Asking!Returned, AskElements
  <1>2. CASE ~\E i \in DOMAIN q : q[i] = p
    <2> DEFINE r == <<p>> \o q
    <2>1. Asking!Returned(q, p) = r
      BY <1>2 DEF Asking!Returned
    <2>2. /\ r \in Seq(Prompt) /\ Len(r) = Len(q) + 1
          /\ DOMAIN r = 1 .. Len(q) + 1 /\ DOMAIN q = 1 .. Len(q) /\ Len(q) \in Nat
          /\ \A i \in 2 .. Len(q) + 1 : r[i] = q[i - 1]
          /\ r[1] = p
      OBVIOUS
    <2> HIDE DEF r
    <2>3. AskOnce(r)
      <3>1. SUFFICES ASSUME NEW i \in DOMAIN r, NEW j \in DOMAIN r, r[i] = r[j]
                     PROVE  i = j
        BY DEF AskOnce
      <3>2. CASE i # 1 /\ j # 1
        <4>1. i - 1 \in DOMAIN q /\ j - 1 \in DOMAIN q /\ q[i - 1] = q[j - 1]
          BY <3>1, <3>2, <2>2
        <4>2. i - 1 = j - 1
          BY <4>1 DEF AskOnce
        <4>3. QED
          BY <4>2, <3>1, <2>2
      <3>3. CASE i = 1 /\ j # 1
        <4>1. j - 1 \in DOMAIN q /\ q[j - 1] = p
          BY <3>1, <3>3, <2>2
        <4>2. QED
          BY <4>1, <1>2
      <3>4. CASE i # 1 /\ j = 1
        <4>1. i - 1 \in DOMAIN q /\ q[i - 1] = p
          BY <3>1, <3>4, <2>2
        <4>2. QED
          BY <4>1, <1>2
      <3>5. QED
        BY <3>2, <3>3, <3>4
    <2>4. AskElements(r) = AskElements(q) \cup {p}
      <3>1. \A i \in DOMAIN r : r[i] \in AskElements(q) \cup {p}
        BY <2>2 DEF AskElements
      <3>2. \A i \in DOMAIN q : i + 1 \in DOMAIN r /\ r[i + 1] = q[i]
        BY <2>2
      <3>3. 1 \in DOMAIN r /\ r[1] = p
        BY <2>2
      <3>4. QED
        BY <3>1, <3>2, <3>3 DEF AskElements
    <2>5. QED
      BY <2>1, <2>2, <2>3, <2>4
  <1>3. QED
    BY <1>1, <1>2

\* What is behind an element, and what is left when it is taken out.
LEMMA BehindOK ==
  ASSUME NEW q \in Seq(Prompt), NEW k \in 1 .. Len(q)
  PROVE  /\ SubSeq(q, k + 1, Len(q)) \in Seq(Prompt)
         /\ Len(SubSeq(q, k + 1, Len(q))) = Len(q) - k
         /\ \A i \in 1 .. Len(q) - k : SubSeq(q, k + 1, Len(q))[i] = q[k + i]
  <1> DEFINE m == k + 1
  <1>1. k \in Nat /\ Len(q) \in Nat /\ k <= Len(q)
    OBVIOUS
  <1>2. Len(q) \in Int /\ m \in Int /\ \A i \in m .. Len(q) : q[i] \in Prompt
    BY <1>1
  <1> HIDE DEF m
  <1>3. SubSeq(q, m, Len(q)) \in Seq(Prompt)
    BY ONLY <1>2, SubSeqProperties
  <1>4. Len(SubSeq(q, m, Len(q))) = IF m <= Len(q) THEN Len(q) - m + 1 ELSE 0
    BY ONLY <1>2, SubSeqProperties
  <1>5. \A i \in 1 .. Len(q) - k : SubSeq(q, k + 1, Len(q))[i] = q[k + i]
    OBVIOUS
  <1>6. QED
    BY <1>1, <1>3, <1>4, <1>5 DEF m

LEMMA JoinedOK ==
  ASSUME NEW front \in Seq(Prompt), NEW back \in Seq(Prompt),
         NEW n \in Nat, NEW k \in 1 .. n, Len(front) = k - 1, Len(back) = n - k
  PROVE  /\ front \o back \in Seq(Prompt) /\ Len(front \o back) = n - 1
         /\ DOMAIN (front \o back) = 1 .. n - 1
         /\ \A i \in 1 .. k - 1 : (front \o back)[i] = front[i]
         /\ \A i \in k .. n - 1 : (front \o back)[i] = back[i - (k - 1)]
  OBVIOUS

LEMMA WithoutOK ==
  ASSUME NEW q \in Seq(Prompt), AskOnce(q), NEW p \in Prompt
  PROVE  /\ Asking!Without(q, p) \in Seq(Prompt) /\ AskOnce(Asking!Without(q, p))
         /\ AskElements(Asking!Without(q, p)) = AskElements(q) \ {p}
  <1>1. CASE ~\E i \in DOMAIN q : q[i] = p
    BY <1>1 DEF Asking!Without, AskElements
  <1>2. CASE \E i \in DOMAIN q : q[i] = p
    <2> DEFINE k == CHOOSE i \in DOMAIN q : q[i] = p
               r == SubSeq(q, 1, k - 1) \o SubSeq(q, k + 1, Len(q))
    <2>1. k \in 1 .. Len(q) /\ q[k] = p /\ DOMAIN q = 1 .. Len(q) /\ Len(q) \in Nat
      BY <1>2
    <2>2. Asking!Without(q, p) = r
      BY <1>2 DEF Asking!Without, Asking!RemoveAt
    <2> HIDE DEF k
    <2>3. /\ r \in Seq(Prompt) /\ Len(r) = Len(q) - 1 /\ DOMAIN r = 1 .. Len(q) - 1
          /\ \A i \in 1 .. k - 1 : r[i] = q[i]
          /\ \A i \in k .. Len(q) - 1 : r[i] = q[i + 1]
      <3> DEFINE front == SubSeq(q, 1, k - 1)
                 back == SubSeq(q, k + 1, Len(q))
      <3>1. /\ front \in Seq(Prompt) /\ Len(front) = k - 1
            /\ \A i \in 1 .. k - 1 : front[i] = q[i]
        BY <2>1, SubSeqProperties
      <3>2. /\ back \in Seq(Prompt) /\ Len(back) = Len(q) - k
            /\ \A i \in 1 .. Len(q) - k : back[i] = q[k + i]
        BY <2>1, BehindOK
      <3>3. r = front \o back
        OBVIOUS
      <3> HIDE DEF front, back, r
      <3>4. /\ r \in Seq(Prompt) /\ Len(r) = Len(q) - 1 /\ DOMAIN r = 1 .. Len(q) - 1
            /\ \A i \in 1 .. k - 1 : r[i] = front[i]
            /\ \A i \in k .. Len(q) - 1 : r[i] = back[i - (k - 1)]
        BY <3>1, <3>2, <3>3, <2>1, JoinedOK
      <3>5. \A i \in k .. Len(q) - 1 :
              i - (k - 1) \in 1 .. Len(q) - k /\ k + (i - (k - 1)) = i + 1
        BY <2>1
      <3>6. \A i \in k .. Len(q) - 1 : r[i] = q[i + 1]
        BY <3>2, <3>4, <3>5
      <3>7. QED
        BY <3>1, <3>4, <3>6
    <2> HIDE DEF r
    <2> DEFINE Source(i) == IF i < k THEN i ELSE i + 1
    <2>4. \A i \in DOMAIN r : Source(i) \in DOMAIN q /\ Source(i) # k /\ r[i] = q[Source(i)]
      BY <2>1, <2>3
    <2>5. \A i, j \in DOMAIN r : Source(i) = Source(j) => i = j
      BY <2>1, <2>3
    <2>6. \A j \in DOMAIN q : j # k => \E i \in DOMAIN r : Source(i) = j
      <3>1. SUFFICES ASSUME NEW j \in DOMAIN q, j # k
                     PROVE  \E i \in DOMAIN r : Source(i) = j
        OBVIOUS
      <3>2. CASE j < k
        BY <3>1, <3>2, <2>1, <2>3
      <3>3. CASE j > k
        <4>1. j - 1 \in DOMAIN r /\ Source(j - 1) = j
          BY <3>1, <3>3, <2>1, <2>3
        <4>2. QED
          BY <4>1
      <3>4. QED
        BY <3>1, <3>2, <3>3, <2>1
    <2> HIDE DEF Source
    <2>7. AskOnce(r)
      BY <2>4, <2>5 DEF AskOnce
    <2>8. AskElements(r) = AskElements(q) \ {p}
      <3>1. \A j \in DOMAIN q : q[j] = p => j = k
        BY <2>1 DEF AskOnce
      <3>2. \A i \in DOMAIN r : r[i] \in AskElements(q) \ {p}
        BY <2>4, <3>1 DEF AskElements
      <3>3. \A j \in DOMAIN q : q[j] # p => q[j] \in AskElements(r)
        BY <2>1, <2>4, <2>6 DEF AskElements
      <3>4. QED
        BY <3>2, <3>3 DEF AskElements
    <2>9. QED
      BY <2>2, <2>3, <2>7, <2>8
  <1>3. QED
    BY <1>1, <1>2

(* The operators on sets are those of this module.                         *)
LEMMA SameInAsking ==
  /\ \A S : Asking!IsFiniteSet(S) <=> IsFiniteSet(S)
  /\ \A S : Asking!Cardinality(S) = Cardinality(S)
  <1>1. \A S : Asking!IsFiniteSet(S) <=> IsFiniteSet(S)
    BY DEF Asking!IsFiniteSet, IsFiniteSet
  <1>2. \A S : Asking!Cardinality(S) = Cardinality(S)
    BY DEF Asking!Cardinality, Cardinality
  <1>3. QED
    BY <1>1, <1>2

\* The page takes over what it does not show, in any order.
LEMMA AdoptedOK ==
  ASSUME Asking!ConnectionPromptsAssumption, NEW q \in Seq(Prompt), AskOnce(q),
         NEW S \in SUBSET Prompt, S \cap AskElements(q) = {},
         NEW order \in Asking!Bijection(1..Cardinality(S), S)
  PROVE  /\ q \o order \in Seq(Prompt) /\ AskOnce(q \o order)
         /\ AskElements(q \o order) = AskElements(q) \cup S
  <1>1. Cardinality(S) \in Nat
    BY FS_Subset, FS_CardinalityType, SameInAsking
       DEF Asking!ConnectionPromptsAssumption
  <1>2. /\ order \in [1..Cardinality(S) -> S]
        /\ \A i, j \in 1..Cardinality(S) : order[i] = order[j] => i = j
        /\ \A s \in S : \E i \in 1..Cardinality(S) : order[i] = s
    BY DEF Asking!Bijection, Asking!Injection, Asking!Surjection, Asking!IsInjective
  <1> DEFINE n == Cardinality(S)
             r == q \o order
  <1>3. n \in Nat /\ order \in Seq(Prompt) /\ Len(order) = n
    BY <1>1, <1>2
  <1>4. /\ r \in Seq(Prompt) /\ Len(r) = Len(q) + n /\ DOMAIN r = 1 .. Len(q) + n
        /\ DOMAIN q = 1 .. Len(q) /\ Len(q) \in Nat
        /\ \A i \in 1 .. Len(q) : r[i] = q[i]
        /\ \A i \in Len(q) + 1 .. Len(q) + n : r[i] = order[i - Len(q)]
    BY <1>3
  <1> HIDE DEF r, n
  <1>5. \A i \in Len(q) + 1 .. Len(q) + n : i - Len(q) \in 1 .. n /\ r[i] \in S
    <2>1. order \in [1 .. n -> S]
      BY <1>2 DEF n
    <2>2. \A i \in 1 .. n : order[i] \in S
      BY <2>1
    <2>3. \A i \in Len(q) + 1 .. Len(q) + n : i - Len(q) \in 1 .. n
      BY <1>3, <1>4
    <2>4. QED
      BY <2>2, <2>3, <1>4
  <1>6. AskOnce(r)
    <2>1. SUFFICES ASSUME NEW i \in DOMAIN r, NEW j \in DOMAIN r, r[i] = r[j]
                   PROVE  i = j
      BY DEF AskOnce
    <2>2. CASE i <= Len(q) /\ j <= Len(q)
      BY <2>1, <2>2, <1>3, <1>4 DEF AskOnce
    <2>3. CASE i > Len(q) /\ j > Len(q)
      <3>1. i - Len(q) \in 1 .. n /\ j - Len(q) \in 1 .. n
              /\ order[i - Len(q)] = order[j - Len(q)]
        BY <2>1, <2>3, <1>3, <1>4
      <3>2. i - Len(q) = j - Len(q)
        BY <3>1, <1>2 DEF n
      <3>3. QED
        BY <3>2, <1>3, <1>4
    <2>4. CASE i <= Len(q) /\ j > Len(q)
      <3>1. r[i] \in AskElements(q) /\ r[j] \in S
        BY <2>4, <1>3, <1>4, <1>5 DEF AskElements
      <3>2. QED
        BY <3>1, <2>1
    <2>5. CASE i > Len(q) /\ j <= Len(q)
      <3>1. r[j] \in AskElements(q) /\ r[i] \in S
        BY <2>5, <1>3, <1>4, <1>5 DEF AskElements
      <3>2. QED
        BY <3>1, <2>1
    <2>6. QED
      BY <2>2, <2>3, <2>4, <2>5, <1>3, <1>4
  <1>7. AskElements(r) = AskElements(q) \cup S
    <2>1. \A i \in DOMAIN r : r[i] \in AskElements(q) \cup S
      BY <1>3, <1>4, <1>5 DEF AskElements
    <2>2. \A i \in DOMAIN q : i \in DOMAIN r /\ r[i] = q[i]
      BY <1>3, <1>4
    <2>3. \A s \in S : \E i \in DOMAIN r : r[i] = s
      <3>1. SUFFICES ASSUME NEW s \in S PROVE \E i \in DOMAIN r : r[i] = s
        OBVIOUS
      <3>2. PICK i \in 1 .. n : order[i] = s
        BY <1>2 DEF n
      <3>3. Len(q) + i \in DOMAIN r /\ r[Len(q) + i] = s
        BY <3>2, <1>3, <1>4
      <3>4. QED
        BY <3>3
    <2>4. QED
      BY <2>1, <2>2, <2>3 DEF AskElements
  <1>8. QED
    BY <1>4, <1>6, <1>7 DEF r

-----------------------------------------------------------------------------
(* Events *)

LEMMA AppendsEvent ==
  ASSUME NEW es \in Seq(AskKinds \X Prompt), NEW e \in AskKinds \X Prompt
  PROVE  /\ Append(es, e) \in Seq(AskKinds \X Prompt)
         /\ DOMAIN es = 1 .. Len(es) /\ Len(es) \in Nat
         /\ DOMAIN Append(es, e) = 1 .. Len(es) + 1
         /\ \A i \in DOMAIN es : i \in DOMAIN Append(es, e) /\ Append(es, e)[i] = es[i]
         /\ Append(es, e)[Len(es) + 1] = e
         /\ \A i \in DOMAIN Append(es, e) : i \in DOMAIN es \/ i = Len(es) + 1
  OBVIOUS

LEMMA TakesEvent ==
  ASSUME NEW es \in Seq(AskKinds \X Prompt), es # <<>>
  PROVE  /\ Tail(es) \in Seq(AskKinds \X Prompt)
         /\ Head(es) = es[1] /\ Head(es) \in AskKinds \X Prompt
         /\ 1 \in DOMAIN es /\ DOMAIN es \subseteq Nat
         /\ \A i \in DOMAIN Tail(es) :
              i \in Nat /\ i + 1 \in DOMAIN es /\ Tail(es)[i] = es[i + 1]
         /\ \A i \in DOMAIN es :
              i # 1 => i - 1 \in DOMAIN Tail(es) /\ Tail(es)[i - 1] = es[i]
  OBVIOUS

-----------------------------------------------------------------------------
LEMMA AskInitOK ==
  ASSUME Asking!ConnectionPromptsAssumption, Asking!Init
  PROVE  AskInv
  <1>1. Attempts \in Nat /\ 0 \in 0 .. Attempts - 1
    BY DEF Asking!ConnectionPromptsAssumption
  <1>2. Asking!TypeOK
    BY <1>1 DEF Asking!Init, Asking!TypeOK, Asking!Shown
  <1>3. AskTypeInv
    BY <1>2 DEF Asking!Init, AskTypeInv, AskOnce, Asking!Unasked
  <1>4. AskEventsOK /\ AskGoneOK /\ AskShownOK
    BY DEF Asking!Init, AskEventsOK, AskGoneOK, AskShownOK, AskComing, Asking!Unasked,
           Asking!Shown
  <1>5. QED
    BY <1>3, <1>4 DEF AskInv

LEMMA ShownIsElements ==
  Asking!Shown = AskElements(queue) /\ Asking!Shown' = AskElements(queue')
  BY DEF Asking!Shown, AskElements

\* What an event that is appended changes.
LEMMA Announces ==
  ASSUME AskTypeInv, AskEventsOK, NEW what \in AskKinds, NEW p \in Prompt,
         heard' = Append(heard, <<what, p>>)
  PROVE  /\ heard' \in Seq(AskKinds \X Prompt)
         /\ \A k \in AskKinds, r \in Prompt :
              AskComing(k, r)' <=> AskComing(k, r) \/ (k = what /\ r = p)
         /\ \A i \in DOMAIN heard', r \in Prompt : heard'[i] = <<"prompt", r>> =>
              \/ stage[r] = "asking"
              \/ \E j \in DOMAIN heard' : j > i /\ heard'[j] = <<"closed", r>>
              \/ what = "prompt" /\ r = p
         /\ \A i \in DOMAIN heard', r \in Prompt :
              what = "closed" /\ r = p /\ heard'[i] = <<"prompt", r>> =>
                \E j \in DOMAIN heard' : j > i /\ heard'[j] = <<"closed", r>>
  <1> DEFINE e == <<what, p>>
  <1>1. heard \in Seq(AskKinds \X Prompt) /\ e \in AskKinds \X Prompt
    BY DEF AskTypeInv
  <1>2. /\ heard' \in Seq(AskKinds \X Prompt)
        /\ DOMAIN heard = 1 .. Len(heard) /\ Len(heard) \in Nat
        /\ DOMAIN heard' = 1 .. Len(heard) + 1
        /\ \A i \in DOMAIN heard : i \in DOMAIN heard' /\ heard'[i] = heard[i]
        /\ heard'[Len(heard) + 1] = e
        /\ \A i \in DOMAIN heard' : i \in DOMAIN heard \/ i = Len(heard) + 1
    BY <1>1, AppendsEvent
  <1>3. Len(heard) + 1 \in DOMAIN heard'
    BY <1>2
  <1>4. ASSUME NEW k \in AskKinds, NEW r \in Prompt
        PROVE  AskComing(k, r)' <=> AskComing(k, r) \/ (k = what /\ r = p)
    <2>1. ASSUME AskComing(k, r)'
          PROVE  AskComing(k, r) \/ (k = what /\ r = p)
      <3>1. PICK i \in DOMAIN heard' : heard'[i] = <<k, r>>
        BY <2>1 DEF AskComing
      <3>2. CASE i \in DOMAIN heard
        BY <1>2, <3>1, <3>2 DEF AskComing
      <3>3. CASE i = Len(heard) + 1
        BY <1>2, <3>1, <3>3
      <3>4. QED
        BY <1>2, <3>2, <3>3
    <2>2. ASSUME AskComing(k, r)
          PROVE  AskComing(k, r)'
      BY <1>2, <2>2 DEF AskComing
    <2>3. ASSUME k = what, r = p
          PROVE  AskComing(k, r)'
      BY <1>2, <1>3, <2>3 DEF AskComing
    <2>4. QED
      BY <2>1, <2>2, <2>3
  <1>5. ASSUME NEW i \in DOMAIN heard', NEW r \in Prompt, heard'[i] = <<"prompt", r>>
        PROVE  \/ stage[r] = "asking"
               \/ \E j \in DOMAIN heard' : j > i /\ heard'[j] = <<"closed", r>>
               \/ what = "prompt" /\ r = p
    <2>1. CASE i \in DOMAIN heard
      BY <1>2, <1>5, <2>1 DEF AskEventsOK
    <2>2. CASE i = Len(heard) + 1
      BY <1>2, <1>5, <2>2
    <2>3. QED
      BY <1>2, <2>1, <2>2
  <1>6. ASSUME NEW i \in DOMAIN heard', NEW r \in Prompt,
               what = "closed" /\ r = p /\ heard'[i] = <<"prompt", r>>
        PROVE  \E j \in DOMAIN heard' : j > i /\ heard'[j] = <<"closed", r>>
    <2>1. i \in DOMAIN heard /\ Len(heard) + 1 > i
      BY <1>2, <1>6
    <2>2. QED
      BY <2>1, <1>2, <1>3, <1>6
  <1>7. QED
    BY <1>2, <1>4, <1>5, <1>6

-----------------------------------------------------------------------------
(* The backend *)

LEMMA InsertOK ==
  ASSUME AskInv, NEW p \in Prompt, Asking!Insert(p)
  PROVE  AskInv'
  <1>1. /\ stage[p] = "new" /\ stage' = [stage EXCEPT ![p] = "pending"]
        /\ prompted' = prompted \cup {p}
        /\ UNCHANGED <<heard, queue, listener, attempt, snapshot, closed, answers, missed,
                       refused>>
    BY DEF Asking!Insert, Asking!page
  <1>2. /\ stage' \in [Prompt -> {"new", "pending", "asking", "closed"}]
        /\ stage'[p] = "pending" /\ \A r \in Prompt : r # p => stage'[r] = stage[r]
    BY <1>1 DEF AskInv, AskTypeInv
  <1>3. Asking!Shown' = Asking!Shown /\ \A k, r : AskComing(k, r)' <=> AskComing(k, r)
    BY <1>1 DEF Asking!Shown, AskComing
  <1>4. AskTypeInv'
    <2>1. prompted' \subseteq {r \in Prompt : stage'[r] \in {"pending", "asking"}}
      BY <1>1, <1>2 DEF AskInv, AskTypeInv, Asking!TypeOK
    <2>2. Asking!TypeOK'
      BY <1>1, <1>2, <1>3, <2>1 DEF AskInv, AskTypeInv, Asking!TypeOK
    <2>3. QED
      BY <1>1, <1>2, <2>2 DEF AskInv, AskTypeInv, AskOnce
  <1>5. AskEventsOK'
    BY <1>1, <1>2, <1>3 DEF AskInv, AskEventsOK
  <1>6. \A r \in Prompt : AskExcused(r) => AskExcused(r)'
    BY <1>1, <1>2, <1>3 DEF AskExcused
  <1>7. AskGoneOK'
    BY <1>1, <1>3, <1>6 DEF AskInv, AskGoneOK, AskTypeInv, Asking!TypeOK
  <1>8. AskShownOK'
    BY <1>1, <1>2, <1>3 DEF AskInv, AskShownOK, AskTypeInv, Asking!TypeOK, AskReached
  <1>9. QED
    BY <1>4, <1>5, <1>7, <1>8 DEF AskInv

LEMMA EmitOK ==
  ASSUME AskInv, NEW p \in Prompt, Asking!Emit(p)
  PROVE  AskInv'
  <1>1. /\ stage[p] = "pending" /\ stage' = [stage EXCEPT ![p] = "asking"]
        /\ heard' = Append(heard, <<"prompt", p>>)
        /\ UNCHANGED <<prompted, queue, listener, attempt, snapshot, closed, answers,
                       missed,
                       refused>>
    BY DEF Asking!Emit, Asking!page
  <1>2. /\ stage' \in [Prompt -> {"new", "pending", "asking", "closed"}]
        /\ stage'[p] = "asking" /\ \A r \in Prompt : r # p => stage'[r] = stage[r]
    BY <1>1 DEF AskInv, AskTypeInv
  <1>3. /\ heard' \in Seq(AskKinds \X Prompt)
        /\ \A r \in Prompt : AskComing("closed", r)' <=> AskComing("closed", r)
        /\ \A r \in Prompt : AskComing("prompt", r) \/ r = p <=> AskComing("prompt", r)'
        /\ \A i \in DOMAIN heard', r \in Prompt : heard'[i] = <<"prompt", r>> =>
              \/ stage[r] = "asking"
              \/ \E j \in DOMAIN heard' : j > i /\ heard'[j] = <<"closed", r>>
              \/ r = p
    <2>1. "prompt" \in AskKinds /\ "closed" \in AskKinds
      BY DEF AskKinds
    <2>2. AskTypeInv /\ AskEventsOK
      BY DEF AskInv
    <2> DEFINE what == "prompt"
    <2>3. what \in AskKinds /\ heard' = Append(heard, <<what, p>>)
      BY <2>1, <1>1
    <2>4. what = "prompt"
      OBVIOUS
    <2> HIDE DEF what
    <2>5. /\ heard' \in Seq(AskKinds \X Prompt)
          /\ \A k \in AskKinds, r \in Prompt :
               AskComing(k, r)' <=> AskComing(k, r) \/ (k = what /\ r = p)
          /\ \A i \in DOMAIN heard', r \in Prompt : heard'[i] = <<"prompt", r>> =>
               \/ stage[r] = "asking"
               \/ \E j \in DOMAIN heard' : j > i /\ heard'[j] = <<"closed", r>>
               \/ what = "prompt" /\ r = p
          /\ \A i \in DOMAIN heard', r \in Prompt :
               what = "closed" /\ r = p /\ heard'[i] = <<"prompt", r>> =>
                 \E j \in DOMAIN heard' : j > i /\ heard'[j] = <<"closed", r>>
      BY <2>2, <2>3, Announces
    <2>6. QED
      BY <2>1, <2>4, <2>5
  <1>4. Asking!Shown' = Asking!Shown
    BY <1>1 DEF Asking!Shown
  <1>5. AskTypeInv'
    <2>1. prompted' \subseteq {r \in Prompt : stage'[r] \in {"pending", "asking"}}
      BY <1>1, <1>2 DEF AskInv, AskTypeInv, Asking!TypeOK
    <2>2. Asking!TypeOK'
      BY <1>1, <1>2, <1>4, <2>1 DEF AskInv, AskTypeInv, Asking!TypeOK
    <2>3. QED
      BY <1>1, <1>2, <1>3, <2>2 DEF AskInv, AskTypeInv, AskOnce
  <1>6. AskEventsOK'
    BY <1>1, <1>2, <1>3 DEF AskInv, AskEventsOK
  <1>7. \A r \in Prompt : AskExcused(r) => AskExcused(r)'
    BY <1>1, <1>2, <1>3 DEF AskExcused
  <1>8. AskGoneOK'
    BY <1>1, <1>4, <1>7 DEF AskInv, AskGoneOK, AskTypeInv, Asking!TypeOK
  <1>9. AskShownOK'
    BY <1>1, <1>2, <1>3, <1>4 DEF AskInv, AskShownOK, AskTypeInv, Asking!TypeOK, AskReached
  <1>10. QED
    BY <1>5, <1>6, <1>8, <1>9 DEF AskInv

LEMMA AskCloseOK ==
  ASSUME AskInv, NEW p \in Prompt, Asking!Close(p)
  PROVE  AskInv'
  <1>1. /\ stage[p] = "asking" /\ stage' = [stage EXCEPT ![p] = "closed"]
        /\ prompted' = prompted \ {p}
        /\ heard' = Append(heard, <<"closed", p>>)
        /\ UNCHANGED <<queue, listener, attempt, snapshot, closed, answers, missed,
                       refused>>
    BY DEF Asking!Close, Asking!page
  <1>2. /\ stage' \in [Prompt -> {"new", "pending", "asking", "closed"}]
        /\ stage'[p] = "closed" /\ \A r \in Prompt : r # p => stage'[r] = stage[r]
    BY <1>1 DEF AskInv, AskTypeInv
  <1>3. /\ heard' \in Seq(AskKinds \X Prompt)
        /\ \A r \in Prompt : AskComing("closed", r)' <=> AskComing("closed", r) \/ r = p
        /\ \A r \in Prompt : AskComing("prompt", r) <=> AskComing("prompt", r)'
        /\ \A i \in DOMAIN heard', r \in Prompt : heard'[i] = <<"prompt", r>> =>
              \/ stage[r] = "asking" /\ r # p
              \/ \E j \in DOMAIN heard' : j > i /\ heard'[j] = <<"closed", r>>
    <2>1. "prompt" \in AskKinds /\ "closed" \in AskKinds
      BY DEF AskKinds
    <2>2. AskTypeInv /\ AskEventsOK
      BY DEF AskInv
    <2> DEFINE what == "closed"
    <2>3. what \in AskKinds /\ heard' = Append(heard, <<what, p>>)
      BY <2>1, <1>1
    <2>4. what = "closed"
      OBVIOUS
    <2> HIDE DEF what
    <2>5. /\ heard' \in Seq(AskKinds \X Prompt)
          /\ \A k \in AskKinds, r \in Prompt :
               AskComing(k, r)' <=> AskComing(k, r) \/ (k = what /\ r = p)
          /\ \A i \in DOMAIN heard', r \in Prompt : heard'[i] = <<"prompt", r>> =>
               \/ stage[r] = "asking"
               \/ \E j \in DOMAIN heard' : j > i /\ heard'[j] = <<"closed", r>>
               \/ what = "prompt" /\ r = p
          /\ \A i \in DOMAIN heard', r \in Prompt :
               what = "closed" /\ r = p /\ heard'[i] = <<"prompt", r>> =>
                 \E j \in DOMAIN heard' : j > i /\ heard'[j] = <<"closed", r>>
      BY <2>2, <2>3, Announces
    <2>6. QED
      BY <2>1, <2>4, <2>5
  <1>4. Asking!Shown' = Asking!Shown
    BY <1>1 DEF Asking!Shown
  <1>5. AskTypeInv'
    <2>1. prompted' \subseteq {r \in Prompt : stage'[r] \in {"pending", "asking"}}
      BY <1>1, <1>2 DEF AskInv, AskTypeInv, Asking!TypeOK
    <2>2. Asking!TypeOK'
      BY <1>1, <1>2, <1>4, <2>1 DEF AskInv, AskTypeInv, Asking!TypeOK
    <2>3. QED
      BY <1>1, <1>2, <1>3, <2>2 DEF AskInv, AskTypeInv, AskOnce
  <1>6. AskEventsOK'
    BY <1>1, <1>2, <1>3 DEF AskInv, AskEventsOK
  <1>7. \A r \in Prompt : AskExcused(r) => AskExcused(r)'
    BY <1>1, <1>2, <1>3 DEF AskExcused
  <1>8. AskGoneOK'
    BY <1>1, <1>4, <1>7 DEF AskInv, AskGoneOK, AskTypeInv, Asking!TypeOK
  <1>9. AskShownOK'
    BY <1>1, <1>2, <1>3, <1>4 DEF AskInv, AskShownOK, AskTypeInv, Asking!TypeOK, AskReached
  <1>10. QED
    BY <1>5, <1>6, <1>8, <1>9 DEF AskInv

LEMMA HandleAnswerOK ==
  ASSUME AskInv, NEW p \in Prompt, Asking!HandleAnswer(p)
  PROVE  AskInv'
  <1>1. /\ answers' = answers \ {p} /\ prompted' = prompted \ {p}
        /\ UNCHANGED <<stage, heard, queue, listener, attempt, snapshot, closed, missed,
                       refused>>
    BY DEF Asking!HandleAnswer
  <1>2. Asking!Shown' = Asking!Shown /\ \A k, r : AskComing(k, r)' <=> AskComing(k, r)
    BY <1>1 DEF Asking!Shown, AskComing
  <1>3. AskTypeInv'
    BY <1>1, <1>2 DEF AskInv, AskTypeInv, Asking!TypeOK, AskOnce
  <1>4. AskEventsOK'
    BY <1>1, <1>2 DEF AskInv, AskEventsOK
  <1>5. AskGoneOK'
    BY <1>1, <1>2 DEF AskInv, AskGoneOK, AskExcused
  <1>6. AskShownOK'
    BY <1>1, <1>2 DEF AskInv, AskShownOK, AskReached
  <1>7. QED
    BY <1>3, <1>4, <1>5, <1>6 DEF AskInv

-----------------------------------------------------------------------------
(* The page *)

\* What the page does when it neither hears an event nor shows anything.
LEMMA WaitsOK ==
  ASSUME AskInv,
         UNCHANGED <<stage, prompted, heard, queue, closed, answers, missed, refused>>,
         listener' \in {"none", "prompt", "both", "done", "unsure"},
         attempt' \in 0 .. Attempts - 1,
         snapshot' # Asking!Unasked => listener' = "both" /\ snapshot'[1] = prompted,
         listener' = "done" => listener = "done"
  PROVE  AskInv'
  <1>1. Asking!Shown' = Asking!Shown /\ \A k, r : AskComing(k, r)' <=> AskComing(k, r)
    BY DEF Asking!Shown, AskComing
  <1>2. prompted \subseteq Prompt
    BY DEF AskInv, AskTypeInv, Asking!TypeOK
  <1>3. AskTypeInv'
    BY <1>1, <1>2 DEF AskInv, AskTypeInv, Asking!TypeOK, AskOnce, Asking!Unasked
  <1>4. AskEventsOK'
    BY <1>1 DEF AskInv, AskEventsOK
  <1>5. \A r \in prompted : stage[r] # "closed"
    BY DEF AskInv, AskTypeInv, Asking!TypeOK
  <1>6. AskGoneOK'
    BY <1>1, <1>5 DEF AskInv, AskGoneOK, AskExcused, Asking!Unasked
  <1>7. AskShownOK'
    BY <1>1 DEF AskInv, AskTypeInv, AskShownOK, AskReached, Asking!Unasked
  <1>8. QED
    BY <1>3, <1>4, <1>6, <1>7 DEF AskInv

LEMMA ListenOK ==
  ASSUME AskInv, Asking!Listen
  PROVE  AskInv'
  <1>1. /\ listener' \in {"prompt", "both"} /\ snapshot' = snapshot /\ listener # "both"
        /\ attempt' = attempt
        /\ UNCHANGED <<stage, prompted, heard, queue, closed, answers, missed, refused>>
    BY DEF Asking!Listen, Asking!backend
  <1>2. attempt \in 0 .. Attempts - 1 /\ snapshot = Asking!Unasked
    BY <1>1 DEF AskInv, AskTypeInv, Asking!TypeOK
  <1>3. QED
    BY <1>1, <1>2, WaitsOK

LEMMA AskOK ==
  ASSUME Asking!ConnectionPromptsAssumption, AskInv,
         Asking!AskPending \/ Asking!AskFails \/ Asking!AskGivesUp
  PROVE  AskInv'
  <1>1. /\ listener = "both" /\ listener' \in {"both", "unsure"}
        /\ UNCHANGED <<stage, prompted, heard, queue, closed, answers, missed, refused>>
    BY DEF Asking!AskPending, Asking!AskFails, Asking!AskGivesUp, Asking!backend, AskInv,
           AskTypeInv
  <1>2. attempt' \in 0 .. Attempts - 1
    <2>1. attempt \in 0 .. Attempts - 1 /\ Attempts \in Nat
      BY DEF AskInv, AskTypeInv, Asking!TypeOK, Asking!ConnectionPromptsAssumption
    <2>2. QED
      BY <2>1 DEF Asking!AskPending, Asking!AskFails, Asking!AskGivesUp
  <1>3. snapshot' # Asking!Unasked => listener' = "both" /\ snapshot'[1] = prompted
    BY DEF Asking!AskPending, Asking!AskFails, Asking!AskGivesUp, Asking!Unasked
  <1>4. QED
    BY <1>1, <1>2, <1>3, WaitsOK

LEMMA AdoptOK ==
  ASSUME Asking!ConnectionPromptsAssumption, AskInv, Asking!Adopt
  PROVE  AskInv'
  <1> DEFINE missing == (snapshot[1] \ closed) \ Asking!Shown
  <1>1. /\ snapshot # Asking!Unasked /\ listener' = "done" /\ snapshot' = Asking!Unasked
        /\ closed' = {}
        /\ UNCHANGED <<stage, prompted, heard, attempt, answers, missed, refused>>
    BY DEF Asking!Adopt, Asking!backend
  <1>2. PICK order \in Asking!Bijection(1..Cardinality(missing), missing) :
               queue' = queue \o order
    BY SameInAsking DEF Asking!Adopt
  <1>3. /\ listener = "both" /\ missing \in SUBSET Prompt
        /\ missing \cap AskElements(queue) = {}
        /\ queue \in Seq(Prompt) /\ AskOnce(queue)
    BY <1>1, ShownIsElements DEF AskInv, AskTypeInv
  <1>4. queue' \in Seq(Prompt) /\ AskOnce(queue')
          /\ AskElements(queue') = AskElements(queue) \cup missing
    <2> HIDE DEF missing
    <2>1. QED
      BY <1>2, <1>3, AdoptedOK
  <1>5. Asking!Shown' = Asking!Shown \cup (snapshot[1] \ closed)
    BY <1>4, ShownIsElements
  <1>6. \A k, r : AskComing(k, r)' <=> AskComing(k, r)
    BY <1>1 DEF AskComing
  <1>7. AskTypeInv'
    <2>1. Asking!Shown' \subseteq Prompt
      BY <1>1, <1>5 DEF AskInv, AskTypeInv, Asking!TypeOK
    <2>2. Asking!TypeOK'
      BY <1>1, <1>4, <2>1 DEF AskInv, AskTypeInv, Asking!TypeOK, AskOnce
    <2>3. QED
      BY <1>1, <1>4, <2>2 DEF AskInv, AskTypeInv, AskOnce
  <1>8. AskEventsOK'
    BY <1>1, <1>6 DEF AskInv, AskEventsOK
  <1>9. AskGoneOK'
    BY <1>1, <1>5, <1>6 DEF AskInv, AskGoneOK, AskExcused
  <1>10. AskShownOK'
    <2>1. SUFFICES ASSUME NEW p \in prompted, stage[p] = "asking"
                   PROVE  AskReached(p)'
      BY <1>1 DEF AskShownOK
    <2>2. AskReached(p) \/ p \in snapshot[1]
      BY <2>1, <1>1 DEF AskInv, AskShownOK
    <2>3. p \notin closed
      BY <2>1 DEF AskInv, AskEventsOK, AskTypeInv, Asking!TypeOK
    <2>4. QED
      BY <2>2, <2>3, <1>1, <1>5, <1>6 DEF AskReached
  <1>11. QED
    BY <1>7, <1>8, <1>9, <1>10 DEF AskInv

LEMMA RespondOK ==
  ASSUME AskInv, NEW p \in Prompt, Asking!Respond(p)
  PROVE  AskInv'
  <1>1. /\ queue' = Asking!Without(queue, p) /\ answers' = answers \cup {p}
        /\ UNCHANGED <<stage, prompted, heard, listener, attempt, snapshot, closed, missed,
                       refused>>
    BY DEF Asking!Respond, Asking!backend
  <1>2. queue' \in Seq(Prompt) /\ AskOnce(queue') /\ Asking!Shown' = Asking!Shown \ {p}
    BY <1>1, WithoutOK, ShownIsElements DEF AskInv, AskTypeInv
  <1>3. \A k, r : AskComing(k, r)' <=> AskComing(k, r)
    BY <1>1 DEF AskComing
  <1>4. AskTypeInv'
    BY <1>1, <1>2 DEF AskInv, AskTypeInv, Asking!TypeOK, AskOnce
  <1>5. AskEventsOK'
    BY <1>1, <1>3 DEF AskInv, AskEventsOK
  <1>6. AskGoneOK'
    BY <1>1, <1>2, <1>3 DEF AskInv, AskGoneOK, AskExcused
  <1>7. AskShownOK'
    BY <1>1, <1>2, <1>3 DEF AskInv, AskShownOK, AskReached
  <1>8. QED
    BY <1>4, <1>5, <1>6, <1>7 DEF AskInv

LEMMA RespondFailsOK ==
  ASSUME AskInv, NEW p \in Prompt, Asking!RespondFails(p)
  PROVE  AskInv'
  <1>1. /\ queue' = Asking!Returned(queue, p) /\ answers' = answers \ {p}
        /\ refused' = refused \cup {p}
        /\ UNCHANGED <<stage, prompted, heard, listener, attempt, snapshot, closed, missed>>
    BY DEF Asking!RespondFails, Asking!backend
  <1>2. queue' \in Seq(Prompt) /\ AskOnce(queue') /\ Asking!Shown' = Asking!Shown \cup {p}
    BY <1>1, ReturnedOK, ShownIsElements DEF AskInv, AskTypeInv
  <1>3. \A k, r : AskComing(k, r)' <=> AskComing(k, r)
    BY <1>1 DEF AskComing
  <1>4. AskTypeInv'
    BY <1>1, <1>2 DEF AskInv, AskTypeInv, Asking!TypeOK, AskOnce
  <1>5. AskEventsOK'
    BY <1>1, <1>3 DEF AskInv, AskEventsOK
  <1>6. AskGoneOK'
    BY <1>1, <1>2, <1>3 DEF AskInv, AskGoneOK, AskExcused
  <1>7. AskShownOK'
    BY <1>1, <1>2, <1>3 DEF AskInv, AskShownOK, AskReached
  <1>8. QED
    BY <1>4, <1>5, <1>6, <1>7 DEF AskInv

LEMMA ReloadOK ==
  ASSUME Asking!ConnectionPromptsAssumption, AskInv, Asking!Reload
  PROVE  AskInv'
  <1>1. /\ prompted' = {} /\ heard' = <<>> /\ queue' = <<>> /\ listener' = "none"
        /\ attempt' = 0 /\ snapshot' = Asking!Unasked
        /\ closed' = {} /\ answers' = {} /\ missed' = {} /\ refused' = {} /\ stage' = stage
    BY DEF Asking!Reload
  <1>2. 0 \in 0 .. Attempts - 1
    BY DEF Asking!ConnectionPromptsAssumption
  <1>3. AskTypeInv'
    BY <1>1, <1>2 DEF AskInv, AskTypeInv, Asking!TypeOK, AskOnce, Asking!Shown
  <1>4. AskEventsOK' /\ AskGoneOK' /\ AskShownOK'
    BY <1>1 DEF AskEventsOK, AskGoneOK, AskShownOK, AskComing, Asking!Shown, Asking!Unasked
  <1>5. QED
    BY <1>3, <1>4 DEF AskInv

LEMMA AskHearOK ==
  ASSUME AskInv, Asking!Hear
  PROVE  AskInv'
  <1>1. /\ heard # <<>> /\ heard' = Tail(heard) /\ heard \in Seq(AskKinds \X Prompt)
        /\ UNCHANGED <<stage, prompted, listener, attempt, snapshot, answers, refused>>
    BY DEF Asking!Hear, Asking!backend, AskInv, AskTypeInv
  <1>2. /\ heard' \in Seq(AskKinds \X Prompt)
        /\ Head(heard) = heard[1] /\ Head(heard) \in AskKinds \X Prompt
        /\ 1 \in DOMAIN heard /\ DOMAIN heard \subseteq Nat
        /\ \A i \in DOMAIN heard' :
             i \in Nat /\ i + 1 \in DOMAIN heard /\ heard'[i] = heard[i + 1]
        /\ \A i \in DOMAIN heard : i # 1 =>
             i - 1 \in DOMAIN heard' /\ heard'[i - 1] = heard[i]
    BY <1>1, TakesEvent
  <1>3. PICK p \in Prompt :
          /\ p = Head(heard)[2] /\ Head(heard)[1] \in AskKinds
          /\ heard[1] = <<Head(heard)[1], p>>
    BY <1>2
  <1>4. \A k, r : AskComing(k, r)' => AskComing(k, r)
    BY <1>2 DEF AskComing
  <1>5. \A k, r : AskComing(k, r) => AskComing(k, r)' \/ <<k, r>> = Head(heard)
    BY <1>2 DEF AskComing
  <1>6. Head(heard)[1] = "closed" => stage[p] = "closed"
    BY <1>2, <1>3 DEF AskInv, AskEventsOK, AskComing
  <1>7. Head(heard)[1] = "prompt" => stage[p] # "closed" \/ AskComing("closed", p)'
    <2>1. SUFFICES ASSUME Head(heard)[1] = "prompt", stage[p] = "closed"
                   PROVE  AskComing("closed", p)'
      OBVIOUS
    <2>2. PICK j \in DOMAIN heard : j > 1 /\ heard[j] = <<"closed", p>>
      BY <1>2, <1>3, <2>1 DEF AskInv, AskEventsOK
    <2>3. j # 1
      BY <2>2, <1>2
    <2>4. j - 1 \in DOMAIN heard' /\ heard'[j - 1] = <<"closed", p>>
      BY <2>2, <2>3, <1>2
    <2>5. QED
      BY <2>4 DEF AskComing
  <1>8. /\ queue' \in Seq(Prompt) /\ AskOnce(queue')
        /\ closed' \subseteq closed \cup {p} /\ closed \subseteq closed'
        /\ missed' \subseteq missed \cup {p} /\ missed \subseteq missed'
        /\ Asking!Shown' \subseteq Asking!Shown \cup {p}
        /\ Asking!Shown \subseteq Asking!Shown' \cup {p}
        /\ Head(heard)[1] = "prompt" =>
             closed' = closed /\ (p \in Asking!Shown' \/ listener = "none")
        /\ Head(heard)[1] = "closed" =>
             /\ Asking!Shown' \subseteq Asking!Shown
             /\ p \notin Asking!Shown' \/ p \in missed'
             /\ listener = "both" => p \in closed'
    <2>1. queue \in Seq(Prompt) /\ AskOnce(queue)
      BY DEF AskInv, AskTypeInv
    <2>2. CASE Head(heard)[1] = "prompt" /\ listener # "none"
               /\ queue' = Asking!Push(queue, p)
               /\ UNCHANGED <<closed, missed>>
      BY <2>1, <2>2, <1>3, PushOK, ShownIsElements
    <2>3. CASE Head(heard)[1] = "closed" /\ queue' = Asking!Without(queue, p)
               /\ closed' = closed \cup Asking!Remembered(p) /\ UNCHANGED missed
      BY <2>1, <2>3, <1>3, WithoutOK, ShownIsElements DEF Asking!Remembered
    <2>4. CASE Head(heard)[1] = "closed" /\ listener \in {"none", "prompt"}
               /\ missed' = missed \cup {p} /\ UNCHANGED <<queue, closed>>
      BY <2>1, <2>4, ShownIsElements
    <2>5. CASE Head(heard)[1] = "prompt" /\ listener = "none"
               /\ UNCHANGED <<queue, closed, missed>>
      BY <2>1, <2>5, ShownIsElements
    <2>6. QED
      BY <1>3, <2>2, <2>3, <2>4, <2>5 DEF Asking!Hear
  <1>9. AskTypeInv'
    BY <1>1, <1>2, <1>3, <1>8 DEF AskInv, AskTypeInv, Asking!TypeOK, AskOnce
  <1>10. AskEventsOK'
    <2>1. \A r \in Prompt : AskComing("closed", r)' \/ r \in closed' => stage'[r] = "closed"
      BY <1>1, <1>3, <1>4, <1>6, <1>8 DEF AskInv, AskEventsOK, AskKinds
    <2>2. ASSUME NEW i \in DOMAIN heard', NEW r \in Prompt, heard'[i] = <<"prompt", r>>,
                 stage'[r] # "asking"
          PROVE  \E j \in DOMAIN heard' : j > i /\ heard'[j] = <<"closed", r>>
      <3>1. i \in Nat /\ i + 1 \in DOMAIN heard /\ heard[i + 1] = <<"prompt", r>>
        BY <1>2, <2>2
      <3>2. PICK j \in DOMAIN heard : j > i + 1 /\ heard[j] = <<"closed", r>>
        BY <3>1, <2>2, <1>1 DEF AskInv, AskEventsOK
      <3>3. j # 1 /\ j \in Nat
        BY <3>1, <3>2, <1>2
      <3>4. j - 1 \in DOMAIN heard' /\ j - 1 > i /\ heard'[j - 1] = <<"closed", r>>
        BY <3>1, <3>2, <3>3, <1>2
      <3>5. QED
        BY <3>4
    <2>3. QED
      BY <2>1, <2>2 DEF AskEventsOK
  <1>11. \A r \in Prompt : AskExcused(r) /\ r # p => AskExcused(r)'
    BY <1>1, <1>3, <1>5, <1>2, <1>8 DEF AskExcused
  <1>12. Head(heard)[1] = "prompt" => AskExcused(p)'
    BY <1>1, <1>7 DEF AskExcused
  <1>13. AskGoneOK'
    <2>1. ASSUME NEW r \in Asking!Shown' PROVE AskExcused(r)'
      <3>1. r \in Prompt
        BY <2>1, <1>9 DEF AskTypeInv, Asking!TypeOK
      <3>2. CASE r # p
        BY <3>1, <3>2, <2>1, <1>8, <1>11 DEF AskInv, AskGoneOK
      <3>3. CASE r = p
        BY <3>3, <2>1, <1>3, <1>8, <1>12 DEF AskExcused, AskKinds
      <3>4. QED
        BY <3>2, <3>3
    <2>2. ASSUME snapshot' # Asking!Unasked,
                 NEW r \in snapshot'[1] PROVE AskExcused(r)' \/ r \in closed'
      <3>1. listener = "both" /\ r \in Prompt /\ (AskExcused(r) \/ r \in closed)
        BY <2>2, <1>1 DEF AskInv, AskTypeInv, AskGoneOK
      <3>2. CASE r # p
        BY <3>1, <3>2, <1>8, <1>11
      <3>3. CASE r = p
        BY <3>1, <3>3, <1>3, <1>8, <1>12 DEF AskKinds
      <3>4. QED
        BY <3>2, <3>3
    <2>3. QED
      BY <2>1, <2>2 DEF AskGoneOK
  <1>14. AskShownOK'
    <2>1. SUFFICES ASSUME listener = "done" \/ snapshot # Asking!Unasked,
                          NEW r \in prompted, stage[r] = "asking",
                          ~(snapshot # Asking!Unasked /\ r \in snapshot[1])
                   PROVE  AskReached(r)'
      BY <1>1 DEF AskShownOK
    <2>2. AskReached(r) /\ r \in Prompt /\ listener # "none"
      BY <2>1 DEF AskInv, AskShownOK, AskTypeInv, Asking!TypeOK
    <2>3. CASE r # p
      BY <2>2, <2>3, <1>1, <1>2, <1>3, <1>5, <1>8 DEF AskReached
    <2>4. CASE r = p
      BY <2>1, <2>2, <2>4, <1>3, <1>6, <1>8 DEF AskReached, AskKinds
    <2>5. QED
      BY <2>3, <2>4
  <1>15. QED
    BY <1>9, <1>10, <1>13, <1>14 DEF AskInv

-----------------------------------------------------------------------------
LEMMA AskNextOK ==
  ASSUME Asking!ConnectionPromptsAssumption, AskInv, [Asking!Next]_Asking!vars
  PROVE  AskInv'
  <1>1. CASE \E p \in Prompt :
              Asking!Insert(p) \/ Asking!Emit(p) \/ Asking!Close(p) \/ Asking!HandleAnswer(p)
                               \/ Asking!Respond(p) \/ Asking!RespondFails(p)
    BY <1>1, InsertOK, EmitOK, AskCloseOK, HandleAnswerOK, RespondOK, RespondFailsOK
  <1>2. CASE Asking!Listen
    BY <1>2, ListenOK
  <1>3. CASE Asking!Hear
    BY <1>3, AskHearOK
  <1>4. CASE Asking!AskPending \/ Asking!AskFails \/ Asking!AskGivesUp
    BY <1>4, AskOK
  <1>5. CASE Asking!Adopt
    BY <1>5, AdoptOK
  <1>6. CASE Asking!Reload
    BY <1>6, ReloadOK
  <1>7. CASE UNCHANGED Asking!vars
    BY <1>7 DEF Asking!vars, AskInv, AskTypeInv, Asking!TypeOK, Asking!Shown, AskOnce,
                AskEventsOK, AskGoneOK, AskShownOK, AskComing, AskExcused, AskReached
  <1>8. QED
    BY <1>1, <1>2, <1>3, <1>4, <1>5, <1>6, <1>7 DEF Asking!Next

LEMMA AskInvSays ==
  ASSUME AskInv
  PROVE  Asking!TypeOK /\ Asking!PromptsAreTrue
  <1>1. Asking!TypeOK
    BY DEF AskInv, AskTypeInv
  <1>2. Asking!EndedIsGone
    BY DEF AskInv, AskGoneOK, AskExcused, Asking!EndedIsGone, AskComing
  <1>3. Asking!EveryPromptIsShown
    <2>1. SUFFICES ASSUME listener = "done", heard = <<>>, NEW p \in prompted,
                          stage[p] = "asking"
                   PROVE  p \in Asking!Shown \cup answers
      BY DEF Asking!EveryPromptIsShown
    <2>2. snapshot = Asking!Unasked
      BY <2>1 DEF AskInv, AskTypeInv
    <2>3. ~AskComing("prompt", p)
      BY <2>1 DEF AskComing
    <2>4. QED
      BY <2>1, <2>2, <2>3 DEF AskInv, AskShownOK, AskReached
  <1>4. QED
    BY <1>1, <1>2, <1>3 DEF Asking!PromptsAreTrue

-----------------------------------------------------------------------------

Statuses == {"connected", "ended"}

PaneTypeInv ==
  /\ Panes!TypeOK
  /\ opens \in Nat /\ opens <= MaxOpens /\ loads \in Nat /\ crossed \in BOOLEAN
  /\ repeated \in BOOLEAN
  /\ calls \subseteq [cmd : {"open", "close", "close any"}, attempt : Nat,
                      chan : {Panes!Nil} \cup Panes!Chan]
  /\ told \subseteq Panes!Chan \X Statuses

(* An open that is under way is the only one of its number, and nothing    *)
(* has come of it so far.                                                  *)
Untouched(i) == shell[i] = Panes!Unborn /\ \A s \in Statuses : <<i, s>> \notin told

OpensOK ==
  /\ \A i \in Panes!Chan : i > opens => Untouched(i)
  /\ \A c \in calls : c.cmd = "open" => c.chan \in 1 .. opens /\ Untouched(c.chan)
  /\ \A c, d \in calls : c.cmd = "open" /\ d.cmd = "open" /\ c.chan = d.chan => c = d

PaneOK ==
  /\ pane.chan <= opens
  /\ ~pane.released => pane.chan \in Panes!Chan
  /\ pane.ui \in {"waiting", "connected"} => ~pane.released
  /\ pane.ui = "closed" => pane.released
  /\ \A c \in calls :
       c.cmd = "open" /\ c.chan = pane.chan /\ ~pane.released => c.attempt = pane.attempt

(* Whose entry is in the map is waited for, the threads that wait know     *)
(* their shells by numbers of their own, and one that is reaped is dead.   *)
EntryOK ==
  /\ entry # Panes!Nil => shell[entry].waiter = "waits"
  /\ \A i \in Panes!Chan : shell[i].waiter \in {"reads", "done"} => shell[i].child = "dead"
  /\ ~repeated => \A i, j \in Panes!Chan :
       i # j /\ shell[i].waiter = "waits" /\ shell[j].waiter = "waits" =>
         shell[i].attempt # shell[j].attempt
  /\ Panes!ShellsAreKept

(* A shell that was connected is there, or the page will hear of its end.  *)
Accounted(i) ==
  \/ entry = i \/ <<i, "ended">> \in told
  \/ shell[i].child # "alive" /\ shell[i].waiter # "done"

PaneToldOK ==
  /\ \A i \in Panes!Chan : <<i, "ended">> \in told => shell[i].child # "alive"
  /\ ~repeated => \A i \in Panes!Chan :
       <<i, "connected">> \in told \/ (pane.ui = "connected" /\ pane.chan = i) =>
         Accounted(i)

(* A shell that runs is the pane's, or its close is under way.             *)
Holds(i) == i = pane.chan /\ ~pane.released
WillClose(i) ==
  \E c \in calls : c.cmd = "close any" \/ (c.cmd = "close" /\ c.attempt = shell[i].attempt)

PaneKeptOK ==
  /\ \A i \in Panes!Chan :
       Holds(i) /\ shell[i].child = "alive" => shell[i].attempt = pane.attempt
  /\ pane.ui = "ended" /\ ~pane.released =>
       /\ shell[pane.chan].child # "alive"
       /\ \A c \in calls : c.cmd = "open" => c.chan # pane.chan
  /\ ~crossed /\ ~repeated => \A i \in Panes!Chan :
       shell[i].child = "alive" => Holds(i) \/ WillClose(i)

PaneInv == PaneTypeInv /\ OpensOK /\ PaneOK /\ EntryOK /\ PaneToldOK /\ PaneKeptOK

-----------------------------------------------------------------------------
LEMMA PaneInitOK ==
  ASSUME Panes!LocalTerminalsAssumption, Panes!Init
  PROVE  PaneInv
  <1>1. /\ MaxOpens \in Nat
        /\ pane = [ui |-> "new", attempt |-> 0, chan |-> 0, released |-> TRUE]
        /\ opens = 0 /\ calls = {} /\ loads = 0 /\ told = {} /\ entry = 0
        /\ crossed = FALSE /\ repeated = FALSE
        /\ shell = [i \in Panes!Chan |-> Panes!Unborn]
    BY DEF Panes!LocalTerminalsAssumption, Panes!Init, Panes!Unmounted, Panes!Nil
  <1>2. shell \in [Panes!Chan -> [attempt : Nat, child : {"none", "alive", "killed",
                                                          "dead"},
                                 waiter : {"none", "waits", "reads", "done"}]]
    BY <1>1 DEF Panes!Unborn
  <1>3. PaneTypeInv
    <2>1. Panes!TypeOK
      BY <1>1, <1>2 DEF Panes!TypeOK, Panes!Nil
    <2>2. opens \in Nat /\ opens <= MaxOpens /\ loads \in Nat
      BY <1>1
    <2>3. QED
      BY <1>1, <2>1, <2>2 DEF PaneTypeInv
  <1>4. OpensOK /\ PaneOK
    BY <1>1 DEF OpensOK, PaneOK, Untouched
  <1>5. EntryOK /\ PaneToldOK /\ PaneKeptOK
    BY <1>1 DEF EntryOK, Panes!ShellsAreKept, PaneToldOK, PaneKeptOK, Panes!Unborn,
                Panes!Nil
  <1>6. QED
    BY <1>3, <1>4, <1>5 DEF PaneInv

(* Killing a child changes nothing else.                                   *)
LEMMA KilledOK ==
  ASSUME Panes!LocalTerminalsAssumption, PaneTypeInv
  PROVE  /\ Panes!Killed \in [Panes!Chan -> [attempt : Nat, child : {"none", "alive",
                                                                     "killed", "dead"},
                                            waiter : {"none", "waits", "reads", "done"}]]
         /\ \A i \in Panes!Chan :
              /\ Panes!Killed[i].attempt = shell[i].attempt
              /\ Panes!Killed[i].waiter = shell[i].waiter
              /\ Panes!Killed[i].child =
                   (IF i = entry /\ shell[i].child = "alive" THEN "killed"
                                          ELSE shell[i].child)
              /\ shell[i] = Panes!Unborn => Panes!Killed[i] = Panes!Unborn
  <1>1. CASE entry = Panes!Nil
    <2>1. Panes!Killed = shell /\ \A i \in Panes!Chan : i # entry
      BY <1>1 DEF Panes!LocalTerminalsAssumption, Panes!Killed, Panes!Chan, Panes!Nil
    <2>2. QED
      BY <2>1 DEF PaneTypeInv, Panes!TypeOK
  <1>2. CASE entry \in Panes!Chan
    <2>1. Panes!Killed = [shell EXCEPT ![entry].child = IF @ = "alive" THEN "killed" ELSE @]
      BY <1>2 DEF Panes!LocalTerminalsAssumption, Panes!Killed, Panes!Kill, Panes!Chan,
                  Panes!Nil
    <2>2. \A i \in Panes!Chan : i # entry => Panes!Killed[i] = shell[i]
      BY <1>2, <2>1 DEF PaneTypeInv, Panes!TypeOK
    <2>3. Panes!Killed[entry] = [shell[entry] EXCEPT !.child = IF @ = "alive" THEN "killed"
                                   ELSE @]
      BY <1>2, <2>1 DEF PaneTypeInv, Panes!TypeOK
    <2>4. Panes!Killed[entry] \in [attempt : Nat, child : {"none", "alive", "killed",
                                                           "dead"},
                                  waiter : {"none", "waits", "reads", "done"}]
      BY <1>2, <2>3 DEF PaneTypeInv, Panes!TypeOK
    <2>5. /\ Panes!Killed[entry].attempt = shell[entry].attempt
          /\ Panes!Killed[entry].waiter = shell[entry].waiter
          /\ Panes!Killed[entry].child =
               (IF shell[entry].child = "alive" THEN "killed" ELSE shell[entry].child)
          /\ shell[entry] = Panes!Unborn => Panes!Killed[entry] = Panes!Unborn
      <3>1. shell[entry] \in [attempt : Nat, child : {"none", "alive", "killed", "dead"},
                             waiter : {"none", "waits", "reads", "done"}]
        BY <1>2 DEF PaneTypeInv, Panes!TypeOK
      <3>2. shell[entry].child # "alive" => Panes!Killed[entry] = shell[entry]
        BY <2>3, <3>1
      <3>3. QED
        BY <2>3, <3>1, <3>2 DEF Panes!Unborn
    <2>6. Panes!Killed \in [Panes!Chan -> [attempt : Nat, child : {"none", "alive",
                                                                   "killed", "dead"},
                                          waiter : {"none", "waits", "reads", "done"}]]
      BY <1>2, <2>1, <2>2, <2>4 DEF PaneTypeInv, Panes!TypeOK
    <2>7. QED
      BY <1>2, <2>2, <2>5, <2>6
  <1>3. QED
    BY <1>1, <1>2 DEF PaneTypeInv, Panes!TypeOK

(* What the page does leaves the backend alone.                            *)
LEMMA OpenOK ==
  ASSUME Panes!LocalTerminalsAssumption, PaneInv, Panes!Open
  PROVE  PaneInv'
  <1> DEFINE new == [cmd |-> "open", attempt |-> pane'.attempt, chan |-> opens + 1]
             old == [cmd |-> "close", attempt |-> pane.attempt, chan |-> pane.chan]
  <1>1. /\ opens' = opens + 1 /\ opens \in Nat /\ opens + 1 \in Panes!Chan
        /\ MaxOpens \in Nat
        /\ pane'.ui = "waiting" /\ pane'.chan = opens + 1 /\ pane'.released = FALSE
        /\ UNCHANGED <<shell, entry, loads, told, crossed, repeated>>
    <2>1. opens < MaxOpens /\ opens' = opens + 1
      BY DEF Panes!Open
    <2>2. opens \in Nat /\ opens + 1 \in Panes!Chan /\ MaxOpens \in Nat
      <3>1. opens \in Nat /\ opens <= MaxOpens /\ MaxOpens \in Nat
        BY DEF Panes!LocalTerminalsAssumption, PaneInv, PaneTypeInv
      <3>2. QED
        BY <2>1, <3>1 DEF Panes!Chan
    <2>3. QED
      BY <2>1, <2>2 DEF Panes!Open, Panes!history
  <1>2. pane' \in [ui : {"waiting"}, attempt : Nat, chan : Panes!Chan, released : BOOLEAN]
    <2>1. pane.attempt + 1 \in Nat
      <3>1. pane.attempt \in Nat
        BY DEF PaneInv, PaneTypeInv, Panes!TypeOK
      <3>2. QED
        BY <3>1
    <2>2. QED
      BY <1>1, <2>1 DEF Panes!Open
  <1>3. /\ calls' \subseteq calls \cup {old, new} /\ calls \cup {new} \subseteq calls'
        /\ ~pane.released => old \in calls'
    BY <1>1 DEF Panes!Open, Panes!Release, Panes!Command
  <1>4. PaneTypeInv'
    <2>1. {old, new} \subseteq [cmd : {"open", "close", "close any"}, attempt : Nat,
                               chan : {Panes!Nil} \cup Panes!Chan]
      <3>1. pane.attempt \in Nat /\ pane.chan \in {Panes!Nil} \cup Panes!Chan
              /\ pane'.attempt \in Nat
        BY <1>2 DEF PaneInv, PaneTypeInv, Panes!TypeOK
      <3>2. QED
        BY <1>1, <3>1
    <2>2. calls' \subseteq [cmd : {"open", "close", "close any"}, attempt : Nat,
                           chan : {Panes!Nil} \cup Panes!Chan]
      BY <1>3, <2>1 DEF PaneInv, PaneTypeInv
    <2>3. opens' \in Nat /\ opens' <= MaxOpens
      BY <1>1 DEF Panes!Chan
    <2>4. Panes!TypeOK'
      BY <1>1, <1>2 DEF PaneInv, PaneTypeInv, Panes!TypeOK
    <2>5. QED
      BY <1>1, <2>2, <2>3, <2>4 DEF PaneInv, PaneTypeInv
  <1>5. \A c \in calls : c.cmd = "open" => c.chan \in Panes!Chan /\ c.chan <= opens
    BY <1>1 DEF PaneInv, OpensOK, Panes!Chan
  <1>6. /\ new.cmd = "open" /\ new.chan = opens + 1 /\ new.attempt = pane'.attempt
        /\ old.cmd = "close" /\ old.attempt = pane.attempt
    OBVIOUS
  <1> HIDE DEF old, new
  <1>7. OpensOK'
    <2>1. Untouched(opens + 1) /\ \A i \in Panes!Chan : Untouched(i)' <=> Untouched(i)
      BY <1>1 DEF PaneInv, OpensOK, Untouched
    <2>2. \A i \in Panes!Chan : i > opens' => Untouched(i)'
      BY <1>1, <2>1 DEF PaneInv, OpensOK, Panes!Chan
    <2>3. \A c \in calls' : c.cmd = "open" => c.chan \in 1 .. opens' /\ Untouched(c.chan)'
      BY <1>1, <1>3, <1>5, <1>6, <2>1 DEF PaneInv, OpensOK
    <2>4. \A c, d \in calls' : c.cmd = "open" /\ d.cmd = "open" /\ c.chan = d.chan => c = d
      BY <1>1, <1>3, <1>5, <1>6 DEF PaneInv, OpensOK, Panes!Chan
    <2>5. QED
      BY <2>2, <2>3, <2>4 DEF OpensOK
  <1>8. PaneOK'
    BY <1>1, <1>3, <1>5, <1>6 DEF PaneOK, Panes!Chan
  <1>9. EntryOK'
    BY <1>1 DEF PaneInv, EntryOK, Panes!ShellsAreKept
  <1>10. PaneToldOK'
    BY <1>1 DEF PaneInv, PaneToldOK, Accounted
  <1>11. PaneKeptOK'
    <2>1. shell[opens + 1].child # "alive"
      BY <1>1 DEF PaneInv, OpensOK, Untouched, Panes!Unborn, Panes!Chan
    <2>2. ASSUME NEW i \in Panes!Chan, ~crossed, ~repeated, shell[i].child = "alive"
          PROVE  WillClose(i)'
      <3>1. CASE Holds(i)
        BY <1>1, <1>3, <1>6, <2>2, <3>1 DEF PaneInv, PaneKeptOK, Holds, WillClose
      <3>2. CASE WillClose(i)
        BY <1>1, <1>3, <3>2 DEF WillClose
      <3>3. QED
        BY <2>2, <3>1, <3>2 DEF PaneInv, PaneKeptOK
    <2>3. QED
      BY <1>1, <2>1, <2>2 DEF PaneKeptOK, Holds
  <1>12. QED
    BY <1>4, <1>7, <1>8, <1>9, <1>10, <1>11 DEF PaneInv

LEMMA PaneHearOK ==
  ASSUME Panes!LocalTerminalsAssumption, PaneInv, Panes!Hear
  PROVE  PaneInv'
  <1>1. PICK x \in told :
          /\ x[2] = "ended" => <<x[1], "connected">> \notin told
          /\ told' = told \ {x}
          /\ IF x[1] = pane.chan /\ ~pane.released /\ pane.ui \in {"waiting", "connected"}
               THEN pane' = [pane EXCEPT !.ui = x[2]] ELSE UNCHANGED pane
          /\ UNCHANGED <<opens, calls, shell, entry, loads, crossed, repeated>>
    BY DEF Panes!Hear, Panes!history
  <1>2. x[1] \in Panes!Chan /\ x[2] \in Statuses /\ x = <<x[1], x[2]>>
    <2>1. x \in Panes!Chan \X Statuses
      BY DEF PaneInv, PaneTypeInv
    <2>2. QED
      BY <2>1
  <1>3. /\ pane'.attempt = pane.attempt /\ pane'.chan = pane.chan
        /\ pane'.released = pane.released
        /\ pane' \in [ui : {"new", "waiting", "connected", "ended",
                            "closed"}, attempt : Nat,
                      chan : {Panes!Nil} \cup Panes!Chan, released : BOOLEAN]
        /\ \/ pane'.ui = pane.ui
           \/ pane'.ui = x[2] /\ x[1] = pane.chan /\ ~pane.released
    BY <1>1, <1>2 DEF PaneInv, PaneTypeInv, Panes!TypeOK, Statuses
  <1>4. PaneTypeInv'
    BY <1>1, <1>3 DEF PaneInv, PaneTypeInv, Panes!TypeOK
  <1>5. OpensOK'
    BY <1>1 DEF PaneInv, OpensOK, Untouched
  <1>6. PaneOK'
    BY <1>1, <1>2, <1>3 DEF PaneInv, PaneOK, Statuses
  <1>7. EntryOK'
    BY <1>1 DEF PaneInv, EntryOK, Panes!ShellsAreKept
  <1>8. PaneToldOK'
    <2>1. \A i \in Panes!Chan : <<i, "ended">> \in told' => shell'[i].child # "alive"
      BY <1>1 DEF PaneInv, PaneToldOK
    <2>2. ASSUME ~repeated, NEW i \in Panes!Chan,
                 <<i, "connected">> \in told' \/ (pane'.ui = "connected" /\ pane'.chan = i)
          PROVE  Accounted(i)'
      <3>1. <<i, "connected">> \in told \/ (pane.ui = "connected" /\ pane.chan = i)
        BY <1>1, <1>2, <1>3, <2>2
      <3>2. Accounted(i)
        BY <2>2, <3>1 DEF PaneInv, PaneToldOK
      <3>3. x # <<i, "ended">>
        <4> SUFFICES ASSUME x = <<i, "ended">>
                     PROVE  FALSE
          OBVIOUS
        <4>1. <<i, "connected">> \notin told' /\ pane'.ui = "connected" /\ pane'.chan = i
          BY <1>1, <2>2
        <4>2. pane.ui = "connected" /\ pane.chan = i
          BY <1>1, <1>3, <3>1, <4>1
        <4>3. ~pane.released
          BY <4>2 DEF PaneInv, PaneOK
        <4>4. QED
          BY <1>1, <4>1, <4>2, <4>3 DEF PaneInv, PaneTypeInv, Panes!TypeOK
      <3>4. QED
        BY <1>1, <3>2, <3>3 DEF Accounted
    <2>3. QED
      BY <1>1, <2>1, <2>2 DEF PaneToldOK
  <1>9. PaneKeptOK'
    <2>1. pane'.ui = "ended" /\ ~pane'.released =>
            /\ shell[pane.chan].child # "alive"
            /\ \A c \in calls : c.cmd = "open" => c.chan # pane.chan
      <3>1. CASE pane'.ui = pane.ui
        BY <1>3, <3>1 DEF PaneInv, PaneKeptOK
      <3>2. CASE pane'.ui = x[2] /\ x[1] = pane.chan
        BY <1>2, <3>2 DEF PaneInv, PaneToldOK, OpensOK, Untouched
      <3>3. QED
        BY <1>3, <3>1, <3>2
    <2>2. \A i \in Panes!Chan : (Holds(i)' <=> Holds(i)) /\ (WillClose(i)' <=> WillClose(i))
      BY <1>1, <1>3 DEF Holds, WillClose
    <2>3. QED
      BY <1>1, <1>3, <2>1, <2>2 DEF PaneInv, PaneKeptOK
  <1>10. QED
    BY <1>4, <1>5, <1>6, <1>7, <1>8, <1>9 DEF PaneInv

(* The page gives up its shell: the close is under way.                    *)
LEMMA LeavesOK ==
  ASSUME Panes!LocalTerminalsAssumption, PaneInv, NEW more, NEW ui \in {"ended", "closed"},
         pane' \in [ui : {"ended",
                          "closed"}, attempt : Nat, chan : {Panes!Nil} \cup Panes!Chan,
                   released : {TRUE}],
         pane'.chan \in {pane.chan,
                         Panes!Nil}, calls' = calls \cup Panes!Release(pane) \cup more,
         more \subseteq [cmd : {"close any"}, attempt : Nat,
                         chan : {Panes!Nil} \cup Panes!Chan],
         UNCHANGED <<opens, shell, entry, loads, told, crossed, repeated>>
  PROVE  PaneInv'
  <1> DEFINE old == [cmd |-> "close", attempt |-> pane.attempt, chan |-> pane.chan]
  <1>1. calls' \subseteq calls \cup {old} \cup more /\ calls \subseteq calls'
        /\ (~pane.released => old \in calls')
    BY DEF Panes!Release, Panes!Command
  <1>2. /\ old \in [cmd : {"close"}, attempt : Nat, chan : {Panes!Nil} \cup Panes!Chan]
        /\ old.cmd = "close" /\ old.attempt = pane.attempt
    BY DEF PaneInv, PaneTypeInv, Panes!TypeOK
  <1>3. \A c \in calls' : c.cmd = "open" => c \in calls
    BY <1>1, <1>2
  <1> HIDE DEF old
  <1>4. PaneTypeInv'
    <2>1. calls' \subseteq [cmd : {"open", "close", "close any"}, attempt : Nat,
                           chan : {Panes!Nil} \cup Panes!Chan]
      BY <1>1, <1>2 DEF PaneInv, PaneTypeInv
    <2>2. Panes!TypeOK'
      BY DEF PaneInv, PaneTypeInv, Panes!TypeOK
    <2>3. QED
      BY <2>1, <2>2 DEF PaneInv, PaneTypeInv
  <1>5. OpensOK'
    BY <1>3 DEF PaneInv, OpensOK, Untouched
  <1>6. PaneOK'
    <2>1. opens \in Nat /\ pane.chan <= opens
      BY DEF PaneInv, PaneTypeInv, PaneOK
    <2>2. pane'.chan <= opens
      <3>1. pane'.chan = pane.chan \/ pane'.chan = 0
        BY DEF Panes!Nil
      <3>2. QED
        BY ONLY <2>1, <3>1
    <2>3. pane'.released /\ pane'.ui \in {"ended", "closed"}
      OBVIOUS
    <2>4. QED
      BY <1>3, <2>2, <2>3 DEF PaneOK
  <1>7. EntryOK'
    BY DEF PaneInv, EntryOK, Panes!ShellsAreKept
  <1>8. PaneToldOK'
    BY DEF PaneInv, PaneToldOK, Accounted
  <1>9. PaneKeptOK'
    <2>1. ASSUME NEW i \in Panes!Chan, ~crossed, ~repeated, shell[i].child = "alive"
          PROVE  WillClose(i)'
      <3>1. CASE Holds(i)
        BY <1>1, <1>2, <2>1, <3>1 DEF PaneInv, PaneKeptOK, Holds, WillClose
      <3>2. CASE WillClose(i)
        BY <1>1, <3>2 DEF WillClose
      <3>3. QED
        BY <2>1, <3>1, <3>2 DEF PaneInv, PaneKeptOK
    <2>2. QED
      BY <2>1 DEF PaneKeptOK, Holds
  <1>10. QED
    BY <1>4, <1>5, <1>6, <1>7, <1>8, <1>9 DEF PaneInv

LEMMA GiveUpOK ==
  ASSUME Panes!LocalTerminalsAssumption, PaneInv, Panes!GiveUp
  PROVE  PaneInv'
  <1>1. /\ pane' \in [ui : {"ended",
                            "closed"}, attempt : Nat, chan : {Panes!Nil} \cup Panes!Chan,
                      released : {TRUE}]
        /\ pane'.chan = pane.chan
    BY DEF PaneInv, PaneTypeInv, Panes!TypeOK, Panes!GiveUp
  <1>2. calls' = calls \cup Panes!Release(pane) \cup {}
    BY DEF Panes!GiveUp
  <1>3. QED
    BY <1>1, <1>2, LeavesOK DEF Panes!GiveUp, Panes!history

LEMMA ClosePaneOK ==
  ASSUME Panes!LocalTerminalsAssumption, PaneInv, Panes!ClosePane
  PROVE  PaneInv'
  <1>1. /\ pane' \in [ui : {"ended",
                            "closed"}, attempt : Nat, chan : {Panes!Nil} \cup Panes!Chan,
                      released : {TRUE}]
        /\ pane'.chan = Panes!Nil
    BY DEF Panes!ClosePane, Panes!Unmounted
  <1>2. {Panes!Command("close any", pane)} \subseteq [cmd : {"close any"}, attempt : Nat,
                                                     chan : {Panes!Nil} \cup Panes!Chan]
    <2>1. pane.attempt \in Nat /\ pane.chan \in {Panes!Nil} \cup Panes!Chan
      BY DEF PaneInv, PaneTypeInv, Panes!TypeOK
    <2>2. QED
      BY <2>1 DEF Panes!Command
  <1>3. QED
    BY <1>1, <1>2, LeavesOK DEF Panes!ClosePane, Panes!history

-----------------------------------------------------------------------------
LEMMA OpenChan ==
  ASSUME Panes!LocalTerminalsAssumption, PaneInv
  PROVE  \A c \in calls : c.cmd = "open" => c.chan \in Panes!Chan
  <1>1. opens \in Nat /\ opens <= MaxOpens /\ MaxOpens \in Nat
    BY DEF PaneInv, PaneTypeInv, Panes!LocalTerminalsAssumption
  <1>2. 1 .. opens \subseteq Panes!Chan
    BY <1>1 DEF Panes!Chan
  <1>3. QED
    BY <1>2 DEF PaneInv, OpensOK

(* An entry leaves the map with its shell killed or reaped: the page, the  *)
(* commands under way and what was told stay the same.                     *)
LEMMA ClosesOK ==
  ASSUME Panes!LocalTerminalsAssumption, PaneInv, shell' = Panes!Killed, entry' = Panes!Nil,
         UNCHANGED <<pane, opens, loads, told, crossed, repeated>>,
         calls' \subseteq calls
  PROVE  PaneInv'
  <1>1. /\ shell' \in [Panes!Chan -> [attempt : Nat, child : {"none", "alive", "killed",
                                                              "dead"},
                                      waiter : {"none", "waits", "reads", "done"}]]
        /\ \A i \in Panes!Chan :
             /\ shell'[i].attempt = shell[i].attempt /\ shell'[i].waiter = shell[i].waiter
             /\ shell'[i].child = (IF i = entry /\ shell[i].child = "alive" THEN "killed"
                                   ELSE shell[i].child)
             /\ shell[i] = Panes!Unborn => shell'[i] = Panes!Unborn
    BY KilledOK DEF PaneInv
  <1>2. PaneTypeInv'
    <2>1. Panes!TypeOK'
      BY <1>1 DEF PaneInv, PaneTypeInv, Panes!TypeOK
    <2>2. QED
      BY <2>1 DEF PaneInv, PaneTypeInv
  <1>3. \A i \in Panes!Chan : Untouched(i) => Untouched(i)'
    BY <1>1 DEF Untouched
  <1>4. OpensOK'
    <2>1. \A c \in calls : c.cmd = "open" => c.chan \in Panes!Chan
      BY OpenChan
    <2>2. QED
      BY <1>3, <2>1 DEF PaneInv, OpensOK
  <1>5. PaneOK'
    BY DEF PaneInv, PaneOK
  <1>6. EntryOK' /\ \A i \in Panes!Chan : ~repeated => shell'[i].child # "alive"
    <2>1. \A i \in Panes!Chan : ~repeated => shell'[i].child # "alive"
      BY <1>1 DEF PaneInv, EntryOK, Panes!ShellsAreKept
    <2>2. ASSUME NEW i \in Panes!Chan, shell'[i].waiter \in {"reads", "done"}
          PROVE  shell'[i].child = "dead"
      BY <1>1, <2>2 DEF PaneInv, EntryOK
    <2>3. QED
      BY <1>1, <2>1, <2>2 DEF PaneInv, EntryOK, Panes!ShellsAreKept
  <1>7. PaneToldOK'
    <2>1. ASSUME NEW i \in Panes!Chan, <<i, "ended">> \in told
          PROVE  shell'[i].child # "alive"
      BY <1>1, <2>1 DEF PaneInv, PaneToldOK
    <2>2. ASSUME NEW i \in Panes!Chan, ~repeated, Accounted(i)
          PROVE  Accounted(i)'
      <3>1. CASE i = entry
        BY <1>1, <1>6, <2>2, <3>1 DEF PaneInv, EntryOK, Accounted, Panes!Nil, Panes!Chan,
               Panes!LocalTerminalsAssumption
      <3>2. CASE i # entry
        BY <1>1, <2>2, <3>2 DEF Accounted
      <3>3. QED
        BY <3>1, <3>2
    <2>3. QED
      BY <2>1, <2>2 DEF PaneInv, PaneToldOK
  <1>8. PaneKeptOK'
    <2>1. ASSUME pane.ui = "ended", ~pane.released
          PROVE  shell'[pane.chan].child # "alive"
      BY <1>1, <2>1 DEF PaneInv, PaneKeptOK, PaneOK
    <2>2. ASSUME NEW i \in Panes!Chan, Holds(i), shell'[i].child = "alive"
          PROVE  shell'[i].attempt = pane.attempt
      BY <1>1, <2>2 DEF PaneInv, PaneKeptOK
    <2>3. QED
      BY <1>6, <2>1, <2>2 DEF PaneInv, PaneKeptOK, Holds
  <1>9. QED
    BY <1>2, <1>4, <1>5, <1>6, <1>7, <1>8 DEF PaneInv

LEMMA PaneCloseOK ==
  ASSUME Panes!LocalTerminalsAssumption, PaneInv, NEW c \in calls, Panes!Close(c)
  PROVE  PaneInv'
  <1>1. /\ c.cmd \in {"close", "close any"} /\ calls' = calls \ {c}
        /\ UNCHANGED <<pane, opens, loads, told, crossed, repeated>>
    BY DEF Panes!Close, Panes!Handle, Panes!page, Panes!history
  <1>2. CASE Panes!Closes(c)
    BY <1>1, <1>2, ClosesOK DEF Panes!Close
  <1>3. CASE ~Panes!Closes(c)
    <2>1. UNCHANGED <<shell, entry>>
      BY <1>3 DEF Panes!Close
    <2>2. PaneTypeInv'
      BY <1>1, <2>1 DEF PaneInv, PaneTypeInv, Panes!TypeOK
    <2>3. OpensOK' /\ PaneOK'
      BY <1>1, <2>1 DEF PaneInv, OpensOK, PaneOK, Untouched
    <2>4. EntryOK' /\ PaneToldOK'
      BY <1>1, <2>1 DEF PaneInv, EntryOK, PaneToldOK, Panes!ShellsAreKept, Accounted
    <2>5. PaneKeptOK'
      <3>1. ASSUME NEW i \in Panes!Chan, ~repeated, shell[i].child = "alive", WillClose(i)
            PROVE  WillClose(i)'
        <4>1. entry = i /\ entry # Panes!Nil
          BY <3>1 DEF PaneInv, EntryOK, Panes!ShellsAreKept, Panes!Chan, Panes!Nil,
                      Panes!LocalTerminalsAssumption
        <4>2. c.cmd = "close" /\ c.attempt # shell[i].attempt
          BY <1>1, <1>3, <4>1 DEF Panes!Closes
        <4>3. QED
          BY <1>1, <2>1, <3>1, <4>2 DEF WillClose
      <3>2. QED
        BY <1>1, <2>1, <3>1 DEF PaneInv, PaneKeptOK, Holds
    <2>6. QED
      BY <2>2, <2>3, <2>4, <2>5 DEF PaneInv
  <1>4. QED
    BY <1>2, <1>3

LEMMA PanePageLoadOK ==
  ASSUME Panes!LocalTerminalsAssumption, PaneInv, Panes!PageLoad
  PROVE  PaneInv'
  <1>1. /\ shell' = Panes!Killed /\ entry' = 0 /\ told' = {} /\ loads' = loads + 1
        /\ pane' = [ui |-> "ended", attempt |-> 0, chan |-> 0, released |-> TRUE]
        /\ UNCHANGED <<opens, calls, crossed, repeated>>
    BY DEF Panes!PageLoad, Panes!Unmounted, Panes!history, Panes!Nil
  <1>2. /\ shell' \in [Panes!Chan -> [attempt : Nat, child : {"none", "alive", "killed",
                                                              "dead"},
                                      waiter : {"none", "waits", "reads", "done"}]]
        /\ \A i \in Panes!Chan :
             /\ shell'[i].attempt = shell[i].attempt /\ shell'[i].waiter = shell[i].waiter
             /\ shell'[i].child = (IF i = entry /\ shell[i].child = "alive" THEN "killed"
                                   ELSE shell[i].child)
             /\ shell[i] = Panes!Unborn => shell'[i] = Panes!Unborn
    BY <1>1, KilledOK DEF PaneInv
  <1>3. opens \in Nat /\ loads' \in Nat
    <2>1. opens \in Nat /\ loads \in Nat
      BY DEF PaneInv, PaneTypeInv
    <2>2. QED
      BY <1>1, <2>1
  <1>4. PaneTypeInv'
    <2>1. Panes!TypeOK'
      BY <1>1, <1>2 DEF Panes!TypeOK, Panes!Nil
    <2>2. QED
      BY <1>1, <1>3, <2>1 DEF PaneInv, PaneTypeInv
  <1>5. \A i \in Panes!Chan : Untouched(i) => Untouched(i)'
    BY <1>1, <1>2 DEF Untouched
  <1>6. OpensOK'
    <2>1. \A c \in calls : c.cmd = "open" => c.chan \in Panes!Chan
      BY OpenChan
    <2>2. QED
      BY <1>1, <1>5, <2>1 DEF PaneInv, OpensOK
  <1>7. PaneOK'
    BY <1>1, <1>3 DEF PaneOK
  <1>8. \A i \in Panes!Chan : ~repeated => shell'[i].child # "alive"
    BY <1>2 DEF PaneInv, EntryOK, Panes!ShellsAreKept
  <1>9. EntryOK'
    <2>1. ASSUME NEW i \in Panes!Chan, shell'[i].waiter \in {"reads", "done"}
          PROVE  shell'[i].child = "dead"
      BY <1>2, <2>1 DEF PaneInv, EntryOK
    <2>2. QED
      BY <1>1, <1>2, <1>8, <2>1 DEF PaneInv, EntryOK, Panes!ShellsAreKept, Panes!Nil
  <1>10. PaneToldOK'
    BY <1>1 DEF PaneToldOK
  <1>11. PaneKeptOK'
    BY <1>1, <1>8 DEF PaneKeptOK, Holds
  <1>12. QED
    BY <1>4, <1>6, <1>7, <1>9, <1>10, <1>11 DEF PaneInv

(* A shell that ends is still waited for.                                  *)
LEMMA ExitOK ==
  ASSUME Panes!LocalTerminalsAssumption, PaneInv, NEW i \in Panes!Chan, Panes!Exit(i)
  PROVE  PaneInv'
  <1>1. /\ shell' = [shell EXCEPT ![i].child = "dead"]
        /\ shell[i].child \in {"alive", "killed"}
        /\ UNCHANGED <<pane, opens, calls, entry, loads, told, crossed, repeated>>
    BY DEF Panes!Exit, Panes!page, Panes!history
  <1>2. /\ shell'[i].attempt = shell[i].attempt /\ shell'[i].waiter = shell[i].waiter
        /\ shell'[i].child = "dead"
        /\ \A j \in Panes!Chan : j # i => shell'[j] = shell[j]
    BY <1>1 DEF PaneInv, PaneTypeInv, Panes!TypeOK
  <1>3. PaneTypeInv'
    <2>1. Panes!TypeOK'
      BY <1>1 DEF PaneInv, PaneTypeInv, Panes!TypeOK
    <2>2. QED
      BY <1>1, <2>1 DEF PaneInv, PaneTypeInv
  <1>4. /\ \A j \in Panes!Chan :
             shell'[j].attempt = shell[j].attempt /\ shell'[j].waiter = shell[j].waiter
        /\ \A j \in Panes!Chan :
             shell'[j].child = (IF j = i THEN "dead" ELSE shell[j].child)
    BY <1>2
  <1>5. shell[i] # Panes!Unborn
    BY <1>1 DEF Panes!Unborn
  <1>6. OpensOK'
    <2>1. \A c \in calls : c.cmd = "open" => c.chan \in Panes!Chan
      BY OpenChan
    <2>2. \A j \in Panes!Chan : Untouched(j) => Untouched(j)'
      BY <1>1, <1>2, <1>5 DEF Untouched
    <2>3. QED
      BY <1>1, <2>1, <2>2 DEF PaneInv, OpensOK
  <1>7. PaneOK'
    BY <1>1 DEF PaneInv, PaneOK
  <1>8. EntryOK'
    <2>1. entry # Panes!Nil => entry \in Panes!Chan
      BY DEF PaneInv, PaneTypeInv, Panes!TypeOK
    <2>2. QED
      BY <1>1, <1>4, <2>1 DEF PaneInv, EntryOK, Panes!ShellsAreKept
  <1>9. PaneToldOK'
    <2>1. \A j \in Panes!Chan : Accounted(j) => Accounted(j)'
      BY <1>1, <1>4 DEF PaneInv, EntryOK, Accounted
    <2>2. QED
      BY <1>1, <1>4, <2>1 DEF PaneInv, PaneToldOK
  <1>10. PaneKeptOK'
    <2>1. \A j \in Panes!Chan : Holds(j)' <=> Holds(j)
      BY <1>1 DEF Holds
    <2>2. \A j \in Panes!Chan : WillClose(j)' <=> WillClose(j)
      BY <1>1, <1>4 DEF WillClose
    <2>3. ~pane.released => pane.chan \in Panes!Chan
      BY DEF PaneInv, PaneOK
    <2>4. QED
      BY <1>1, <1>4, <2>1, <2>2, <2>3 DEF PaneInv, PaneKeptOK
  <1>11. QED
    BY <1>3, <1>6, <1>7, <1>8, <1>9, <1>10 DEF PaneInv

(* The thread takes its own entry away, and with attempts that do not      *)
(* repeat no other.                                                        *)
LEMMA ReapOK ==
  ASSUME Panes!LocalTerminalsAssumption, PaneInv, NEW i \in Panes!Chan, Panes!Reap(i)
  PROVE  PaneInv'
  <1>1. /\ shell' = [shell EXCEPT ![i].waiter = "reads"] /\ shell[i].child = "dead"
        /\ shell[i].waiter = "waits"
        /\ UNCHANGED <<pane, opens, calls, loads, told, crossed, repeated>>
    BY DEF Panes!Reap, Panes!page, Panes!history
  <1>2. entry' = entry
          \/ (entry' = Panes!Nil /\ entry # Panes!Nil
              /\ shell[entry].attempt = shell[i].attempt)
    BY DEF Panes!Reap, Panes!IsOwn
  <1>3. /\ \A j \in Panes!Chan :
             shell'[j].attempt = shell[j].attempt /\ shell'[j].child = shell[j].child
        /\ \A j \in Panes!Chan :
             shell'[j].waiter = (IF j = i THEN "reads" ELSE shell[j].waiter)
        /\ \A j \in Panes!Chan : j # i => shell'[j] = shell[j]
    BY <1>1 DEF PaneInv, PaneTypeInv, Panes!TypeOK
  <1>4. PaneTypeInv'
    <2>1. Panes!TypeOK'
      BY <1>1, <1>2 DEF PaneInv, PaneTypeInv, Panes!TypeOK
    <2>2. QED
      BY <1>1, <2>1 DEF PaneInv, PaneTypeInv
  <1>5. entry # Panes!Nil => entry \in Panes!Chan /\ shell[entry].waiter = "waits"
    BY DEF PaneInv, PaneTypeInv, Panes!TypeOK, EntryOK
  <1>6. ~repeated => entry' = (IF entry = i THEN Panes!Nil ELSE entry)
    <2>1. CASE entry = i
      <3>1. entry # Panes!Nil
        BY <2>1 DEF Panes!Chan, Panes!Nil, Panes!LocalTerminalsAssumption
      <3>2. QED
        BY <2>1, <3>1 DEF Panes!Reap, Panes!IsOwn
    <2>2. CASE entry # i
      BY <1>1, <1>2, <1>5, <2>2 DEF PaneInv, EntryOK
    <2>3. QED
      BY <2>1, <2>2
  <1>7. entry' # Panes!Nil => entry' = entry /\ entry # i
    <2>1. entry = i => entry' = Panes!Nil
      BY <1>1 DEF Panes!Reap, Panes!IsOwn, Panes!Nil, Panes!Chan,
                  Panes!LocalTerminalsAssumption
    <2>2. QED
      BY <1>2, <2>1
  <1>8. shell[i] # Panes!Unborn
    BY <1>1 DEF Panes!Unborn
  <1>9. OpensOK'
    <2>1. \A c \in calls : c.cmd = "open" => c.chan \in Panes!Chan
      BY OpenChan
    <2>2. \A j \in Panes!Chan : Untouched(j) => Untouched(j)'
      BY <1>1, <1>3, <1>8 DEF Untouched
    <2>3. QED
      BY <1>1, <2>1, <2>2 DEF PaneInv, OpensOK
  <1>10. PaneOK'
    BY <1>1 DEF PaneInv, PaneOK
  <1>11. EntryOK'
    <2>1. entry' # Panes!Nil => shell'[entry'].waiter = "waits"
      BY <1>3, <1>5, <1>7
    <2>2. \A j \in Panes!Chan :
            shell'[j].waiter \in {"reads", "done"} => shell'[j].child = "dead"
      BY <1>1, <1>3 DEF PaneInv, EntryOK
    <2>3. ASSUME NEW j \in Panes!Chan, shell[j].child = "alive", ~repeated
          PROVE  entry' = j
      <3>1. entry = j /\ j # i
        BY <1>1, <2>3 DEF PaneInv, EntryOK, Panes!ShellsAreKept
      <3>2. QED
        BY <1>6, <2>3, <3>1
    <2>4. QED
      BY <1>1, <1>3, <2>1, <2>2, <2>3 DEF PaneInv, EntryOK, Panes!ShellsAreKept
  <1>12. PaneToldOK'
    <2>1. ASSUME NEW j \in Panes!Chan, Accounted(j), ~repeated
          PROVE  Accounted(j)'
      BY <1>1, <1>3, <1>6, <2>1 DEF Accounted
    <2>2. QED
      BY <1>1, <1>3, <2>1 DEF PaneInv, PaneToldOK
  <1>13. PaneKeptOK'
    <2>1. \A j \in Panes!Chan : (Holds(j)' <=> Holds(j)) /\ (WillClose(j)' <=> WillClose(j))
      BY <1>1, <1>3 DEF Holds, WillClose
    <2>2. ~pane.released => pane.chan \in Panes!Chan
      BY DEF PaneInv, PaneOK
    <2>3. QED
      BY <1>1, <1>3, <2>1, <2>2 DEF PaneInv, PaneKeptOK
  <1>14. QED
    BY <1>4, <1>9, <1>10, <1>11, <1>12, <1>13 DEF PaneInv

LEMMA ReportOK ==
  ASSUME Panes!LocalTerminalsAssumption, PaneInv, NEW i \in Panes!Chan, Panes!Report(i)
  PROVE  PaneInv'
  <1>1. /\ shell' = [shell EXCEPT ![i].waiter = "done"] /\ shell[i].waiter = "reads"
        /\ told' = told \cup {<<i, "ended">>}
        /\ UNCHANGED <<pane, opens, calls, entry, loads, crossed, repeated>>
    BY DEF Panes!Report, Panes!page, Panes!history
  <1>2. shell[i].child = "dead" /\ entry # i
    <2>1. entry = i => entry # Panes!Nil
      BY DEF Panes!Chan, Panes!Nil, Panes!LocalTerminalsAssumption
    <2>2. QED
      BY <1>1, <2>1 DEF PaneInv, EntryOK
  <1>3. /\ \A j \in Panes!Chan :
             shell'[j].attempt = shell[j].attempt /\ shell'[j].child = shell[j].child
        /\ \A j \in Panes!Chan :
             shell'[j].waiter = (IF j = i THEN "done" ELSE shell[j].waiter)
        /\ \A j \in Panes!Chan : j # i => shell'[j] = shell[j]
    BY <1>1 DEF PaneInv, PaneTypeInv, Panes!TypeOK
  <1>4. PaneTypeInv'
    <2>1. Panes!TypeOK'
      BY <1>1 DEF PaneInv, PaneTypeInv, Panes!TypeOK
    <2>2. <<i, "ended">> \in Panes!Chan \X Statuses
      BY DEF Statuses
    <2>3. QED
      BY <1>1, <2>1, <2>2 DEF PaneInv, PaneTypeInv
  <1>5. shell[i] # Panes!Unborn
    BY <1>1 DEF Panes!Unborn
  <1>6. OpensOK'
    <2>1. \A c \in calls : c.cmd = "open" => c.chan \in Panes!Chan
      BY OpenChan
    <2>2. \A j \in Panes!Chan : Untouched(j) => Untouched(j)'
      BY <1>1, <1>3, <1>5 DEF Untouched
    <2>3. QED
      BY <1>1, <2>1, <2>2 DEF PaneInv, OpensOK
  <1>7. PaneOK'
    BY <1>1 DEF PaneInv, PaneOK
  <1>8. EntryOK'
    <2>1. entry # Panes!Nil => entry \in Panes!Chan
      BY DEF PaneInv, PaneTypeInv, Panes!TypeOK
    <2>2. QED
      BY <1>1, <1>2, <1>3, <2>1 DEF PaneInv, EntryOK, Panes!ShellsAreKept
  <1>9. PaneToldOK'
    <2>1. \A j \in Panes!Chan : Accounted(j) => Accounted(j)'
      BY <1>1, <1>3 DEF Accounted
    <2>2. \A j \in Panes!Chan : <<j, "ended">> \in told' => j = i \/ <<j, "ended">> \in told
      BY <1>1
    <2>3. QED
      BY <1>1, <1>2, <1>3, <2>1, <2>2 DEF PaneInv, PaneToldOK
  <1>10. PaneKeptOK'
    <2>1. \A j \in Panes!Chan : (Holds(j)' <=> Holds(j)) /\ (WillClose(j)' <=> WillClose(j))
      BY <1>1, <1>3 DEF Holds, WillClose
    <2>2. ~pane.released => pane.chan \in Panes!Chan
      BY DEF PaneInv, PaneOK
    <2>3. QED
      BY <1>1, <1>3, <2>1, <2>2 DEF PaneInv, PaneKeptOK
  <1>11. QED
    BY <1>4, <1>6, <1>7, <1>8, <1>9, <1>10 DEF PaneInv

(* Of an open that is handled comes a shell in the map, or none.           *)
LEMMA SpawnOK ==
  ASSUME Panes!LocalTerminalsAssumption, PaneInv, NEW c \in calls, Panes!Spawn(c)
  PROVE  PaneInv'
  <1> DEFINE i == c.chan
             Fails == UNCHANGED <<shell, entry>>
             Runs == /\ entry' = i /\ shell' = [Panes!Killed EXCEPT ![i] =
                          [attempt |-> c.attempt, child |-> "alive", waiter |-> "waits"]]
                     /\ told' = told \cup {<<i, "connected">>}
             Ends == /\ entry' = Panes!Nil /\ shell' = [Panes!Killed EXCEPT ![i] =
                          [attempt |-> c.attempt, child |-> "killed", waiter |-> "none"]]
                     /\ told' = told \cup {<<i, "ended">>}
  <1>1. /\ c.cmd = "open" /\ calls' = calls \ {c}
        /\ UNCHANGED <<pane, opens, loads>>
    BY DEF Panes!Spawn, Panes!Handle, Panes!page
  <1>2. /\ crossed' = (crossed \/ Panes!Crosses(c))
        /\ repeated' = (repeated \/ \E j \in Panes!Chan :
                          shell[j].waiter = "waits" /\ shell[j].attempt = c.attempt)
    BY DEF Panes!Spawn
  <1>3. (Fails /\ told' \in {told, told \cup {<<i, "ended">>}}) \/ Runs \/ Ends
    BY DEF Panes!Spawn
  <1>4. i \in Panes!Chan /\ c.attempt \in Nat /\ Untouched(i) /\ i \in 1 .. opens
    BY <1>1, OpenChan DEF PaneInv, PaneTypeInv, OpensOK
  <1>5. shell[i] = Panes!Unborn /\ \A s \in Statuses : <<i, s>> \notin told
    BY <1>4 DEF Untouched
  <1>6. shell[i].child = "none" /\ shell[i].waiter = "none"
    BY <1>5 DEF Panes!Unborn
  <1>7. entry # i /\ (entry # Panes!Nil => entry \in Panes!Chan)
    <2>1. entry = i => entry # Panes!Nil
      BY <1>4 DEF Panes!Chan, Panes!Nil, Panes!LocalTerminalsAssumption
    <2>2. QED
      BY <1>6, <2>1 DEF PaneInv, EntryOK, PaneTypeInv, Panes!TypeOK
  <1>8. \A d \in calls' : d.cmd = "open" => d.chan # i /\ d.chan \in Panes!Chan
    BY <1>1, OpenChan DEF PaneInv, OpensOK
  <1>9. \A j \in Panes!Chan : \A s : j # i => (<<j, s>> \in told' <=> <<j, s>> \in told)
    BY <1>3
  <1>10. told' \subseteq Panes!Chan \X Statuses /\ crossed' \in BOOLEAN
           /\ repeated' \in BOOLEAN
    <2>1. {<<i, "connected">>, <<i, "ended">>} \subseteq Panes!Chan \X Statuses
      BY <1>4 DEF Statuses
    <2>2. told \subseteq Panes!Chan \X Statuses /\ crossed \in BOOLEAN
            /\ repeated \in BOOLEAN
      BY DEF PaneInv, PaneTypeInv
    <2>3. QED
      BY <1>2, <1>3, <2>1, <2>2
  <1>11. shell' \in [Panes!Chan -> [attempt : Nat, child : {"none", "alive", "killed",
                                                            "dead"},
                                    waiter : {"none", "waits", "reads", "done"}]]
    <2>1. \A life \in {"alive", "killed"}, waiter \in {"waits", "none"} :
            [attempt |-> c.attempt, child |-> life, waiter |-> waiter]
              \in [attempt : Nat, child : {"none", "alive", "killed", "dead"},
                   waiter : {"none", "waits", "reads", "done"}]
      BY <1>4
    <2>2. CASE Fails
      BY <2>2 DEF PaneInv, PaneTypeInv, Panes!TypeOK
    <2>3. CASE Runs \/ Ends
      BY <1>4, <2>1, <2>3, KilledOK DEF PaneInv
    <2>4. QED
      BY <1>3, <2>2, <2>3
  <1>12. \A j \in Panes!Chan : j # i =>
           /\ shell'[j].attempt = shell[j].attempt /\ shell'[j].waiter = shell[j].waiter
           /\ shell'[j].child =
                (IF ~Fails /\ j = entry /\ shell[j].child = "alive" THEN "killed"
                                 ELSE shell[j].child)
           /\ shell[j] = Panes!Unborn => shell'[j] = Panes!Unborn
    BY <1>3, <1>4, KilledOK DEF PaneInv
  <1>13. /\ Runs =>
              shell'[i] = [attempt |-> c.attempt, child |-> "alive", waiter |-> "waits"]
         /\ Ends =>
              shell'[i] = [attempt |-> c.attempt, child |-> "killed", waiter |-> "none"]
         /\ Fails => shell'[i] = shell[i]
    BY <1>4, KilledOK DEF PaneInv
  <1>14. /\ Runs =>
              shell'[i].attempt = c.attempt /\ shell'[i].child = "alive"
                /\ shell'[i].waiter = "waits"
         /\ Ends => shell'[i].child = "killed" /\ shell'[i].waiter = "none"
         /\ Fails => shell'[i].child = "none" /\ shell'[i].waiter = "none"
    BY <1>6, <1>13
  <1>15. /\ Runs => entry' = i /\ told' = told \cup {<<i, "connected">>}
         /\ Ends => entry' = Panes!Nil
         /\ Fails => entry' = entry
         /\ <<i, "ended">> \in told' => ~Runs
    BY <1>3, <1>5 DEF Statuses
  <1>16. Fails \/ Runs \/ Ends
    BY <1>3
  <1> HIDE DEF i, Fails, Runs, Ends
  <1>17. PaneTypeInv'
    <2>1. entry' \in {Panes!Nil} \cup Panes!Chan
      BY <1>4, <1>7, <1>15, <1>16
    <2>2. Panes!TypeOK'
      BY <1>1, <1>11, <2>1 DEF PaneInv, PaneTypeInv, Panes!TypeOK
    <2>3. QED
      BY <1>1, <1>10, <2>2 DEF PaneInv, PaneTypeInv
  <1>18. OpensOK'
    <2>1. \A j \in Panes!Chan : j # i /\ Untouched(j) => Untouched(j)'
      BY <1>9, <1>12 DEF Untouched
    <2>2. \A j \in Panes!Chan : j > opens => j # i
      <3>1. opens \in Nat
        BY DEF PaneInv, PaneTypeInv
      <3>2. QED
        BY <1>4, <3>1
    <2>3. QED
      BY <1>1, <1>8, <2>1, <2>2 DEF PaneInv, OpensOK
  <1>19. PaneOK'
    BY <1>1 DEF PaneInv, PaneOK
  <1>20. EntryOK'
    <2>1. entry' # Panes!Nil => shell'[entry'].waiter = "waits"
      BY <1>7, <1>12, <1>14, <1>15, <1>16 DEF PaneInv, EntryOK
    <2>2. ASSUME NEW j \in Panes!Chan, shell'[j].waiter \in {"reads", "done"}
          PROVE  shell'[j].child = "dead"
      BY <1>12, <1>14, <1>16, <2>2 DEF PaneInv, EntryOK
    <2>3. ASSUME ~repeated', NEW j \in Panes!Chan, NEW k \in Panes!Chan, j # k,
                 shell'[j].waiter = "waits", shell'[k].waiter = "waits"
          PROVE  shell'[j].attempt # shell'[k].attempt
      <3>1. ~repeated /\ \A m \in Panes!Chan : shell[m].waiter = "waits" =>
              shell[m].attempt # c.attempt
        BY <1>2, <2>3
      <3>2. QED
        BY <1>12, <1>14, <1>16, <2>3, <3>1 DEF PaneInv, EntryOK
    <2>4. ASSUME ~repeated', NEW j \in Panes!Chan, shell'[j].child = "alive"
          PROVE  entry' = j
      <3>1. ~repeated
        BY <1>2, <2>4
      <3>2. CASE j = i
        BY <1>14, <1>15, <1>16, <2>4, <3>2
      <3>3. CASE j # i
        <4>1. shell[j].child = "alive" /\ (Fails \/ j # entry)
          BY <1>12, <2>4, <3>3
        <4>2. entry = j
          BY <3>1, <4>1 DEF PaneInv, EntryOK, Panes!ShellsAreKept
        <4>3. QED
          BY <1>15, <4>1, <4>2
      <3>4. QED
        BY <3>2, <3>3
    <2>5. QED
      BY <2>1, <2>2, <2>3, <2>4 DEF EntryOK, Panes!ShellsAreKept
  <1>21. PaneToldOK'
    <2>1. ASSUME NEW j \in Panes!Chan, <<j, "ended">> \in told'
          PROVE  shell'[j].child # "alive"
      <3>1. CASE j = i
        BY <1>14, <1>15, <1>16, <2>1, <3>1
      <3>2. CASE j # i
        BY <1>9, <1>12, <2>1, <3>2 DEF PaneInv, PaneToldOK
      <3>3. QED
        BY <3>1, <3>2
    <2>2. ASSUME ~repeated', NEW j \in Panes!Chan,
                 <<j, "connected">> \in told' \/ (pane.ui = "connected" /\ pane.chan = j)
          PROVE  Accounted(j)'
      <3>1. CASE j = i
        BY <1>14, <1>15, <1>16, <3>1 DEF Accounted
      <3>2. CASE j # i
        <4>1. Accounted(j)
          BY <1>2, <1>9, <2>2, <3>2 DEF PaneInv, PaneToldOK
        <4>2. CASE entry = j
          <5>1. shell[j].waiter = "waits"
            BY <1>7, <4>2 DEF PaneInv, EntryOK, Panes!Chan, Panes!Nil,
                   Panes!LocalTerminalsAssumption
          <5>2. CASE Fails
            BY <1>15, <4>2, <5>2 DEF Accounted
          <5>3. CASE ~Fails
            BY <1>12, <3>2, <4>2, <5>1, <5>3 DEF Accounted
          <5>4. QED
            BY <5>2, <5>3
        <4>3. CASE entry # j
          BY <1>9, <1>12, <3>2, <4>1, <4>3 DEF Accounted
        <4>4. QED
          BY <4>2, <4>3
      <3>3. QED
        BY <3>1, <3>2
    <2>3. QED
      BY <1>1, <2>1, <2>2 DEF PaneToldOK
  <1>22. PaneKeptOK'
    <2>1. ~pane.released => pane.chan \in Panes!Chan
      BY DEF PaneInv, PaneOK
    <2>2. ASSUME NEW j \in Panes!Chan, Holds(j)', shell'[j].child = "alive"
          PROVE  shell'[j].attempt = pane.attempt
      <3>1. CASE j = i
        <4>1. c.chan = pane.chan /\ ~pane.released
          BY <1>1, <2>2, <3>1 DEF Holds, i
        <4>2. c.attempt = pane.attempt
          BY <1>1, <4>1 DEF PaneInv, PaneOK
        <4>3. QED
          BY <1>14, <1>16, <2>2, <3>1, <4>2
      <3>2. CASE j # i
        BY <1>1, <1>12, <2>2, <3>2 DEF PaneInv, PaneKeptOK, Holds
      <3>3. QED
        BY <3>1, <3>2
    <2>3. ASSUME pane.ui = "ended", ~pane.released
          PROVE  /\ shell'[pane.chan].child # "alive"
                 /\ \A d \in calls' : d.cmd = "open" => d.chan # pane.chan
      <3>1. pane.chan # i
        BY <1>1, <2>3 DEF PaneInv, PaneKeptOK, i
      <3>2. QED
        BY <1>1, <1>12, <2>1, <2>3, <3>1 DEF PaneInv, PaneKeptOK
    <2>4. ASSUME ~crossed', ~repeated', NEW j \in Panes!Chan, shell'[j].child = "alive"
          PROVE  Holds(j)' \/ WillClose(j)'
      <3>1. CASE j = i
        BY <1>1, <1>2, <2>4, <3>1 DEF Panes!Crosses, Holds, i
      <3>2. CASE j # i
        <4>1. shell[j].child = "alive" /\ shell'[j].attempt = shell[j].attempt
          BY <1>12, <2>4, <3>2
        <4>2. Holds(j) \/ WillClose(j)
          BY <1>2, <2>4, <4>1 DEF PaneInv, PaneKeptOK
        <4>3. Holds(j) => Holds(j)'
          BY <1>1 DEF Holds
        <4>4. WillClose(j) => WillClose(j)'
          BY <1>1, <4>1 DEF WillClose
        <4>5. QED
          BY <4>2, <4>3, <4>4
      <3>3. QED
        BY <3>1, <3>2
    <2>5. QED
      BY <1>1, <2>2, <2>3, <2>4 DEF PaneKeptOK
  <1>23. QED
    BY <1>17, <1>18, <1>19, <1>20, <1>21, <1>22 DEF PaneInv

-----------------------------------------------------------------------------
LEMMA PaneNextOK ==
  ASSUME Panes!LocalTerminalsAssumption, PaneInv, [Panes!Next]_Panes!vars
  PROVE  PaneInv'
  <1>1. CASE UNCHANGED Panes!vars
    BY <1>1 DEF Panes!vars, PaneInv, PaneTypeInv, Panes!TypeOK, OpensOK, Untouched, PaneOK,
                EntryOK, Panes!ShellsAreKept, PaneToldOK, Accounted, PaneKeptOK, Holds,
                WillClose
  <1>2. CASE Panes!Open \/ Panes!Hear \/ Panes!GiveUp \/ Panes!ClosePane \/ Panes!PageLoad
    BY <1>2, OpenOK, PaneHearOK, GiveUpOK, ClosePaneOK, PanePageLoadOK
  <1>3. CASE \E c \in calls : Panes!Spawn(c) \/ Panes!Close(c)
    BY <1>3, SpawnOK, PaneCloseOK
  <1>4. CASE \E i \in Panes!Chan : Panes!Exit(i) \/ Panes!Reap(i) \/ Panes!Report(i)
    BY <1>4, ExitOK, ReapOK, ReportOK
  <1>5. QED
    BY <1>1, <1>2, <1>3, <1>4 DEF Panes!Next

LEMMA PaneInvSays ==
  ASSUME Panes!LocalTerminalsAssumption, PaneInv
  PROVE  Panes!TypeOK /\ Panes!ShellsAreKept /\ Panes!PanesAreTrue
  <1>1. Panes!TypeOK /\ Panes!ShellsAreKept
    BY DEF PaneInv, PaneTypeInv, EntryOK
  <1>2. Panes!PanesAreTrue
    <2> SUFFICES ASSUME calls = {}, told = {}, ~crossed, ~repeated
                 PROVE  /\ pane.ui = "connected" =>
                             \/ entry = pane.chan
                             \/ shell[pane.chan].child # "alive"
                                  /\ shell[pane.chan].waiter # "done"
                        /\ pane.ui \in {"ended", "closed"} =>
                             \A i \in Panes!Chan : shell[i].child # "alive"
      BY DEF Panes!PanesAreTrue
    <2>1. pane.ui = "connected" =>
            \/ entry = pane.chan
            \/ shell[pane.chan].child # "alive" /\ shell[pane.chan].waiter # "done"
      BY DEF PaneInv, PaneOK, PaneToldOK, Accounted
    <2>2. ASSUME pane.ui \in {"ended", "closed"}, NEW i \in Panes!Chan,
                 shell[i].child = "alive"
          PROVE  FALSE
      <3>1. Holds(i)
        BY <2>2 DEF PaneInv, PaneKeptOK, WillClose
      <3>2. QED
        BY <2>2, <3>1 DEF PaneInv, PaneKeptOK, PaneOK, Holds
    <2>3. QED
      BY <2>1, <2>2
  <1>3. QED
    BY <1>1, <1>2

-----------------------------------------------------------------------------

Cancels == {"cancel", "cancel of panel"}
Resets == Cancels \cup {"disconnect"}
Commands == Resets \cup {"start", "connect"}
Whats == {"event", "ok", "error", "connected", "refused"}

AccountTypeInv ==
  /\ Account!TypeOK
  /\ clicks \in Nat /\ clicks <= MaxClicks /\ handled \in Nat /\ handled <= clicks
  /\ requests \subseteq [cmd : Commands, at : Account!Click, kind : Provider]
  /\ notices \subseteq Account!Flow \X Whats
  /\ connectJob \in [on : BOOLEAN, flow : Account!Flow, generation : Nat]
  /\ reordered \in BOOLEAN /\ late \in BOOLEAN

Started(n) == flow[n].state # "none"
Runs(n) == flow[n].state \in {"asks", "waits"}

(* Every click has a number of its own, and so has every flow.             *)
NumbersOK ==
  /\ \A c \in requests : c.at <= clicks
  /\ \A c, d \in requests : c.cmd = d.cmd /\ c.at = d.at => c = d
  /\ \A c \in requests : c.cmd = "start" => ~Started(c.at)
  /\ \A n \in Account!Click : Started(n) => n <= clicks /\ n <= handled
  /\ \A n \in Account!Click : Started(n) => flow[n].generation <= slot.generation
  /\ \A n, m \in Account!Click : Started(n) /\ Started(m) /\ n # m =>
       flow[n].generation # flow[m].generation
  /\ ~reordered => \A n, m \in Account!Click : Started(n) /\ Started(m) /\ n < m =>
       flow[n].generation < flow[m].generation

(* What is told of a flow has happened, and is told once.                  *)
AccountToldOK ==
  /\ \A n \in Account!Click :
       <<n, "event">> \in notices => flow[n].state \in {"waits", "ended"}
  /\ \A n \in Account!Click, what \in {"ok", "error"} :
       <<n, what>> \in notices => flow[n].state = "ended"
  /\ \A n \in Account!Click : ~(<<n, "ok">> \in notices /\ <<n, "error">> \in notices)

(* The account that waits to be connected is the latest flow's.            *)
PendingOK ==
  slot.pending # Account!Nil =>
    /\ flow[slot.pending].state = "ended"
    /\ flow[slot.pending].generation = slot.generation

(* One connect is under way at a time, the one the page waits for.         *)
Answered == <<Account!Nil, "connected">> \in notices \/ <<Account!Nil, "refused">> \in notices
Connects == {c \in requests : c.cmd = "connect"}
ConnectOK ==
  /\ connecting # Account!Nil => Started(connecting)
  /\ phase.step = "authorized" => phase.flow # Account!Nil /\ Started(phase.flow)
  /\ ~reordered =>
       /\ connecting = Account!Nil => Connects = {} /\ ~connectJob.on /\ ~Answered
       /\ \A c, d \in Connects : c = d
       /\ Connects # {} => ~connectJob.on /\ ~Answered
       /\ connectJob.on => ~Answered
       /\ ~(<<Account!Nil, "connected">> \in notices
            /\ <<Account!Nil, "refused">> \in notices)
       /\ connectJob.on /\ connecting # Account!Nil => connectJob.flow >= connecting

(* Commands are handled in order, those on their way included, and the     *)
(* page has not shown what it had given up.                                *)
Orderly == ~reordered /\ ~late /\ \A c \in requests : c.at >= handled

(* The flow the page waits for is the latest, and the backend's, once it   *)
(* has begun.                                                              *)
CurrentOK ==
  /\ current # Account!Nil =>
       /\ current <= clicks
       /\ \A c \in requests : c.at >= current => c.cmd \in {"start", "connect"}
       /\ \A c \in requests : c.at > current => c.cmd = "connect"
       /\ Started(current) \/ \E c \in requests : c.cmd = "start" /\ c.at = current
  /\ phase.step = "connected" => current = Account!Nil
  /\ Orderly /\ current # Account!Nil /\ Started(current) =>
       /\ flow[current].generation = slot.generation
       /\ Runs(current) => slot.live = current /\ slot.pending = Account!Nil
       /\ ~Runs(current) =>
            \/ /\ <<current, "ok">> \in notices
               /\ slot.pending = current \/ <<Account!Nil, "connected">> \in notices
            \/ <<current, "error">> \in notices /\ slot.pending = Account!Nil

(* What the page shows while it waits for no flow.                         *)
Rests ==
  /\ slot.pending = Account!Nil
  /\ \A n \in Account!Click : Runs(n) => flow[n].generation # slot.generation
  /\ \A c \in requests : c.cmd # "start"
WillRest ==
  \E c \in requests :
    c.cmd \in Resets /\ \A d \in requests : d.cmd = "start" => d.at < c.at

PhaseOK ==
  Orderly =>
    /\ phase.step = "authorized" /\ current = Account!Nil =>
         /\ \A c \in requests : c.cmd = "connect"
         /\ slot.pending = phase.flow \/ <<Account!Nil, "connected">> \in notices
    /\ phase.step = "waiting" =>
         /\ current = phase.flow /\ current # Account!Nil
         /\ flow[current].state \in {"waits", "ended"}
    /\ phase.step = "idle" /\ current = Account!Nil => Rests \/ WillRest

AccountInv == AccountTypeInv /\ NumbersOK /\ AccountToldOK /\ PendingOK /\ ConnectOK
  /\ CurrentOK /\ PhaseOK

-----------------------------------------------------------------------------
States == {"none", "asks", "waits", "ended"}
Phases == [step : {"idle", "waiting", "authorized", "connected"}, flow : Account!Flow]

LEMMA AccountInitOK ==
  ASSUME Account!SignInAssumption, Account!Init
  PROVE  AccountInv
  <1>1. /\ FirstProvider \in Provider /\ MaxClicks \in Nat /\ Account!Nil \in Account!Flow
        /\ Account!Idle \in Phases
        /\ Account!NoFlow \in [state : States, kind : Provider, generation : Nat]
        /\ Account!NoJob \in [on : BOOLEAN, flow : Account!Flow, generation : Nat]
    BY DEF Account!SignInAssumption, Account!Flow, Account!Idle, Phases, Account!NoFlow,
           States, Account!NoJob
  <1>2. /\ requests = {} /\ notices = {}
        /\ slot = [generation |-> 0, pending |-> Account!Nil, live |-> Account!Nil]
        /\ clicks = 0 /\ handled = 0 /\ reordered = FALSE /\ late = FALSE
        /\ current = Account!Nil /\ connecting = Account!Nil /\ phase = Account!Idle
        /\ connectJob = Account!NoJob
        /\ connection = Account!Nil /\ kind = FirstProvider
    BY DEF Account!Init
  <1>3. /\ flow \in [Account!Click -> [state : States, kind : Provider, generation : Nat]]
        /\ \A n \in Account!Click : ~Started(n) /\ ~Runs(n)
    BY <1>1 DEF Account!Init, Started, Runs, Account!NoFlow
  <1>4. AccountTypeInv
    <2>1. Account!TypeOK
      BY <1>1, <1>2, <1>3 DEF Account!TypeOK, Phases, States
    <2>2. clicks \in Nat /\ clicks <= MaxClicks /\ handled \in Nat /\ handled <= clicks
      BY <1>1, <1>2
    <2>3. QED
      BY <1>1, <1>2, <2>1, <2>2 DEF AccountTypeInv
  <1>5. NumbersOK /\ AccountToldOK /\ PendingOK
    BY <1>2, <1>3 DEF NumbersOK, AccountToldOK, PendingOK
  <1>6. ConnectOK /\ CurrentOK /\ PhaseOK
    BY <1>2, <1>3 DEF ConnectOK, CurrentOK, PhaseOK, Rests, Connects, Answered,
                      Account!Idle, Account!NoJob
  <1>7. QED
    BY <1>4, <1>5, <1>6 DEF AccountInv

-----------------------------------------------------------------------------
(* The page *)

\* What every click of the user has in common.
LEMMA Clicked ==
  ASSUME Account!SignInAssumption, AccountInv, NEW cmds \in SUBSET Commands, Account!Clicks,
         Account!Sends(cmds),
         UNCHANGED <<Account!backend, handled, reordered, late>>
  PROVE  /\ clicks' = clicks + 1 /\ clicks + 1 \in Account!Click /\ clicks \in Nat
         /\ clicks' \in Nat
         /\ clicks' <= MaxClicks /\ handled \in Nat /\ handled <= clicks
         /\ handled <= clicks'
         /\ requests' \subseteq [cmd : Commands, at : Account!Click, kind : Provider]
         /\ \A c \in requests' : c \in requests \/ (c.cmd \in cmds /\ c.at = clicks + 1)
         /\ \A c \in requests : c \in requests' /\ c.at < clicks + 1 /\ c.at \in Nat
         /\ \A cmd \in cmds : \E c \in requests' : c.cmd = cmd /\ c.at = clicks + 1
         /\ \A c, d \in requests' :
              c \notin requests /\ d \notin requests /\ c.cmd = d.cmd => c = d
         /\ NumbersOK' /\ PendingOK'
         /\ \A n \in Account!Click : (Started(n)' <=> Started(n)) /\ (Runs(n)' <=> Runs(n))
         /\ ~Started(clicks + 1)
         /\ Orderly' => Orderly
         /\ slot' = slot /\ flow' = flow /\ connectJob' = connectJob
         /\ connection' = connection
         /\ handled' = handled /\ reordered' = reordered /\ late' = late
  <1> DEFINE new == {[cmd |-> c, at |-> clicks', kind |-> kind] : c \in cmds}
  <1>1. /\ slot' = slot /\ flow' = flow /\ connectJob' = connectJob
        /\ connection' = connection
        /\ handled' = handled /\ reordered' = reordered /\ late' = late
    BY DEF Account!backend
  <1>2. /\ clicks' = clicks + 1 /\ clicks < MaxClicks /\ clicks \in Nat /\ MaxClicks \in Nat
        /\ handled \in Nat /\ handled <= clicks
    BY DEF Account!Clicks, AccountInv, AccountTypeInv, Account!SignInAssumption
  <1>3. /\ clicks + 1 \in Account!Click /\ clicks' \in Nat /\ clicks' <= MaxClicks
        /\ handled <= clicks'
    BY <1>2 DEF Account!Click
  <1>4. kind \in Provider
          /\ requests \subseteq [cmd : Commands, at : Account!Click, kind : Provider]
    BY DEF AccountInv, AccountTypeInv, Account!TypeOK
  <1>5. requests' = requests \cup new
    BY DEF Account!Sends
  <1>6. new \subseteq [cmd : Commands, at : Account!Click, kind : Provider]
    BY <1>2, <1>3, <1>4
  <1>7. /\ \A c \in new : c.cmd \in cmds /\ c.at = clicks + 1
        /\ \A cmd \in cmds : \E c \in new : c.cmd = cmd /\ c.at = clicks + 1
        /\ \A c, d \in new : c.cmd = d.cmd => c = d
    <2>1. ASSUME NEW c \in new
          PROVE  c.cmd \in cmds /\ c.at = clicks + 1
                 /\ c = [cmd |-> c.cmd, at |-> clicks + 1, kind |-> kind]
      BY <1>2
    <2>2. ASSUME NEW cmd \in cmds
          PROVE  \E c \in new : c.cmd = cmd /\ c.at = clicks + 1
      <3>1. [cmd |-> cmd, at |-> clicks', kind |-> kind] \in new
        OBVIOUS
      <3>2. QED
        BY <3>1, <1>2
    <2> HIDE DEF new
    <2>3. QED
      BY <2>1, <2>2
  <1> HIDE DEF new
  <1>8. \A c \in requests : c.at < clicks + 1 /\ c.at \in Nat
    <2>1. \A c \in requests : c.at <= clicks /\ c.at \in Account!Click
      BY <1>4 DEF AccountInv, NumbersOK
    <2>2. \A c \in requests : c.at \in Nat
      BY <2>1, <1>2 DEF Account!Click
    <2>3. QED
      BY <2>1, <2>2, <1>2
  <1>9. \A n \in Account!Click : (Started(n)' <=> Started(n)) /\ (Runs(n)' <=> Runs(n))
    BY <1>1 DEF Started, Runs
  <1>10. ~Started(clicks + 1)
    BY <1>2, <1>3 DEF AccountInv, NumbersOK
  <1>11. NumbersOK'
    <2>1. \A c \in requests' : c.at <= clicks'
      BY <1>2, <1>5, <1>7, <1>8
    <2>2. \A c, d \in requests' : c.cmd = d.cmd /\ c.at = d.at => c = d
      BY <1>2, <1>5, <1>7, <1>8 DEF AccountInv, NumbersOK
    <2>3. \A c \in requests' : c.cmd = "start" => ~Started(c.at)'
      BY <1>3, <1>4, <1>5, <1>7, <1>9, <1>10 DEF AccountInv, NumbersOK
    <2>4. \A n \in Account!Click : Started(n) => n <= clicks' /\ n <= handled'
      <3>1. \A n \in Account!Click : n \in Nat
        BY <1>2 DEF Account!Click
      <3>2. QED
        BY <3>1, <1>1, <1>2 DEF AccountInv, NumbersOK
    <2>5. QED
      BY <1>1, <1>9, <2>1, <2>2, <2>3, <2>4 DEF AccountInv, NumbersOK
  <1>12. PendingOK'
    BY <1>1 DEF AccountInv, PendingOK
  <1>13. Orderly' => Orderly
    BY <1>1, <1>5 DEF Orderly
  <1>14. \A c \in requests' : c \in requests \/ (c.cmd \in cmds /\ c.at = clicks + 1)
    BY <1>5, <1>7
  <1>15. \A cmd \in cmds : \E c \in requests' : c.cmd = cmd /\ c.at = clicks + 1
    BY <1>5, <1>7
  <1>16. /\ \A c, d \in requests' :
              c \notin requests /\ d \notin requests /\ c.cmd = d.cmd => c = d
         /\ \A c \in requests : c \in requests'
         /\ requests' \subseteq [cmd : Commands, at : Account!Click, kind : Provider]
    BY <1>4, <1>5, <1>6, <1>7
  <1>17. QED
    BY <1>1, <1>2, <1>3, <1>8, <1>9, <1>10, <1>11, <1>12, <1>13, <1>14, <1>15, <1>16

\* The user gives up what there is: the backend will forget it.
LEMMA GivesUpOK ==
  ASSUME Account!SignInAssumption, AccountInv, NEW cmds \in SUBSET Resets, cmds # {},
         Account!Clicks, Account!Sends(cmds),
         UNCHANGED <<Account!backend,
                     Account!history>>, kind' \in Provider, phase' = Account!Idle,
                       current' = Account!Nil,
         connecting' = connecting, notices' = notices
  PROVE  AccountInv'
  <1>1. cmds \in SUBSET Commands /\ UNCHANGED <<Account!backend, handled, reordered, late>>
    BY DEF Commands, Account!history
  <1>2. /\ clicks' = clicks + 1 /\ clicks \in Nat /\ clicks' \in Nat
        /\ clicks' <= MaxClicks /\ handled \in Nat /\ handled <= clicks'
        /\ requests' \subseteq [cmd : Commands, at : Account!Click, kind : Provider]
        /\ \A c \in requests' : c \in requests \/ (c.cmd \in cmds /\ c.at = clicks + 1)
        /\ \A c \in requests : c \in requests' /\ c.at < clicks + 1
        /\ \A cmd \in cmds : \E c \in requests' : c.cmd = cmd /\ c.at = clicks + 1
        /\ NumbersOK' /\ PendingOK'
        /\ \A n \in Account!Click : (Started(n)' <=> Started(n)) /\ (Runs(n)' <=> Runs(n))
        /\ slot' = slot /\ flow' = flow /\ connectJob' = connectJob
        /\ connection' = connection
        /\ handled' = handled /\ reordered' = reordered /\ late' = late
    BY <1>1, Clicked
  <1>3. AccountTypeInv'
    <2>1. Account!Nil \in Account!Flow /\ Account!Idle \in Phases
      BY DEF Account!Flow, Account!Idle, Phases
    <2>2. Account!TypeOK'
      BY <1>2, <2>1 DEF AccountInv, AccountTypeInv, Account!TypeOK, Phases
    <2>3. QED
      BY <1>2, <2>2 DEF AccountInv, AccountTypeInv
  <1>4. AccountToldOK'
    BY <1>2 DEF AccountInv, AccountToldOK
  <1>5. ConnectOK'
    <2>1. Connects' = Connects
      BY <1>2 DEF Connects, Resets, Cancels
    <2>2. connecting \in Account!Flow
      BY DEF AccountInv, AccountTypeInv, Account!TypeOK
    <2>3. connecting # Account!Nil => Started(connecting)'
      BY <1>2, <2>2 DEF AccountInv, ConnectOK, Account!Flow
    <2>4. phase'.step # "authorized"
      BY DEF Account!Idle
    <2>5. Answered' <=> Answered
      BY DEF Answered
    <2>6. QED
      BY <1>2, <2>1, <2>3, <2>4, <2>5 DEF AccountInv, ConnectOK
  <1>6. CurrentOK'
    BY DEF CurrentOK, Account!Idle
  <1>7. WillRest'
    <2>1. PICK cmd \in cmds : TRUE
      OBVIOUS
    <2>2. PICK c \in requests' : c.cmd = cmd /\ c.at = clicks + 1
      BY <1>2, <2>1
    <2>3. \A d \in requests' : d.cmd = "start" => d.at < c.at
      BY <1>2, <2>2 DEF Resets, Cancels
    <2>4. QED
      BY <2>1, <2>2, <2>3 DEF WillRest
  <1>8. PhaseOK'
    BY <1>7 DEF PhaseOK, Account!Idle
  <1>9. QED
    BY <1>2, <1>3, <1>4, <1>5, <1>6, <1>8 DEF AccountInv

LEMMA SelectOK ==
  ASSUME Account!SignInAssumption, AccountInv,
         Account!Select \/ Account!Cancel \/ Account!Disconnect
  PROVE  AccountInv'
  <1>1. CASE Account!Select
    <2>1. {"cancel", "cancel of panel"} \in SUBSET Resets
      BY DEF Resets, Cancels
    <2>2. QED
      BY <1>1, <2>1, GivesUpOK DEF Account!Select
  <1>2. CASE Account!Cancel
    <2>1. {"cancel"} \in SUBSET Resets /\ kind \in Provider
      BY DEF Resets, Cancels, AccountInv, AccountTypeInv, Account!TypeOK
    <2>2. QED
      BY <1>2, <2>1, GivesUpOK DEF Account!Cancel
  <1>3. CASE Account!Disconnect
    <2>1. {"disconnect"} \in SUBSET Resets /\ kind \in Provider
      BY DEF Resets, AccountInv, AccountTypeInv, Account!TypeOK
    <2>2. current = Account!Nil
      BY <1>3 DEF Account!Disconnect, AccountInv, CurrentOK
    <2>3. QED
      BY <1>3, <2>1, <2>2, GivesUpOK DEF Account!Disconnect
  <1>4. QED
    BY <1>1, <1>2, <1>3

LEMMA AccountBeginOK ==
  ASSUME Account!SignInAssumption, AccountInv, Account!Begin
  PROVE  AccountInv'
  <1>1. /\ {"start"} \in SUBSET Commands
        /\ UNCHANGED <<Account!backend, handled, reordered, late>>
        /\ Account!Clicks /\ Account!Sends({"start"}) /\ current' = clicks'
        /\ phase' = phase /\ kind' = kind /\ connecting' = connecting /\ notices' = notices
        /\ phase.step \in {"idle", "authorized"}
    BY DEF Commands, Account!history, Account!Begin
  <1>2. /\ clicks' = clicks + 1 /\ clicks + 1 \in Account!Click /\ clicks \in Nat
        /\ clicks' \in Nat
        /\ clicks' <= MaxClicks /\ handled \in Nat /\ handled <= clicks'
        /\ requests' \subseteq [cmd : Commands, at : Account!Click, kind : Provider]
        /\ \A c \in requests' : c \in requests \/ (c.cmd \in {"start"} /\ c.at = clicks + 1)
        /\ \A c \in requests : c \in requests' /\ c.at < clicks + 1 /\ c.at \in Nat
        /\ \A cmd \in {"start"} : \E c \in requests' : c.cmd = cmd /\ c.at = clicks + 1
        /\ NumbersOK' /\ PendingOK'
        /\ \A n \in Account!Click : (Started(n)' <=> Started(n)) /\ (Runs(n)' <=> Runs(n))
        /\ ~Started(clicks + 1)
        /\ slot' = slot /\ flow' = flow /\ connectJob' = connectJob
        /\ connection' = connection
        /\ handled' = handled /\ reordered' = reordered /\ late' = late
    BY <1>1, Clicked
  <1>3. AccountTypeInv'
    <2>1. clicks + 1 \in Account!Flow
      BY <1>2 DEF Account!Flow
    <2>2. Account!TypeOK'
      BY <1>1, <1>2, <2>1 DEF AccountInv, AccountTypeInv, Account!TypeOK
    <2>3. QED
      BY <1>1, <1>2, <2>2 DEF AccountInv, AccountTypeInv
  <1>4. AccountToldOK'
    BY <1>1, <1>2 DEF AccountInv, AccountToldOK
  <1>5. ConnectOK'
    <2>1. Connects' = Connects
      BY <1>2 DEF Connects
    <2>2. connecting \in Account!Flow /\ phase.flow \in Account!Flow
      BY DEF AccountInv, AccountTypeInv, Account!TypeOK
    <2>3. /\ connecting # Account!Nil => Started(connecting)'
          /\ phase.step = "authorized" => phase.flow # Account!Nil /\ Started(phase.flow)'
      BY <1>1, <1>2 DEF AccountInv, ConnectOK, Started
    <2>4. Answered' <=> Answered
      BY <1>1 DEF Answered
    <2>5. QED
      BY <1>1, <1>2, <2>1, <2>3, <2>4 DEF AccountInv, ConnectOK
  <1>6. CurrentOK'
    <2>1. current' = clicks + 1 /\ current' # Account!Nil
      BY <1>1, <1>2 DEF Account!Nil
    <2>2. \A c \in requests' : c.at >= clicks + 1 => c.cmd = "start" /\ c.at = clicks + 1
      BY <1>2
    <2>3. \E c \in requests' : c.cmd = "start" /\ c.at = clicks + 1
      BY <1>2
    <2>4. \A c \in requests' : ~(c.at > clicks + 1)
      BY <1>2
    <2>5. ~Started(current)'
      BY <1>2, <2>1 DEF Started
    <2>6. QED
      BY <1>1, <1>2, <2>1, <2>2, <2>3, <2>4, <2>5 DEF CurrentOK
  <1>7. PhaseOK'
    BY <1>1, <1>2 DEF PhaseOK, Account!Nil
  <1>8. QED
    BY <1>2, <1>3, <1>4, <1>5, <1>6, <1>7 DEF AccountInv

LEMMA ConnectClickOK ==
  ASSUME Account!SignInAssumption, AccountInv, Account!Connect
  PROVE  AccountInv'
  <1>1. /\ {"connect"} \in SUBSET Commands
        /\ UNCHANGED <<Account!backend, handled, reordered, late>>
        /\ Account!Clicks /\ Account!Sends({"connect"}) /\ connecting = Account!Nil
        /\ connecting' = phase.flow
        /\ phase' = phase /\ kind' = kind /\ current' = current /\ notices' = notices
        /\ phase.step = "authorized"
    BY DEF Commands, Account!history, Account!Connect
  <1>2. /\ clicks' = clicks + 1 /\ clicks + 1 \in Account!Click /\ clicks \in Nat
        /\ clicks' \in Nat
        /\ clicks' <= MaxClicks /\ handled \in Nat /\ handled <= clicks'
        /\ requests' \subseteq [cmd : Commands, at : Account!Click, kind : Provider]
        /\ \A c \in requests' :
             c \in requests \/ (c.cmd \in {"connect"} /\ c.at = clicks + 1)
        /\ \A c \in requests : c \in requests' /\ c.at < clicks + 1 /\ c.at \in Nat
        /\ \A c, d \in requests' :
             c \notin requests /\ d \notin requests /\ c.cmd = d.cmd => c = d
        /\ NumbersOK' /\ PendingOK'
        /\ \A n \in Account!Click : (Started(n)' <=> Started(n)) /\ (Runs(n)' <=> Runs(n))
        /\ Orderly' => Orderly
        /\ slot' = slot /\ flow' = flow /\ connectJob' = connectJob
        /\ connection' = connection
        /\ handled' = handled /\ reordered' = reordered /\ late' = late
    BY <1>1, Clicked
  <1>3. phase.flow \in Account!Flow /\ current \in Account!Flow
          /\ phase.flow # Account!Nil /\ Started(phase.flow)
    BY <1>1 DEF AccountInv, AccountTypeInv, Account!TypeOK, ConnectOK
  <1>4. AccountTypeInv'
    <2>1. Account!TypeOK'
      BY <1>1, <1>2, <1>3 DEF AccountInv, AccountTypeInv, Account!TypeOK
    <2>2. QED
      BY <1>1, <1>2, <2>1 DEF AccountInv, AccountTypeInv
  <1>5. AccountToldOK'
    BY <1>1, <1>2 DEF AccountInv, AccountToldOK
  <1>6. ConnectOK'
    <2>1. Started(phase.flow)'
      BY <1>1, <1>2, <1>3 DEF Started
    <2>2. ~reordered => Connects = {} /\ ~connectJob.on /\ ~Answered
      BY <1>1 DEF AccountInv, ConnectOK
    <2>3. ~reordered => \A c, d \in Connects' : c = d
      BY <1>2, <2>2 DEF Connects
    <2>4. Answered' <=> Answered
      BY <1>1 DEF Answered
    <2>5. connecting' # Account!Nil /\ connecting' = phase.flow /\ phase' = phase
      BY <1>1, <1>3
    <2>6. Started(connecting)' /\ Started(phase.flow)'
      BY <2>1, <2>5 DEF Started
    <2>7. QED
      BY <1>1, <1>2, <1>3, <2>2, <2>3, <2>4, <2>5, <2>6 DEF AccountInv, ConnectOK
  <1>7. CurrentOK'
    <2>1. ASSUME current # Account!Nil
          PROVE  /\ current <= clicks' /\ current \in Account!Click
                 /\ \A c \in requests' : c.at >= current => c.cmd \in {"start", "connect"}
                 /\ \A c \in requests' : c.at > current => c.cmd = "connect"
                 /\ Started(current)' \/ \E c \in requests' : c.cmd = "start"
                      /\ c.at = current
      <3>1. current \in Account!Click /\ current \in Nat /\ current <= clicks
        BY <1>2, <1>3, <2>1 DEF AccountInv, CurrentOK, Account!Flow, Account!Click
      <3>2. /\ \A c \in requests : c.at >= current => c.cmd \in {"start", "connect"}
            /\ \A c \in requests : c.at > current => c.cmd = "connect"
            /\ Started(current) \/ \E c \in requests : c.cmd = "start" /\ c.at = current
        BY <2>1 DEF AccountInv, CurrentOK
      <3>3. Started(current)' <=> Started(current)
        BY <1>1, <1>2 DEF Started
      <3>4. \A c \in requests' : c \in requests \/ c.cmd = "connect"
        BY <1>2
      <3>5. current <= clicks'
        BY <3>1, <1>2
      <3>6. QED
        BY ONLY <3>1, <3>2, <3>3, <3>4, <3>5, <1>2
    <2>3. Started(current)' => Started(current)
      BY <1>1, <1>2 DEF Started
    <2>4. Runs(current)' <=> Runs(current)
      BY <1>1, <1>2 DEF Runs
    <2>5. QED
      BY <1>1, <1>2, <2>1, <2>3, <2>4 DEF AccountInv, CurrentOK
  <1>8. PhaseOK'
    <2>1. \A c \in requests' : c \in requests \/ c.cmd = "connect"
      BY <1>2
    <2>2. QED
      BY <1>1, <1>2, <2>1 DEF AccountInv, PhaseOK
  <1>9. QED
    BY <1>2, <1>4, <1>5, <1>6, <1>7, <1>8 DEF AccountInv

\* A connection takes the place of the panel, which gives up what there is.
LEMMA HearConnectOK ==
  ASSUME Account!SignInAssumption, AccountInv, Account!HearConnect
  PROVE  AccountInv'
  <1>0. PICK what \in {"connected", "refused"} :
          /\ <<Account!Nil, what>> \in notices
          /\ notices' = notices \ {<<Account!Nil, what>>} /\ connecting' = Account!Nil
          /\ IF what = "refused" THEN UNCHANGED <<kind, phase, current, clicks, requests>>
             ELSE /\ Account!Clicks
                  /\ phase' = [step |-> "connected", flow |-> Account!Nil]
                  /\ current' = Account!Nil
                  /\ kind' = FirstProvider /\ Account!Sends({"cancel"})
          /\ UNCHANGED <<Account!backend, Account!history>>
    BY DEF Account!HearConnect
  <1>1. /\ notices' \subseteq Account!Flow \X Whats
        /\ \A n \in Account!Click, w \in Whats :
             <<n, w>> \in notices' <=> <<n, w>> \in notices
    <2>1. \A n \in Account!Click : n # Account!Nil
      BY DEF Account!Click, Account!Nil, Account!SignInAssumption
    <2>2. QED
      BY <1>0, <2>1 DEF AccountInv, AccountTypeInv
  <1>2. ~reordered => Connects = {} /\ ~connectJob.on /\ ~Answered'
    BY <1>0 DEF AccountInv, ConnectOK, Answered
  <1>3. CASE what = "refused"
    <2>1. /\ UNCHANGED <<kind, phase, current, clicks, requests, slot, flow, connectJob,
                         connection,
                         handled, reordered, late>>
          /\ <<Account!Nil, "connected">> \in notices' <=>
               <<Account!Nil, "connected">> \in notices
      BY <1>0, <1>3 DEF Account!backend, Account!history
    <2>2. AccountTypeInv'
      BY <1>0, <1>1, <2>1 DEF AccountInv, AccountTypeInv, Account!TypeOK, Account!Flow
    <2>3. NumbersOK' /\ AccountToldOK' /\ PendingOK'
      <3>1. NumbersOK'
        BY <2>1 DEF AccountInv, NumbersOK, Started
      <3>2. AccountToldOK'
        BY <1>1, <2>1 DEF AccountInv, AccountToldOK, Whats
      <3>3. PendingOK'
        BY <2>1 DEF AccountInv, PendingOK
      <3>4. QED
        BY <3>1, <3>2, <3>3
    <2>4. ConnectOK'
      BY <1>0, <1>2, <2>1 DEF AccountInv, ConnectOK, Started, Connects, Answered
    <2>5. CurrentOK'
      <3>1. current \in Account!Flow
        BY DEF AccountInv, AccountTypeInv, Account!TypeOK
      <3>2. /\ <<current, "ok">> \in notices' <=>
                 <<current, "ok">> \in notices
                   \/ (current = Account!Nil /\ <<current, "ok">> \in notices')
            /\ current # Account!Nil =>
                 (<<current, "error">> \in notices' <=> <<current, "error">> \in notices)
            /\ current # Account!Nil =>
                 (<<current, "ok">> \in notices' <=> <<current, "ok">> \in notices)
        BY <1>0, <1>1, <3>1 DEF Account!Flow, Whats
      <3>3. QED
        BY <2>1, <3>2 DEF AccountInv, CurrentOK, Started, Runs, Orderly
    <2>6. PhaseOK'
      BY <2>1 DEF AccountInv, PhaseOK, Rests, WillRest, Runs, Orderly
    <2>7. QED
      BY <2>2, <2>3, <2>4, <2>5, <2>6 DEF AccountInv
  <1>4. CASE what = "connected"
    <2>1. /\ {"cancel"} \in SUBSET Commands
          /\ UNCHANGED <<Account!backend, handled, reordered, late>>
          /\ Account!Clicks /\ Account!Sends({"cancel"})
          /\ phase' = [step |-> "connected", flow |-> Account!Nil]
          /\ current' = Account!Nil /\ kind' \in Provider
      BY <1>0, <1>4 DEF Commands, Resets, Cancels, Account!history, Account!SignInAssumption
    <2>2. /\ clicks' = clicks + 1 /\ clicks \in Nat /\ clicks' \in Nat
          /\ clicks' <= MaxClicks /\ handled \in Nat /\ handled <= clicks'
          /\ requests' \subseteq [cmd : Commands, at : Account!Click, kind : Provider]
          /\ \A c \in requests' :
               c \in requests \/ (c.cmd \in {"cancel"} /\ c.at = clicks + 1)
          /\ \A c \in requests : c \in requests' /\ c.at < clicks + 1
          /\ NumbersOK' /\ PendingOK'
          /\ slot' = slot /\ flow' = flow /\ connectJob' = connectJob
          /\ connection' = connection
          /\ handled' = handled /\ reordered' = reordered /\ late' = late
      BY <2>1, Clicked
    <2>3. AccountTypeInv'
      <3>1. Account!Nil \in Account!Flow /\ phase' \in Phases
        BY <2>1 DEF Account!Flow, Phases
      <3>2. Account!TypeOK'
        BY <1>0, <2>1, <2>2, <3>1 DEF AccountInv, AccountTypeInv, Account!TypeOK, Phases
      <3>3. QED
        BY <1>1, <2>2, <3>2 DEF AccountInv, AccountTypeInv
    <2>4. AccountToldOK'
      BY <1>1, <2>2 DEF AccountInv, AccountToldOK, Whats
    <2>5. ConnectOK'
      <3>1. Connects' = Connects
        BY <2>2 DEF Connects
      <3>2. connecting' = Account!Nil /\ phase'.step = "connected"
        BY <1>0, <2>1
      <3>3. QED
        BY <1>2, <2>2, <3>1, <3>2 DEF ConnectOK, Answered
    <2>6. CurrentOK' /\ PhaseOK'
      BY <2>1 DEF CurrentOK, PhaseOK
    <2>7. QED
      BY <2>2, <2>3, <2>4, <2>5, <2>6 DEF AccountInv
  <1>5. QED
    BY <1>0, <1>3, <1>4

LEMMA HearEventOK ==
  ASSUME Account!SignInAssumption, AccountInv, NEW n \in Account!Click, Account!HearEvent(n)
  PROVE  AccountInv'
  <1>1. /\ <<n, "event">> \in notices /\ notices' = notices \ {<<n, "event">>}
        /\ phase' = IF phase.step = "connected" THEN phase
                    ELSE [step |-> "waiting", flow |-> n]
        /\ late' = (late \/ current # n)
        /\ UNCHANGED <<kind, current, connecting, clicks, requests, slot, flow, connectJob,
                       connection,
                       handled, reordered>>
    BY DEF Account!HearEvent, Account!backend
  <1>2. n # Account!Nil /\ n \in Account!Flow
    BY DEF Account!Click, Account!Nil, Account!SignInAssumption, Account!Flow
  <1>3. /\ \A m, w : w # "event" => (<<m, w>> \in notices' <=> <<m, w>> \in notices)
        /\ \A m, w : <<m, w>> \in notices' => <<m, w>> \in notices
    BY <1>1
  <1>4. AccountTypeInv'
    <2>1. phase' \in Phases
      BY <1>1, <1>2 DEF Phases, AccountInv, AccountTypeInv, Account!TypeOK
    <2>2. Account!TypeOK'
      BY <1>1, <2>1 DEF AccountInv, AccountTypeInv, Account!TypeOK, Phases
    <2>3. late' \in BOOLEAN /\ notices' \subseteq Account!Flow \X Whats
      BY <1>1 DEF AccountInv, AccountTypeInv
    <2>4. QED
      BY <1>1, <2>2, <2>3 DEF AccountInv, AccountTypeInv
  <1>5. NumbersOK' /\ PendingOK'
    BY <1>1 DEF AccountInv, NumbersOK, PendingOK, Started
  <1>6. AccountToldOK'
    BY <1>1, <1>3 DEF AccountInv, AccountToldOK
  <1>7. ConnectOK'
    <2>1. phase'.step # "authorized" \/ phase' = phase
      BY <1>1
    <2>2. Answered' <=> Answered
      BY <1>3 DEF Answered
    <2>3. QED
      BY <1>1, <2>1, <2>2 DEF AccountInv, ConnectOK, Started, Connects
  <1>8. Orderly' => Orderly /\ current = n
    BY <1>1 DEF Orderly, AccountInv, AccountTypeInv
  <1>9. CurrentOK'
    <2>1. phase'.step = "connected" => phase.step = "connected"
      BY <1>1
    <2>2. QED
      BY <1>1, <1>3, <1>8, <2>1 DEF AccountInv, CurrentOK, Started, Runs
  <1>10. PhaseOK'
    <2>1. flow[n].state \in {"waits", "ended"}
      BY <1>1 DEF AccountInv, AccountToldOK
    <2>2. CASE phase.step = "connected"
      BY <1>1, <2>2 DEF PhaseOK
    <2>3. CASE phase.step # "connected"
      <3>1. phase'.step = "waiting" /\ phase'.flow = n
        BY <1>1, <2>3
      <3>2. QED
        BY <1>1, <1>2, <1>8, <2>1, <3>1 DEF PhaseOK
    <2>4. QED
      BY <2>2, <2>3
  <1>11. QED
    BY <1>4, <1>5, <1>6, <1>7, <1>9, <1>10 DEF AccountInv

LEMMA HearAnswerOK ==
  ASSUME Account!SignInAssumption, AccountInv, NEW n \in Account!Click,
         Account!HearAnswer(n)
  PROVE  AccountInv'
  <1>0. PICK what \in {"ok", "error"} :
          /\ <<n, what>> \in notices /\ notices' = notices \ {<<n, what>>}
          /\ IF current # n THEN UNCHANGED <<phase, current>>
             ELSE /\ current' = Account!Nil
                  /\ phase' = IF what = "ok" THEN [step |-> "authorized", flow |-> n]
                         ELSE Account!Idle
          /\ UNCHANGED <<kind, connecting, clicks, requests, Account!backend,
                         Account!history>>
    BY DEF Account!HearAnswer
  <1>1. /\ <<n, what>> \in notices /\ notices' = notices \ {<<n, what>>}
        /\ UNCHANGED <<kind, connecting, clicks, requests, slot, flow, connectJob,
                       connection, handled,
                       reordered, late>>
        /\ current # n => UNCHANGED <<phase, current>>
        /\ current = n => current' = Account!Nil
             /\ phase' = IF what = "ok" THEN [step |-> "authorized", flow |-> n]
                    ELSE Account!Idle
    BY <1>0 DEF Account!backend, Account!history
  <1>2. n # Account!Nil /\ n \in Account!Flow /\ Account!Nil \in Account!Flow
    BY DEF Account!Click, Account!Nil, Account!SignInAssumption, Account!Flow
  <1>3. /\ \A m, w : m # n => (<<m, w>> \in notices' <=> <<m, w>> \in notices)
        /\ \A m, w : <<m, w>> \in notices' => <<m, w>> \in notices
    BY <1>1
  <1>4. flow[n].state = "ended" /\ Started(n) /\ ~Runs(n)
    BY <1>1 DEF AccountInv, AccountToldOK, Started, Runs
  <1>5. AccountTypeInv'
    <2>1. phase' \in Phases /\ current' \in Account!Flow
      BY <1>1, <1>2 DEF Phases, AccountInv, AccountTypeInv, Account!TypeOK, Account!Idle
    <2>2. Account!TypeOK'
      BY <1>1, <2>1 DEF AccountInv, AccountTypeInv, Account!TypeOK, Phases
    <2>3. QED
      BY <1>1, <2>2 DEF AccountInv, AccountTypeInv
  <1>6. NumbersOK' /\ PendingOK'
    BY <1>1 DEF AccountInv, NumbersOK, PendingOK, Started
  <1>7. AccountToldOK'
    BY <1>1, <1>3 DEF AccountInv, AccountToldOK
  <1>8. Answered' <=> Answered
    BY <1>2, <1>3 DEF Answered
  <1>9. Orderly' <=> Orderly
    BY <1>1 DEF Orderly
  <1>10. CASE current # n
    <2>1. ConnectOK'
      BY <1>1, <1>2, <1>3, <1>8, <1>10 DEF AccountInv, ConnectOK, Started, Connects
    <2>2. CurrentOK'
      BY <1>1, <1>2, <1>3, <1>9, <1>10 DEF AccountInv, CurrentOK, Started, Runs
    <2>3. PhaseOK'
      BY <1>1, <1>2, <1>3, <1>9, <1>10 DEF AccountInv, PhaseOK, Rests, WillRest, Runs
    <2>4. QED
      BY <1>5, <1>6, <1>7, <2>1, <2>2, <2>3 DEF AccountInv
  <1>11. CASE current = n
    <2>1. /\ phase'.step \in {"authorized", "idle"}
          /\ phase'.step = "authorized" => what = "ok" /\ phase'.flow = n
          /\ phase'.step = "idle" => what = "error"
      BY <1>1, <1>11 DEF Account!Idle
    <2>2. ConnectOK'
      <3>1. phase'.step = "authorized" => phase'.flow # Account!Nil /\ Started(phase.flow)'
        BY <1>1, <1>2, <1>4, <2>1 DEF Started
      <3>2. connecting' # Account!Nil => Started(connecting)'
        BY <1>1 DEF AccountInv, ConnectOK, Started
      <3>3. Connects' = Connects /\ connectJob' = connectJob /\ connecting' = connecting
        BY <1>1 DEF Connects
      <3>4. /\ <<Account!Nil, "connected">> \in notices' <=>
                 <<Account!Nil, "connected">> \in notices
            /\ <<Account!Nil, "refused">> \in notices' <=>
                 <<Account!Nil, "refused">> \in notices
        BY <1>2, <1>3
      <3>5. QED
        BY <1>1, <1>8, <3>1, <3>2, <3>3, <3>4 DEF AccountInv, ConnectOK
    <2>3. CurrentOK'
      BY <1>1, <1>11, <2>1 DEF CurrentOK
    <2>4. PhaseOK'
      <3>1. SUFFICES ASSUME Orderly
                     PROVE  /\ \A c \in requests : c.cmd = "connect"
                            /\ what = "ok" =>
                                 slot.pending = n \/ <<Account!Nil, "connected">> \in notices
                            /\ what = "error" => Rests
        <4>1. /\ <<Account!Nil, "connected">> \in notices' <=>
                   <<Account!Nil, "connected">> \in notices
              /\ Rests' <=> Rests
          BY <1>1, <1>2, <1>3 DEF Rests, Runs
        <4>2. QED
          BY <1>1, <1>9, <1>11, <2>1, <4>1, <3>1 DEF PhaseOK
      <3>2. ASSUME NEW c \in requests
            PROVE  c.cmd = "connect"
        <4>1. c.at \in Nat /\ n \in Nat /\ handled \in Nat /\ n <= handled
                /\ c.at >= handled
          BY <1>4, <3>1 DEF AccountInv, AccountTypeInv, NumbersOK, Orderly, Account!Click
        <4>2. c.at >= n
          BY <4>1
        <4>3. CASE c.at = n
          BY <4>2, <4>3, <1>2, <1>4, <1>11 DEF AccountInv, CurrentOK, NumbersOK
        <4>4. CASE c.at > n
          BY <4>4, <1>2, <1>11 DEF AccountInv, CurrentOK
        <4>5. QED
          BY <4>1, <4>2, <4>3, <4>4
      <3>3. /\ flow[n].generation = slot.generation
            /\ \/ /\ <<n, "ok">> \in notices
                  /\ slot.pending = n \/ <<Account!Nil, "connected">> \in notices
               \/ <<n, "error">> \in notices /\ slot.pending = Account!Nil
        BY <3>1, <1>2, <1>4, <1>11 DEF AccountInv, CurrentOK
      <3>4. ~(<<n, "ok">> \in notices /\ <<n, "error">> \in notices)
        BY DEF AccountInv, AccountToldOK
      <3>5. what = "error" => Rests
        <4>1. SUFFICES ASSUME what = "error" PROVE Rests
          OBVIOUS
        <4>2. slot.pending = Account!Nil
          BY <1>1, <3>3, <3>4, <4>1
        <4>3. \A m \in Account!Click : Runs(m) => flow[m].generation # slot.generation
          <5>1. \A m \in Account!Click : Runs(m) => Started(m) /\ m # n
            BY <1>4 DEF Runs, Started
          <5>2. QED
            BY <5>1, <1>4, <3>3 DEF AccountInv, NumbersOK
        <4>4. QED
          BY <3>2, <4>2, <4>3 DEF Rests
      <3>6. QED
        BY <1>1, <3>2, <3>3, <3>4, <3>5
    <2>5. QED
      BY <1>5, <1>6, <1>7, <2>2, <2>3, <2>4 DEF AccountInv
  <1>12. QED
    BY <1>10, <1>11

-----------------------------------------------------------------------------
(* The backend *)

\* What the handling of every command has in common.
LEMMA Handled ==
  ASSUME Account!SignInAssumption, AccountInv, NEW cmds, NEW c, Account!Handle(c, cmds)
  PROVE  /\ c \in requests /\ c.cmd \in cmds /\ requests' = requests \ {c}
         /\ c.at \in Account!Click /\ c.kind \in Provider /\ c.at <= clicks
         /\ UNCHANGED <<kind, phase, current, connecting, clicks, late>>
         /\ handled' \in Nat /\ handled' <= clicks /\ reordered' \in BOOLEAN
         /\ c.at <= handled' /\ handled <= handled'
         /\ ~reordered' => ~reordered /\ c.at >= handled
         /\ Orderly' => Orderly /\ c.at >= handled /\ \A d \in requests' : d.at >= c.at
  <1>1. /\ c \in requests /\ c.cmd \in cmds /\ requests' = requests \ {c}
        /\ UNCHANGED <<kind, phase, current, connecting, clicks, late>>
        /\ reordered' = (reordered \/ c.at < handled)
        /\ handled' = IF c.at > handled THEN c.at ELSE handled
    BY DEF Account!Handle, Account!page
  <1>2. /\ requests \subseteq [cmd : Commands, at : Account!Click, kind : Provider]
        /\ handled \in Nat /\ clicks \in Nat /\ handled <= clicks
        /\ reordered \in BOOLEAN
    BY DEF AccountInv, AccountTypeInv
  <1>3. c.at \in Account!Click /\ c.kind \in Provider /\ c.at <= clicks /\ c.at \in Nat
    BY <1>1, <1>2 DEF AccountInv, NumbersOK, Account!Click
  <1>4. \A d \in requests : d.at \in Nat
    BY <1>2 DEF Account!Click
  <1>5. handled' \in Nat /\ handled' <= clicks /\ c.at <= handled' /\ handled <= handled'
    BY <1>1, <1>2, <1>3
  <1>6. reordered' \in BOOLEAN /\ (~reordered' => ~reordered /\ c.at >= handled)
    <2>1. reordered' \in BOOLEAN
      BY <1>1
    <2>2. ~reordered' => ~reordered /\ ~(c.at < handled)
      BY <1>1
    <2>3. ~(c.at < handled) => c.at >= handled
      BY <1>2, <1>3
    <2>4. QED
      BY <2>1, <2>2, <2>3
  <1>7. ASSUME Orderly'
        PROVE  Orderly /\ c.at >= handled /\ \A d \in requests' : d.at >= c.at
    <2>1. ~reordered /\ c.at >= handled /\ ~late
      BY <1>1, <1>6, <1>7 DEF Orderly
    <2>2. \A d \in requests' : d.at >= handled'
      BY <1>7 DEF Orderly
    <2>3. \A d \in requests' : d.at >= c.at /\ d.at >= handled
      BY <2>2, <1>1, <1>2, <1>3, <1>4, <1>5
    <2>4. \A d \in requests : d.at >= handled
      BY <2>1, <2>3, <1>1
    <2>5. QED
      BY <2>1, <2>3, <2>4 DEF Orderly
  <1>8. QED
    BY <1>1, <1>3, <1>5, <1>6, <1>7

\* A flow the page waits for is not forgotten while commands are in order.
LEMMA NotForgotten ==
  ASSUME Account!SignInAssumption, AccountInv, NEW c \in requests, c.at >= handled,
         c.cmd # "connect",
         current # Account!Nil
  PROVE  ~Started(current)
  <1>1. /\ current \in Account!Click /\ current \in Nat /\ c.at \in Nat /\ handled \in Nat
    BY DEF AccountInv, AccountTypeInv, Account!TypeOK, Account!Flow, Account!Click,
           Account!SignInAssumption
  <1>2. SUFFICES ASSUME Started(current) PROVE FALSE
    OBVIOUS
  <1>3. current <= handled
    BY <1>1, <1>2 DEF AccountInv, NumbersOK
  <1>4. c.at >= current
    BY <1>1, <1>3
  <1>5. CASE c.at > current
    BY <1>5 DEF AccountInv, CurrentOK
  <1>6. CASE c.at = current
    <2>1. c.cmd = "start"
      BY <1>4, <1>6 DEF AccountInv, CurrentOK
    <2>2. QED
      BY <2>1, <1>2, <1>6 DEF AccountInv, NumbersOK
  <1>7. QED
    BY <1>1, <1>4, <1>5, <1>6

LEMMA StartOK ==
  ASSUME Account!SignInAssumption, AccountInv, NEW c, Account!Start(c)
  PROVE  AccountInv'
  <1>1. /\ c \in requests /\ c.cmd = "start" /\ requests' = requests \ {c}
        /\ c.at \in Account!Click /\ c.kind \in Provider /\ c.at <= clicks
        /\ UNCHANGED <<kind, phase, current, connecting, clicks, late>>
        /\ handled' \in Nat /\ handled' <= clicks /\ reordered' \in BOOLEAN
        /\ c.at <= handled' /\ handled <= handled'
        /\ ~reordered' => ~reordered /\ c.at >= handled
        /\ Orderly' => Orderly /\ c.at >= handled /\ \A d \in requests' : d.at >= c.at
    BY Handled DEF Account!Start
  <1>2. /\ slot' =
             [generation |-> slot.generation + 1, pending |-> Account!Nil, live |-> c.at]
        /\ flow' = [flow EXCEPT ![c.at] = [state |-> "asks", kind |-> c.kind,
                                           generation |-> slot'.generation]]
        /\ UNCHANGED <<notices, connectJob, connection>>
    BY DEF Account!Start, Account!Fresh
  <1>3. /\ slot.generation \in Nat
        /\ flow \in [Account!Click -> [state : States, kind : Provider, generation : Nat]]
        /\ clicks \in Nat /\ handled \in Nat /\ Account!Click \subseteq Nat
    BY DEF AccountInv, AccountTypeInv, Account!TypeOK, States, Account!Click
  <1>4. /\ slot'.generation = slot.generation + 1 /\ slot'.pending = Account!Nil
        /\ slot'.live = c.at
    BY <1>2
  <1>5. /\ flow' \in [Account!Click -> [state : States, kind : Provider, generation : Nat]]
        /\ flow'[c.at].state = "asks" /\ flow'[c.at].generation = slot.generation + 1
        /\ \A n \in Account!Click : n # c.at => flow'[n] = flow[n]
    <2>1. [state |-> "asks", kind |-> c.kind, generation |-> slot'.generation]
            \in [state : States, kind : Provider, generation : Nat]
      BY <1>1, <1>3, <1>4 DEF States
    <2>2. QED
      BY <1>1, <1>2, <1>3, <1>4, <2>1
  <1>6. ~Started(c.at) /\ \A n \in Account!Click : Started(n)' <=> Started(n) \/ n = c.at
    BY <1>1, <1>5 DEF AccountInv, NumbersOK, Started
  <1>7. AccountTypeInv'
    <2>1. slot' \in [generation : Nat, pending : Account!Flow, live : Account!Flow]
      BY <1>1, <1>2, <1>3 DEF Account!Flow
    <2>2. Account!TypeOK'
      BY <1>1, <1>2, <1>5, <2>1 DEF AccountInv, AccountTypeInv, Account!TypeOK, States
    <2>3. QED
      BY <1>1, <1>2, <2>2 DEF AccountInv, AccountTypeInv
  <1>8. NumbersOK'
    <2>1. \A n \in Account!Click : Started(n) => flow[n].generation <= slot.generation
            /\ flow[n].generation \in Nat /\ n <= handled /\ n <= clicks /\ n \in Nat
      BY <1>3 DEF AccountInv, NumbersOK
    <2>2. \A d \in requests' :
            d.cmd = "start" => d.at # c.at /\ ~Started(d.at) /\ d.at \in Account!Click
      BY <1>1 DEF AccountInv, AccountTypeInv, NumbersOK
    <2>3. \A n \in Account!Click : Started(n)' => n <= clicks' /\ n <= handled'
      BY <1>1, <1>3, <1>6, <2>1
    <2>4. \A n \in Account!Click : Started(n)' => flow'[n].generation <= slot'.generation
      BY <1>3, <1>4, <1>5, <1>6, <2>1
    <2>5. \A n, m \in Account!Click : Started(n)' /\ Started(m)' /\ n # m =>
            flow'[n].generation # flow'[m].generation
      <3>1. SUFFICES ASSUME NEW n \in Account!Click, NEW m \in Account!Click, Started(n)',
                            Started(m)', n # m
                     PROVE  flow'[n].generation # flow'[m].generation
        OBVIOUS
      <3>2. CASE n = c.at
        BY <3>1, <3>2, <1>3, <1>5, <1>6, <2>1
      <3>3. CASE m = c.at
        BY <3>1, <3>3, <1>3, <1>5, <1>6, <2>1
      <3>4. CASE n # c.at /\ m # c.at
        BY <3>1, <3>4, <1>5, <1>6 DEF AccountInv, NumbersOK
      <3>5. QED
        BY <3>2, <3>3, <3>4
    <2>6. ASSUME ~reordered', NEW n \in Account!Click, NEW m \in Account!Click, Started(n)',
                 Started(m)', n < m
          PROVE  flow'[n].generation < flow'[m].generation
      <3>1. ~reordered /\ c.at >= handled /\ n # m
        BY <1>1, <1>3, <2>6
      <3>2. CASE n = c.at
        BY <3>1, <3>2, <1>1, <1>3, <1>6, <2>1, <2>6
      <3>3. CASE n # c.at /\ m = c.at
        BY <3>3, <1>3, <1>5, <1>6, <2>1, <2>6
      <3>4. CASE n # c.at /\ m # c.at
        BY <3>1, <3>4, <1>5, <1>6, <2>6 DEF AccountInv, NumbersOK
      <3>5. QED
        BY <3>2, <3>3, <3>4
    <2>7. \A d \in requests' : d.at <= clicks'
      BY <1>1 DEF AccountInv, NumbersOK
    <2>8. \A d, e \in requests' : d.cmd = e.cmd /\ d.at = e.at => d = e
      BY <1>1 DEF AccountInv, NumbersOK
    <2>9. \A d \in requests' : d.cmd = "start" => ~Started(d.at)'
      BY <2>2, <1>6
    <2>10. QED
      BY <2>3, <2>4, <2>5, <2>6, <2>7, <2>8, <2>9 DEF NumbersOK
  <1>9. AccountToldOK'
    <2>1. flow[c.at].state = "none"
      BY <1>6 DEF Started
    <2>2. QED
      BY <1>2, <1>5, <2>1 DEF AccountInv, AccountToldOK
  <1>10. PendingOK'
    BY <1>4 DEF PendingOK
  <1>11. ConnectOK'
    <2>1. Connects' = Connects /\ (Answered' <=> Answered)
      BY <1>1, <1>2 DEF Connects, Answered
    <2>2. connecting \in Account!Flow /\ phase.flow \in Account!Flow
      BY DEF AccountInv, AccountTypeInv, Account!TypeOK
    <2>3. /\ connecting # Account!Nil => Started(connecting)'
          /\ phase.step = "authorized" => phase.flow # Account!Nil /\ Started(phase.flow)'
      BY <1>1, <1>5, <2>2 DEF AccountInv, ConnectOK, Account!Flow, Started
    <2>4. QED
      BY <1>1, <1>2, <2>1, <2>3 DEF AccountInv, ConnectOK
  <1>12. CurrentOK'
    <2>1. current \in Account!Flow
      BY DEF AccountInv, AccountTypeInv, Account!TypeOK
    <2>2. ASSUME current # Account!Nil
          PROVE  Started(current)' \/ \E d \in requests' : d.cmd = "start" /\ d.at = current
      <3>1. current \in Account!Click
        BY <2>1, <2>2 DEF Account!Flow
      <3>2. Started(current) \/ \E d \in requests : d.cmd = "start" /\ d.at = current
        BY <2>2 DEF AccountInv, CurrentOK
      <3>3. Started(current) => Started(current)'
        BY <1>1, <1>5, <3>1 DEF Started
      <3>4. current = c.at => Started(current)'
        BY <1>1, <1>5 DEF Started
      <3>5. QED
        BY <1>1, <3>2, <3>3, <3>4
    <2>3. ASSUME Orderly', current # Account!Nil, Started(current)'
          PROVE  /\ flow'[current].generation = slot'.generation
                 /\ Runs(current)' /\ slot'.live = current /\ slot'.pending = Account!Nil
      <3>1. ~Started(current)
        BY <1>1, <2>3, NotForgotten
      <3>2. current = c.at
        BY <1>1, <1>5, <2>1, <2>3, <3>1 DEF Started, Account!Flow
      <3>3. QED
        BY <1>1, <1>3, <1>4, <1>5, <3>2 DEF Runs
    <2>4. QED
      BY <1>1, <2>2, <2>3 DEF AccountInv, CurrentOK
  <1>13. PhaseOK'
    <2>1. SUFFICES ASSUME Orderly' PROVE PhaseOK'
      BY DEF PhaseOK
    <2>2. Orderly
      BY <1>1, <2>1
    <2>3. ~(phase.step = "authorized" /\ current = Account!Nil)
      BY <1>1, <2>2 DEF AccountInv, PhaseOK
    <2>4. phase.step = "waiting" =>
            /\ current = phase.flow /\ current # Account!Nil
            /\ flow'[current].state \in {"waits", "ended"}
      <3>1. SUFFICES ASSUME phase.step = "waiting"
                     PROVE  /\ current = phase.flow /\ current # Account!Nil
                            /\ flow'[current].state \in {"waits", "ended"}
        OBVIOUS
      <3>2. /\ current = phase.flow /\ current # Account!Nil
            /\ flow[current].state \in {"waits", "ended"}
        BY <2>2, <3>1 DEF AccountInv, PhaseOK
      <3>3. current \in Account!Click /\ current # c.at
        BY <3>2, <1>6 DEF AccountInv, AccountTypeInv, Account!TypeOK, Account!Flow, Started
      <3>4. QED
        BY <3>2, <3>3, <1>5
    <2>5. phase.step = "idle" /\ current = Account!Nil => WillRest'
      <3>1. SUFFICES ASSUME phase.step = "idle", current = Account!Nil PROVE WillRest'
        OBVIOUS
      <3>2. WillRest
        BY <1>1, <2>2, <3>1 DEF AccountInv, PhaseOK, Rests
      <3>3. QED
        BY <1>1, <3>2 DEF WillRest, Resets, Cancels
    <2>6. QED
      BY <1>1, <2>3, <2>4, <2>5 DEF PhaseOK
  <1>14. QED
    BY <1>7, <1>8, <1>9, <1>10, <1>11, <1>12, <1>13 DEF AccountInv

\* sync_oauth_cancel and sync_disconnect: what there is, is forgotten.
LEMMA ForgetsOK ==
  ASSUME Account!SignInAssumption, AccountInv, NEW c, Account!Handle(c, Resets),
         slot' = Account!Fresh(Account!Nil),
         UNCHANGED <<notices, flow, connectJob>>, connection' \in {connection, Account!Nil}
  PROVE  AccountInv'
  <1>1. /\ c \in requests /\ c.cmd \in Resets /\ requests' = requests \ {c}
        /\ c.at \in Account!Click /\ c.kind \in Provider /\ c.at <= clicks
        /\ UNCHANGED <<kind, phase, current, connecting, clicks, late>>
        /\ handled' \in Nat /\ handled' <= clicks /\ reordered' \in BOOLEAN
        /\ c.at <= handled' /\ handled <= handled'
        /\ ~reordered' => ~reordered /\ c.at >= handled
        /\ Orderly' => Orderly /\ c.at >= handled /\ \A d \in requests' : d.at >= c.at
    BY Handled
  <1>2. c.cmd \notin {"start", "connect"}
    BY <1>1 DEF Resets, Cancels
  <1>3. /\ slot' =
             [generation |-> slot.generation + 1, pending |-> Account!Nil,
              live |-> Account!Nil]
        /\ slot'.generation = slot.generation + 1 /\ slot'.pending = Account!Nil
        /\ slot.generation \in Nat /\ Account!Nil \in Account!Flow
        /\ clicks \in Nat /\ handled \in Nat /\ Account!Click \subseteq Nat
        /\ \A n \in Account!Click : flow[n].generation \in Nat
    BY DEF Account!Fresh, AccountInv, AccountTypeInv, Account!TypeOK, Account!Flow,
           Account!Click
  <1>4. AccountTypeInv'
    <2>1. slot' \in [generation : Nat, pending : Account!Flow, live : Account!Flow]
      BY <1>3
    <2>2. connection' \in Account!Flow
      BY <1>3 DEF AccountInv, AccountTypeInv, Account!TypeOK
    <2>3. Account!TypeOK'
      BY <1>1, <2>1, <2>2 DEF AccountInv, AccountTypeInv, Account!TypeOK
    <2>4. QED
      BY <1>1, <2>3 DEF AccountInv, AccountTypeInv
  <1>5. NumbersOK'
    <2>1. \A n \in Account!Click : Started(n) => n <= clicks' /\ n <= handled'
            /\ flow[n].generation <= slot'.generation
      BY <1>1, <1>3 DEF AccountInv, NumbersOK
    <2>2. \A n \in Account!Click : Started(n)' <=> Started(n)
      BY DEF Started
    <2>3. \A d \in requests' : d.at \in Account!Click /\ d \in requests
      BY <1>1 DEF AccountInv, AccountTypeInv
    <2>4. QED
      BY <1>1, <2>1, <2>2, <2>3 DEF AccountInv, NumbersOK
  <1>6. AccountToldOK' /\ PendingOK'
    BY <1>3 DEF AccountInv, AccountToldOK, PendingOK
  <1>7. ConnectOK'
    <2>1. Connects' = Connects /\ (Answered' <=> Answered)
      BY <1>1, <1>2 DEF Connects, Answered
    <2>2. QED
      BY <1>1, <2>1 DEF AccountInv, ConnectOK, Started
  <1>8. CurrentOK'
    <2>1. Orderly' /\ current # Account!Nil => ~Started(current)
      BY <1>1, <1>2, NotForgotten
    <2>2. Started(current)' <=> Started(current)
      BY <1>1 DEF Started
    <2>3. QED
      BY <1>1, <1>2, <2>1, <2>2 DEF AccountInv, CurrentOK
  <1>9. PhaseOK'
    <2>1. SUFFICES ASSUME Orderly' PROVE PhaseOK'
      BY DEF PhaseOK
    <2>2. Orderly
      BY <1>1, <2>1
    <2>3. ~(phase.step = "authorized" /\ current = Account!Nil)
      BY <1>1, <1>2, <2>2 DEF AccountInv, PhaseOK
    <2>4. phase.step = "idle" /\ current = Account!Nil => Rests' \/ WillRest'
      <3>1. SUFFICES ASSUME phase.step = "idle", current = Account!Nil,
                            ~WillRest' PROVE Rests'
        OBVIOUS
      <3>2. Rests \/ WillRest
        BY <2>2, <3>1 DEF AccountInv, PhaseOK
      <3>3. \A n \in Account!Click : Runs(n)' => flow'[n].generation # slot'.generation
        <4>1. \A n \in Account!Click : Runs(n)' => Started(n)
          BY DEF Runs, Started
        <4>2. QED
          BY <4>1, <1>3 DEF AccountInv, NumbersOK
      <3>4. \A d \in requests' : d.cmd # "start"
        <4>1. CASE Rests
          BY <4>1, <1>1 DEF Rests
        <4>2. CASE WillRest
          <5>1. PICK w \in requests :
                  w.cmd \in Resets /\ \A d \in requests : d.cmd = "start" => d.at < w.at
            BY <4>2 DEF WillRest
          <5>2. w = c
            BY <5>1, <1>1, <3>1 DEF WillRest
          <5>3. \A d \in requests' : d.at \in Nat /\ d.at >= c.at /\ c.at \in Nat
            BY <1>1, <1>3, <2>1 DEF AccountInv, AccountTypeInv
          <5>4. QED
            BY <5>1, <5>2, <5>3, <1>1
        <4>3. QED
          BY <3>2, <4>1, <4>2
      <3>5. QED
        BY <1>3, <3>3, <3>4 DEF Rests
    <2>5. QED
      BY <1>1, <2>2, <2>3, <2>4 DEF AccountInv, PhaseOK
  <1>10. QED
    BY <1>4, <1>5, <1>6, <1>7, <1>8, <1>9 DEF AccountInv

LEMMA CancelFlowOK ==
  ASSUME Account!SignInAssumption, AccountInv, NEW c,
         Account!CancelFlow(c) \/ Account!DisconnectSync(c)
  PROVE  AccountInv'
  <1>1. Account!Handle(c, Resets)
    BY DEF Account!CancelFlow, Account!DisconnectSync, Account!Handle, Resets, Cancels
  <1>2. QED
    BY <1>1, ForgetsOK DEF Account!CancelFlow, Account!DisconnectSync

\* One flow goes on; the others stay as they are.
LEMMA FlowGoesOn ==
  ASSUME AccountInv, NEW n \in Account!Click, NEW s \in States,
         flow' = [flow EXCEPT ![n].state = s]
  PROVE  /\ flow' \in [Account!Click -> [state : States, kind : Provider, generation : Nat]]
         /\ flow'[n].state = s
         /\ \A m \in Account!Click : flow'[m].generation = flow[m].generation
         /\ \A m \in Account!Click : m # n => flow'[m].state = flow[m].state
  <1>1. flow \in [Account!Click -> [state : States, kind : Provider, generation : Nat]]
    BY DEF AccountInv, AccountTypeInv, Account!TypeOK, States
  <1>2. /\ DOMAIN flow' = Account!Click /\ \A m \in Account!Click : m # n =>
             flow'[m] = flow[m]
        /\ flow'[n] = [flow[n] EXCEPT !.state = s]
        /\ flow' = [m \in Account!Click |-> flow'[m]]
    BY <1>1
  <1>3. flow[n] \in [state : States, kind : Provider, generation : Nat]
    BY <1>1
  <1>4. /\ flow'[n] \in [state : States, kind : Provider, generation : Nat]
        /\ flow'[n].state = s /\ flow'[n].generation = flow[n].generation
    BY <1>2, <1>3
  <1>5. \A m \in Account!Click :
          flow'[m] \in [state : States, kind : Provider, generation : Nat]
    BY <1>1, <1>2, <1>4
  <1>6. QED
    BY <1>2, <1>4, <1>5

LEMMA AnnounceOK ==
  ASSUME Account!SignInAssumption, AccountInv, NEW n \in Account!Click, Account!Announce(n)
  PROVE  AccountInv'
  <1>1. /\ flow[n].state = "asks" /\ flow' = [flow EXCEPT ![n].state = "waits"]
        /\ notices' = notices \cup {<<n, "event">>}
        /\ UNCHANGED <<kind, phase, current, connecting, clicks, requests, slot, connectJob,
                       connection,
                       handled, reordered, late>>
    BY DEF Account!Announce, Account!page, Account!history
  <1>2. "waits" \in States /\ n # Account!Nil /\ n \in Account!Flow
    BY DEF States, Account!Click, Account!Nil, Account!SignInAssumption, Account!Flow
  <1>3. /\ flow' \in [Account!Click -> [state : States, kind : Provider, generation : Nat]]
        /\ flow'[n].state = "waits"
        /\ \A m \in Account!Click : flow'[m].generation = flow[m].generation
        /\ \A m \in Account!Click : m # n => flow'[m].state = flow[m].state
    BY <1>1, <1>2, FlowGoesOn
  <1>4. \A m \in Account!Click : (Started(m)' <=> Started(m)) /\ (Runs(m)' <=> Runs(m))
    BY <1>1, <1>3 DEF Started, Runs
  <1>5. \A m, w : w # "event" => (<<m, w>> \in notices' <=> <<m, w>> \in notices)
    BY <1>1
  <1>6. current \in Account!Flow /\ connecting \in Account!Flow
          /\ phase.flow \in Account!Flow
        /\ slot.pending \in Account!Flow
    BY DEF AccountInv, AccountTypeInv, Account!TypeOK
  <1>7. AccountTypeInv'
    <2>1. Account!TypeOK'
      BY <1>1, <1>3 DEF AccountInv, AccountTypeInv, Account!TypeOK, States
    <2>2. notices' \subseteq Account!Flow \X Whats
      BY <1>1, <1>2 DEF AccountInv, AccountTypeInv, Whats
    <2>3. QED
      BY <1>1, <2>1, <2>2 DEF AccountInv, AccountTypeInv
  <1>8. NumbersOK'
    <2>1. \A c \in requests : c.at \in Account!Click
      BY DEF AccountInv, AccountTypeInv
    <2>2. QED
      BY <1>1, <1>3, <1>4, <2>1 DEF AccountInv, NumbersOK
  <1>9. AccountToldOK'
    <2>1. \A m \in Account!Click :
            <<m, "event">> \in notices' => <<m, "event">> \in notices \/ m = n
      BY <1>1
    <2>2. QED
      BY <1>1, <1>3, <1>5, <2>1 DEF AccountInv, AccountToldOK
  <1>10. PendingOK'
    BY <1>1, <1>3, <1>6 DEF AccountInv, PendingOK, Account!Flow
  <1>11. ConnectOK'
    <2>1. Connects' = Connects /\ (Answered' <=> Answered)
      BY <1>1, <1>5 DEF Connects, Answered
    <2>2. /\ connecting # Account!Nil => Started(connecting)'
          /\ phase.step = "authorized" => phase.flow # Account!Nil /\ Started(phase.flow)'
      BY <1>1, <1>3, <1>6 DEF AccountInv, ConnectOK, Account!Flow, Started
    <2>3. QED
      BY <1>1, <1>5, <2>1, <2>2 DEF AccountInv, ConnectOK
  <1>12. Orderly' <=> Orderly
    BY <1>1 DEF Orderly
  <1>13. current # Account!Nil => (Started(current)' <=> Started(current))
                                 /\ (Runs(current)' <=> Runs(current))
                                      /\ current \in Account!Click
    BY <1>1, <1>3, <1>6 DEF Started, Runs, Account!Flow
  <1>14. CurrentOK'
    BY <1>1, <1>3, <1>5, <1>12, <1>13 DEF AccountInv, CurrentOK
  <1>15. PhaseOK'
    <2>1. Rests => Rests'
      BY <1>1, <1>3, <1>4 DEF Rests
    <2>2. WillRest => WillRest'
      BY <1>1 DEF WillRest
    <2>3. current # Account!Nil /\ flow[current].state \in {"waits", "ended"} =>
            flow'[current].state \in {"waits", "ended"}
      BY <1>3, <1>13
    <2>4. QED
      BY <1>1, <1>5, <1>12, <2>1, <2>2, <2>3 DEF AccountInv, PhaseOK
  <1>16. QED
    BY <1>7, <1>8, <1>9, <1>10, <1>11, <1>14, <1>15 DEF AccountInv

LEMMA SettleOK ==
  ASSUME Account!SignInAssumption, AccountInv, NEW n \in Account!Click, Account!Settle(n)
  PROVE  AccountInv'
  <1>1. /\ flow[n].state \in {"asks", "waits"} /\ flow' = [flow EXCEPT ![n].state = "ended"]
        /\ UNCHANGED <<kind, phase, current, connecting, clicks, requests, connectJob,
                       connection,
                       handled, reordered, late>>
    BY DEF Account!Settle, Account!page, Account!history
  <1>2. PICK what \in {"ok", "error"} : notices' = notices \cup {<<n, what>>}
          /\ (~Account!IsCurrent(n) => what = "error" /\ slot' = slot)
          /\ (Account!IsCurrent(n) =>
                slot' = [slot EXCEPT !.live = Account!Nil, !.pending = IF what = "ok" THEN n
                           ELSE @])
    <2>1. slot \in [generation : Nat, pending : Account!Flow, live : Account!Flow]
      BY DEF AccountInv, AccountTypeInv, Account!TypeOK
    <2>2. CASE flow[n].state = "asks"
      <3>1. /\ slot' = IF Account!IsCurrent(n) THEN [slot EXCEPT !.live = Account!Nil]
                   ELSE slot
            /\ notices' = notices \cup {<<n, "error">>}
        BY <2>2 DEF Account!Settle
      <3>2. [slot EXCEPT !.live = Account!Nil]
              = [slot EXCEPT !.live = Account!Nil, !.pending = IF "error" = "ok" THEN n
                   ELSE @]
        BY <2>1
      <3>3. QED
        BY <3>1, <3>2
    <2>3. CASE flow[n].state = "waits"
      <3>1. PICK ok \in BOOLEAN :
              /\ slot' = IF Account!IsCurrent(n)
                         THEN [slot EXCEPT !.live = Account!Nil, !.pending = IF ok THEN n
                                 ELSE @]
                         ELSE slot
              /\ notices' = notices \cup {<<n, IF ok /\ Account!IsCurrent(n) THEN "ok"
                                              ELSE "error">>}
        BY <2>3 DEF Account!Settle
      <3>2. CASE ok /\ Account!IsCurrent(n)
        BY <3>1, <3>2
      <3>3. CASE ~ok \/ ~Account!IsCurrent(n)
        BY <3>1, <3>3
      <3>4. QED
        BY <3>2, <3>3
    <2>4. QED
      BY <1>1, <2>2, <2>3
  <1>3. "ended" \in States /\ n # Account!Nil /\ n \in Account!Flow
          /\ Account!Nil \in Account!Flow
    BY DEF States, Account!Click, Account!Nil, Account!SignInAssumption, Account!Flow
  <1>4. /\ flow' \in [Account!Click -> [state : States, kind : Provider, generation : Nat]]
        /\ flow'[n].state = "ended"
        /\ \A m \in Account!Click : flow'[m].generation = flow[m].generation
        /\ \A m \in Account!Click : m # n => flow'[m].state = flow[m].state
    BY <1>1, <1>3, FlowGoesOn
  <1>5. /\ slot' \in [generation : Nat, pending : Account!Flow, live : Account!Flow]
        /\ slot'.generation = slot.generation
        /\ slot'.pending = IF Account!IsCurrent(n) /\ what = "ok" THEN n ELSE slot.pending
    <2>1. slot \in [generation : Nat, pending : Account!Flow, live : Account!Flow]
      BY DEF AccountInv, AccountTypeInv, Account!TypeOK
    <2>2. CASE Account!IsCurrent(n)
      BY <1>2, <1>3, <2>1, <2>2
    <2>3. CASE ~Account!IsCurrent(n)
      BY <1>2, <2>1, <2>3
    <2>4. QED
      BY <2>2, <2>3
  <1>6. Started(n) /\ \A m \in Account!Click : Started(m)' <=> Started(m)
    BY <1>1, <1>4 DEF Started
  <1>7. /\ \A m, w : m # n => (<<m, w>> \in notices' <=> <<m, w>> \in notices)
        /\ \A w : <<n, w>> \in notices' <=> <<n, w>> \in notices \/ w = what
        /\ \A m, w : <<m, w>> \in notices => <<m, w>> \in notices'
    BY <1>2
  <1>8. current \in Account!Flow /\ connecting \in Account!Flow
          /\ phase.flow \in Account!Flow
        /\ slot.pending \in Account!Flow
    BY DEF AccountInv, AccountTypeInv, Account!TypeOK
  \* The flow in the slot is the only one of its generation.
  <1>9. \A m \in Account!Click :
          Started(m) /\ m # n /\ flow[m].generation = slot.generation =>
          ~Account!IsCurrent(n)
    BY <1>6 DEF AccountInv, NumbersOK, Account!IsCurrent
  <1>10. AccountTypeInv'
    <2>1. Account!TypeOK'
      BY <1>1, <1>4, <1>5 DEF AccountInv, AccountTypeInv, Account!TypeOK, States
    <2>2. notices' \subseteq Account!Flow \X Whats
      BY <1>2, <1>3 DEF AccountInv, AccountTypeInv, Whats
    <2>3. QED
      BY <1>1, <2>1, <2>2 DEF AccountInv, AccountTypeInv
  <1>11. NumbersOK'
    <2>1. \A c \in requests : c.at \in Account!Click
      BY DEF AccountInv, AccountTypeInv
    <2>2. QED
      BY <1>1, <1>4, <1>5, <1>6, <2>1 DEF AccountInv, NumbersOK
  <1>12. AccountToldOK'
    <2>1. \A w \in {"ok", "error"} : <<n, w>> \notin notices
      BY <1>1 DEF AccountInv, AccountToldOK
    <2>2. \A m \in Account!Click : <<m, "event">> \in notices' => <<m, "event">> \in notices
      BY <1>7
    <2>3. QED
      BY <1>4, <1>7, <2>1, <2>2 DEF AccountInv, AccountToldOK
  <1>13. PendingOK'
    <2>1. CASE Account!IsCurrent(n) /\ what = "ok"
      BY <2>1, <1>4, <1>5 DEF PendingOK, Account!IsCurrent
    <2>2. CASE ~(Account!IsCurrent(n) /\ what = "ok")
      <3>1. slot'.pending = slot.pending
        BY <2>2, <1>5
      <3>2. QED
        BY <3>1, <1>1, <1>4, <1>5, <1>8 DEF AccountInv, PendingOK, Account!Flow
    <2>3. QED
      BY <2>1, <2>2
  <1>14. ConnectOK'
    <2>1. Connects' = Connects /\ (Answered' <=> Answered)
      BY <1>1, <1>3, <1>7 DEF Connects, Answered
    <2>2. /\ connecting # Account!Nil => Started(connecting)'
          /\ phase.step = "authorized" => phase.flow # Account!Nil /\ Started(phase.flow)'
      BY <1>1, <1>4, <1>8 DEF AccountInv, ConnectOK, Account!Flow, Started
    <2>3. QED
      BY <1>1, <1>3, <1>7, <2>1, <2>2 DEF AccountInv, ConnectOK
  <1>15. Orderly' <=> Orderly
    BY <1>1 DEF Orderly
  <1>16. CurrentOK'
    <2>1. current # Account!Nil =>
            current \in Account!Click /\ (Started(current)' <=> Started(current))
      BY <1>1, <1>4, <1>8 DEF Started, Account!Flow
    <2>2. ASSUME Orderly, current # Account!Nil, Started(current)
          PROVE  /\ flow'[current].generation = slot'.generation
                 /\ Runs(current)' => slot'.live = current /\ slot'.pending = Account!Nil
                 /\ ~Runs(current)' =>
                      \/ /\ <<current, "ok">> \in notices'
                         /\ slot'.pending = current
                              \/ <<Account!Nil, "connected">> \in notices'
                      \/ <<current, "error">> \in notices' /\ slot'.pending = Account!Nil
      <3>1. /\ flow[current].generation = slot.generation
            /\ Runs(current) => slot.live = current /\ slot.pending = Account!Nil
            /\ ~Runs(current) =>
                 \/ /\ <<current, "ok">> \in notices
                    /\ slot.pending = current \/ <<Account!Nil, "connected">> \in notices
                 \/ <<current, "error">> \in notices /\ slot.pending = Account!Nil
        BY <2>2 DEF AccountInv, CurrentOK
      <3>2. flow'[current].generation = slot'.generation
        BY <2>1, <2>2, <3>1, <1>4, <1>5
      <3>3. CASE current = n
        <4>1. Runs(current) /\ ~Runs(current)' /\ Account!IsCurrent(n)
          BY <3>1, <3>3, <1>1, <1>4 DEF Runs, Account!IsCurrent
        <4>2. QED
          BY <3>1, <3>2, <3>3, <4>1, <1>5, <1>7
      <3>4. CASE current # n
        <4>1. slot' = slot
          BY <2>1, <2>2, <3>1, <3>4, <1>2, <1>9
        <4>2. Runs(current)' <=> Runs(current)
          BY <2>1, <2>2, <3>4, <1>1, <1>4 DEF Runs
        <4>3. QED
          BY <3>1, <3>2, <4>1, <4>2, <1>7
      <3>5. QED
        BY <3>3, <3>4
    <2>3. current # Account!Nil =>
            /\ current <= clicks
            /\ \A c \in requests : c.at >= current => c.cmd \in {"start", "connect"}
            /\ \A c \in requests : c.at > current => c.cmd = "connect"
            /\ Started(current)' \/ \E c \in requests : c.cmd = "start" /\ c.at = current
      BY <2>1 DEF AccountInv, CurrentOK
    <2>4. phase.step = "connected" => current = Account!Nil
      BY DEF AccountInv, CurrentOK
    <2>5. QED
      BY <1>1, <1>15, <2>1, <2>2, <2>3, <2>4 DEF CurrentOK
  <1>17. PhaseOK'
    <2>1. SUFFICES ASSUME Orderly PROVE PhaseOK'
      BY <1>15 DEF PhaseOK
    <2>2. phase.step = "authorized" /\ current = Account!Nil =>
            slot'.pending = phase.flow \/ <<Account!Nil, "connected">> \in notices'
      <3>1. SUFFICES ASSUME phase.step = "authorized", current = Account!Nil,
                            slot.pending = phase.flow
                     PROVE  slot'.pending = phase.flow
        BY <1>7, <2>1 DEF AccountInv, PhaseOK
      <3>2. phase.flow # Account!Nil /\ phase.flow \in Account!Click /\ Started(phase.flow)
        BY <3>1, <1>8 DEF AccountInv, ConnectOK, Account!Flow
      <3>3. flow[phase.flow].state = "ended"
              /\ flow[phase.flow].generation = slot.generation
        BY <3>1, <3>2 DEF AccountInv, PendingOK
      <3>4. ~Account!IsCurrent(n)
        BY <3>2, <3>3, <1>1, <1>9
      <3>5. QED
        BY <3>1, <3>4, <1>5
    <2>3. current # Account!Nil /\ flow[current].state \in {"waits", "ended"} =>
            flow'[current].state \in {"waits", "ended"}
      BY <1>4, <1>8 DEF Account!Flow
    <2>4. Rests => Rests'
      <3>1. SUFFICES ASSUME Rests PROVE Rests'
        OBVIOUS
      <3>2. Runs(n)
        BY <1>1 DEF Runs
      <3>3. ~Account!IsCurrent(n)
        BY <3>1, <3>2 DEF Rests, Account!IsCurrent
      <3>4. \A m \in Account!Click : Runs(m)' => Runs(m)
        BY <1>1, <1>4 DEF Runs
      <3>5. QED
        BY <3>1, <3>3, <3>4, <1>1, <1>4, <1>5 DEF Rests
    <2>5. WillRest => WillRest'
      BY <1>1 DEF WillRest
    <2>6. QED
      BY <1>1, <2>1, <2>2, <2>3, <2>4, <2>5 DEF AccountInv, PhaseOK
  <1>18. QED
    BY <1>10, <1>11, <1>12, <1>13, <1>14, <1>16, <1>17 DEF AccountInv

LEMMA ConnectBeginOK ==
  ASSUME Account!SignInAssumption, AccountInv, NEW c, Account!ConnectBegin(c)
  PROVE  AccountInv'
  <1>1. /\ c \in requests /\ c.cmd = "connect" /\ requests' = requests \ {c}
        /\ UNCHANGED <<kind, phase, current, connecting, clicks, late>>
        /\ handled' \in Nat /\ handled' <= clicks /\ reordered' \in BOOLEAN
        /\ handled <= handled'
        /\ ~reordered' => ~reordered
        /\ Orderly' => Orderly
    BY Handled DEF Account!ConnectBegin
  <1>2. /\ ~connectJob.on
        /\ \/ /\ slot.pending # Account!Nil /\ notices' = notices
              /\ connectJob' =
                   [on |-> TRUE, flow |-> slot.pending, generation |-> slot.generation]
           \/ notices' = notices \cup {<<Account!Nil, "refused">>} /\ connectJob' = connectJob
        /\ UNCHANGED <<slot, flow, connection>>
    BY DEF Account!ConnectBegin
  <1>3. /\ \A m, w : m # Account!Nil => (<<m, w>> \in notices' <=> <<m, w>> \in notices)
        /\ \A m, w : <<m, w>> \in notices => <<m, w>> \in notices'
        /\ \A n \in Account!Click : n # Account!Nil
        /\ <<Account!Nil, "connected">> \in notices' <=>
             <<Account!Nil, "connected">> \in notices
    BY <1>2 DEF Account!Click, Account!Nil, Account!SignInAssumption
  <1>4. AccountTypeInv'
    <2>1. slot \in [generation : Nat, pending : Account!Flow, live : Account!Flow]
            /\ Account!Nil \in Account!Flow
      BY DEF AccountInv, AccountTypeInv, Account!TypeOK, Account!Flow
    <2>2. slot.pending \in Account!Flow /\ slot.generation \in Nat
      BY <2>1
    <2>3. Account!TypeOK'
      BY <1>1, <1>2 DEF AccountInv, AccountTypeInv, Account!TypeOK
    <2>4. notices' \subseteq Account!Flow \X Whats
      BY <1>2, <2>1 DEF AccountInv, AccountTypeInv, Whats
    <2>5. connectJob' \in [on : BOOLEAN, flow : Account!Flow, generation : Nat]
      <3>1. connectJob \in [on : BOOLEAN, flow : Account!Flow, generation : Nat]
        BY DEF AccountInv, AccountTypeInv
      <3>2. [on |-> TRUE, flow |-> slot.pending, generation |-> slot.generation]
              \in [on : BOOLEAN, flow : Account!Flow, generation : Nat]
        BY <2>2
      <3>3. QED
        BY ONLY <1>2, <3>1, <3>2
    <2>6. QED
      BY <1>1, <2>3, <2>4, <2>5 DEF AccountInv, AccountTypeInv
  <1>5. NumbersOK'
    <2>1. \A n \in Account!Click : Started(n) => n <= handled'
      <3>1. \A n \in Account!Click : n \in Nat
        BY DEF Account!Click
      <3>2. QED
        BY <3>1, <1>1 DEF AccountInv, AccountTypeInv, NumbersOK
    <2>2. \A d \in requests' : d \in requests
      BY <1>1
    <2>3. QED
      BY <1>1, <1>2, <2>1, <2>2 DEF AccountInv, NumbersOK, Started
  <1>6. AccountToldOK' /\ PendingOK'
    BY <1>2, <1>3 DEF AccountInv, AccountToldOK, PendingOK
  <1>7. ConnectOK'
    <2>1. /\ connecting # Account!Nil => Started(connecting)'
          /\ phase.step = "authorized" => phase.flow # Account!Nil /\ Started(phase.flow)'
      BY <1>1, <1>2 DEF AccountInv, ConnectOK, Started
    <2>2. SUFFICES ASSUME ~reordered
                   PROVE  /\ connecting # Account!Nil /\ Connects' = {}
                          /\ connectJob'.on => ~Answered' /\ connectJob'.flow >= connecting
                          /\ ~(<<Account!Nil, "connected">> \in notices'
                               /\ <<Account!Nil, "refused">> \in notices')
      BY <1>1, <2>1 DEF ConnectOK
    <2>3. c \in Connects
      BY <1>1 DEF Connects
    <2>4. connecting # Account!Nil /\ ~Answered /\ \A d \in Connects : d = c
      BY <2>2, <2>3 DEF AccountInv, ConnectOK
    <2>5. Connects' = {}
      BY <1>1, <2>4 DEF Connects
    <2>6. ~(<<Account!Nil, "connected">> \in notices'
            /\ <<Account!Nil, "refused">> \in notices')
      BY <1>3, <2>4 DEF Answered
    <2>7. connectJob'.on =>
            notices' = notices /\ slot.pending # Account!Nil
              /\ connectJob'.flow = slot.pending
      BY <1>2
    <2>8. slot.pending # Account!Nil => slot.pending >= connecting
      <3>1. SUFFICES ASSUME slot.pending # Account!Nil PROVE slot.pending >= connecting
        OBVIOUS
      <3>2. slot.pending \in Account!Click /\ connecting \in Account!Click
        BY <2>4, <3>1 DEF AccountInv, AccountTypeInv, Account!TypeOK, Account!Flow
      <3>3. /\ Started(slot.pending) /\ flow[slot.pending].generation = slot.generation
            /\ Started(connecting)
        BY <2>4, <3>1 DEF AccountInv, PendingOK, ConnectOK, Started
      <3>4. flow[connecting].generation <= slot.generation
            /\ flow[connecting].generation \in Nat /\ slot.generation \in Nat
        BY <3>2, <3>3 DEF AccountInv, NumbersOK, AccountTypeInv, Account!TypeOK
      <3>5. ~(slot.pending < connecting)
        BY <2>2, <3>2, <3>3, <3>4 DEF AccountInv, NumbersOK
      <3>6. slot.pending \in Nat /\ connecting \in Nat
        BY <3>2 DEF Account!Click
      <3>7. QED
        BY <3>5, <3>6
    <2>9. QED
      BY <2>4, <2>5, <2>6, <2>7, <2>8 DEF Answered
  <1>8. CurrentOK'
    BY <1>1, <1>2, <1>3 DEF AccountInv, CurrentOK, Started, Runs
  <1>9. PhaseOK'
    <2>1. Rests => Rests'
      BY <1>1, <1>2 DEF Rests, Runs
    <2>2. WillRest => WillRest'
      BY <1>1 DEF WillRest, Resets, Cancels
    <2>3. QED
      BY <1>1, <1>2, <1>3, <2>1, <2>2 DEF AccountInv, PhaseOK
  <1>10. QED
    BY <1>4, <1>5, <1>6, <1>7, <1>8, <1>9 DEF AccountInv

LEMMA ConnectEndOK ==
  ASSUME Account!SignInAssumption, AccountInv, Account!ConnectEnd
  PROVE  AccountInv'
  <1>1. /\ connectJob.on /\ connectJob' = Account!NoJob
        /\ UNCHANGED <<kind, phase, current, connecting, clicks, requests, flow, handled,
                       reordered,
                       late>>
    BY DEF Account!ConnectEnd, Account!page, Account!history
  <1>2. slot \in [generation : Nat, pending : Account!Flow, live : Account!Flow]
          /\ Account!Nil \in Account!Flow
        /\ connectJob.flow \in Account!Flow
    BY DEF AccountInv, AccountTypeInv, Account!TypeOK, Account!Flow
  <1>3. PICK what \in {"connected", "refused"} :
          /\ notices' = notices \cup {<<Account!Nil, what>>} /\ connection' \in Account!Flow
          /\ slot' \in [generation : Nat, pending : Account!Flow, live : Account!Flow]
          /\ slot'.generation = slot.generation /\ slot'.live = slot.live
          /\ slot'.pending = slot.pending
               \/ (slot'.pending = Account!Nil /\ what = "connected")
    <2>1. CASE notices' = notices \cup {<<Account!Nil, "refused">>}
               /\ UNCHANGED <<slot, connection>>
      BY <1>2, <2>1 DEF AccountInv, AccountTypeInv, Account!TypeOK
    <2>2. CASE /\ connection' = connectJob.flow
               /\ notices' = notices \cup {<<Account!Nil, "connected">>}
               /\ slot' = IF slot.generation = connectJob.generation
                          THEN [slot EXCEPT !.pending = Account!Nil] ELSE slot
      BY <1>2, <2>2
    <2>3. QED
      BY <2>1, <2>2 DEF Account!ConnectEnd
  <1>4. /\ \A m, w : m # Account!Nil => (<<m, w>> \in notices' <=> <<m, w>> \in notices)
        /\ \A m, w : <<m, w>> \in notices => <<m, w>> \in notices'
        /\ \A n \in Account!Click : n # Account!Nil
        /\ <<Account!Nil, what>> \in notices'
        /\ \A w :
             <<Account!Nil, w>> \in notices' => <<Account!Nil, w>> \in notices \/ w = what
    BY <1>3 DEF Account!Click, Account!Nil, Account!SignInAssumption
  <1>5. AccountTypeInv'
    <2>1. connectJob' \in [on : BOOLEAN, flow : Account!Flow, generation : Nat]
      BY <1>1, <1>2 DEF Account!NoJob
    <2>2. notices' \subseteq Account!Flow \X Whats
      BY <1>2, <1>3 DEF AccountInv, AccountTypeInv, Whats
    <2>3. Account!TypeOK'
      BY <1>1, <1>3 DEF AccountInv, AccountTypeInv, Account!TypeOK
    <2>4. QED
      BY <1>1, <2>1, <2>2, <2>3 DEF AccountInv, AccountTypeInv
  <1>6. NumbersOK'
    BY <1>1, <1>3 DEF AccountInv, NumbersOK, Started
  <1>7. AccountToldOK' /\ PendingOK'
    BY <1>1, <1>3, <1>4 DEF AccountInv, AccountToldOK, PendingOK
  <1>8. ConnectOK'
    <2>1. ~reordered => connecting # Account!Nil /\ Connects = {} /\ ~Answered
      BY <1>1 DEF AccountInv, ConnectOK
    <2>2. ~connectJob'.on /\ Connects' = Connects
      BY <1>1 DEF Account!NoJob, Connects
    <2>3. ~reordered =>
            ~(<<Account!Nil, "connected">> \in notices'
              /\ <<Account!Nil, "refused">> \in notices')
      BY <1>4, <2>1 DEF Answered
    <2>4. QED
      BY <1>1, <2>1, <2>2, <2>3 DEF AccountInv, ConnectOK, Started
  <1>9. Orderly' <=> Orderly
    BY <1>1 DEF Orderly
  <1>10. CurrentOK'
    <2>1. ASSUME Orderly, current # Account!Nil, Started(current)
          PROVE  /\ flow[current].generation = slot'.generation
                 /\ Runs(current) => slot'.live = current /\ slot'.pending = Account!Nil
                 /\ ~Runs(current) =>
                      \/ /\ <<current, "ok">> \in notices'
                         /\ slot'.pending = current
                              \/ <<Account!Nil, "connected">> \in notices'
                      \/ <<current, "error">> \in notices' /\ slot'.pending = Account!Nil
      BY <2>1, <1>3, <1>4 DEF AccountInv, CurrentOK
    <2>2. (Started(current)' <=> Started(current)) /\ (Runs(current)' <=> Runs(current))
      BY <1>1 DEF Started, Runs
    <2>3. QED
      BY <1>1, <1>9, <2>1, <2>2 DEF AccountInv, CurrentOK
  <1>11. PhaseOK'
    <2>1. Rests => Rests'
      BY <1>1, <1>3 DEF Rests, Runs
    <2>2. WillRest => WillRest'
      BY <1>1 DEF WillRest
    <2>3. QED
      BY <1>1, <1>3, <1>4, <1>9, <2>1, <2>2 DEF AccountInv, PhaseOK
  <1>12. QED
    BY <1>5, <1>6, <1>7, <1>8, <1>10, <1>11 DEF AccountInv

LEMMA AccountPageLoadOK ==
  ASSUME Account!SignInAssumption, AccountInv, Account!PageLoad
  PROVE  AccountInv'
  <1>1. /\ clicks' = clicks + 1 /\ clicks < MaxClicks /\ notices' = {} /\ handled' = clicks'
        /\ slot' =
             [generation |-> slot.generation + 1, pending |-> Account!Nil,
              live |-> Account!Nil]
        /\ kind' = FirstProvider /\ current' = Account!Nil /\ connecting' = Account!Nil
        /\ phase' = IF connection = Account!Nil THEN Account!Idle
               ELSE [step |-> "connected", flow |-> Account!Nil]
        /\ reordered' = (reordered \/ requests # {} \/ connectJob.on)
        /\ UNCHANGED <<requests, flow, connectJob, connection, late>>
    BY DEF Account!PageLoad, Account!Clicks, Account!Fresh
  <1>2. /\ clicks \in Nat /\ MaxClicks \in Nat /\ handled \in Nat /\ handled <= clicks
        /\ slot.generation \in Nat /\ Account!Nil \in Account!Flow
        /\ FirstProvider \in Provider
        /\ requests \subseteq [cmd : Commands, at : Account!Click, kind : Provider]
        /\ \A n \in Account!Click : n \in Nat /\ flow[n].generation \in Nat
    BY DEF AccountInv, AccountTypeInv, Account!TypeOK, Account!SignInAssumption,
           Account!Flow, Account!Click
  <1>3. /\ ~reordered' => ~reordered /\ requests = {} /\ ~connectJob.on
        /\ reordered' \in BOOLEAN
    BY <1>1
  <1>4. AccountTypeInv'
    <2>1. slot' \in [generation : Nat, pending : Account!Flow, live : Account!Flow]
            /\ slot'.pending = Account!Nil
          /\ slot'.generation = slot.generation + 1
      BY <1>1, <1>2
    <2>2. phase' \in Phases
      BY <1>1, <1>2 DEF Phases, Account!Idle
    <2>3. Account!TypeOK'
      BY <1>1, <1>2, <2>1, <2>2 DEF AccountInv, AccountTypeInv, Account!TypeOK, Phases
    <2>4. clicks' \in Nat /\ clicks' <= MaxClicks
      BY <1>1, <1>2
    <2>5. QED
      BY <1>1, <1>3, <2>3, <2>4 DEF AccountInv, AccountTypeInv
  <1>5. slot'.pending = Account!Nil /\ slot'.generation = slot.generation + 1
    BY <1>1
  <1>6. NumbersOK'
    <2>1. \A c \in requests : c.at <= clicks'
      <3>1. \A c \in requests : c.at \in Nat /\ c.at <= clicks
        BY <1>2 DEF AccountInv, NumbersOK
      <3>2. QED
        BY <3>1, <1>1, <1>2
    <2>2. \A n \in Account!Click : Started(n) => n <= clicks' /\ n <= handled'
            /\ flow[n].generation <= slot'.generation
      BY <1>1, <1>2, <1>5 DEF AccountInv, NumbersOK
    <2>3. QED
      BY <1>1, <1>3, <2>1, <2>2 DEF AccountInv, NumbersOK, Started
  <1>7. AccountToldOK' /\ PendingOK'
    BY <1>1, <1>5 DEF AccountToldOK, PendingOK
  <1>8. phase'.step \in {"idle", "connected"}
    BY <1>1 DEF Account!Idle
  <1>9. ConnectOK'
    BY <1>1, <1>3, <1>8 DEF ConnectOK, Connects, Answered
  <1>10. CurrentOK'
    BY <1>1 DEF CurrentOK
  <1>11. PhaseOK'
    <2>1. Orderly' => Rests'
      <3>1. SUFFICES ASSUME Orderly' PROVE Rests'
        OBVIOUS
      <3>2. requests' = {}
        BY <3>1, <1>1, <1>3 DEF Orderly
      <3>3. \A n \in Account!Click : Runs(n)' => flow'[n].generation # slot'.generation
        <4>1. \A n \in Account!Click : Runs(n)' => Started(n)
          BY <1>1 DEF Runs, Started
        <4>2. QED
          BY <4>1, <1>1, <1>2, <1>5 DEF AccountInv, NumbersOK
      <3>4. QED
        BY <1>5, <3>2, <3>3 DEF Rests
    <2>2. QED
      BY <1>8, <2>1 DEF PhaseOK
  <1>12. QED
    BY <1>4, <1>6, <1>7, <1>9, <1>10, <1>11 DEF AccountInv

-----------------------------------------------------------------------------
LEMMA AccountNextOK ==
  ASSUME Account!SignInAssumption, AccountInv, [Account!Next]_Account!vars
  PROVE  AccountInv'
  <1>1. CASE Account!Select \/ Account!Cancel \/ Account!Disconnect
    BY <1>1, SelectOK
  <1>2. CASE Account!Begin
    BY <1>2, AccountBeginOK
  <1>3. CASE Account!Connect
    BY <1>3, ConnectClickOK
  <1>4. CASE Account!HearConnect
    BY <1>4, HearConnectOK
  <1>5. CASE Account!PageLoad
    BY <1>5, AccountPageLoadOK
  <1>6. CASE \E n \in Account!Click : Account!HearEvent(n) \/ Account!HearAnswer(n)
               \/ Account!Announce(n) \/ Account!Settle(n)
    BY <1>6, HearEventOK, HearAnswerOK, AnnounceOK, SettleOK
  <1>7. CASE \E c \in requests : Account!Start(c) \/ Account!CancelFlow(c)
               \/ Account!ConnectBegin(c) \/ Account!DisconnectSync(c)
    BY <1>7, StartOK, CancelFlowOK, ConnectBeginOK
  <1>8. CASE Account!ConnectEnd
    BY <1>8, ConnectEndOK
  <1>9. CASE UNCHANGED Account!vars
    <2>1. UNCHANGED <<kind, phase, current, connecting, clicks, requests, notices, slot,
                      flow, connectJob,
                      connection, handled, reordered, late>>
      BY <1>9 DEF Account!vars
    <2>2. AccountTypeInv' /\ NumbersOK' /\ AccountToldOK' /\ PendingOK'
      BY <2>1 DEF AccountInv, AccountTypeInv, Account!TypeOK, NumbersOK, AccountToldOK,
                  PendingOK, Started
    <2>3. ConnectOK' /\ CurrentOK'
      BY <2>1 DEF AccountInv, ConnectOK, CurrentOK, Started, Runs, Connects, Answered,
                  Orderly
    <2>4. PhaseOK'
      BY <2>1 DEF AccountInv, PhaseOK, Rests, WillRest, Runs, Orderly
    <2>5. QED
      BY <2>2, <2>3, <2>4 DEF AccountInv
  <1>10. QED
    BY <1>1, <1>2, <1>3, <1>4, <1>5, <1>6, <1>7, <1>8, <1>9 DEF Account!Next

LEMMA AccountInvSays ==
  ASSUME Account!SignInAssumption, AccountInv
  PROVE  Account!TypeOK /\ Account!ConnectsAsShown /\ Account!PhaseIsTrue
  <1>1. Account!TypeOK
    BY DEF AccountInv, AccountTypeInv
  <1>2. Account!ConnectsAsShown
    BY DEF AccountInv, ConnectOK, Account!ConnectsAsShown
  <1>3. Account!PhaseIsTrue
    <2>1. SUFFICES ASSUME requests = {}, notices = {}, ~connectJob.on, ~reordered, ~late
                   PROVE  /\ phase.step = "authorized" /\ current = Account!Nil =>
                               slot.pending = phase.flow
                          /\ phase.step = "waiting" =>
                               slot.live = phase.flow /\ flow[phase.flow].state = "waits"
                          /\ phase.step = "idle" => slot.pending = Account!Nil
      BY DEF Account!PhaseIsTrue
    <2>2. Orderly
      BY <2>1 DEF Orderly
    <2>3. phase.step = "authorized" /\ current = Account!Nil => slot.pending = phase.flow
      BY <2>1, <2>2 DEF AccountInv, PhaseOK
    <2>4. current # Account!Nil => /\ Started(current) /\ Runs(current)
                                   /\ slot.live = current /\ slot.pending = Account!Nil
      BY <2>1, <2>2 DEF AccountInv, CurrentOK
    <2>5. phase.step = "waiting" =>
            slot.live = phase.flow /\ flow[phase.flow].state = "waits"
      BY <2>2, <2>4 DEF AccountInv, PhaseOK, Runs
    <2>6. phase.step = "idle" => slot.pending = Account!Nil
      BY <2>1, <2>2, <2>4 DEF AccountInv, PhaseOK, Rests, WillRest
    <2>7. QED
      BY <2>3, <2>5, <2>6
  <1>4. QED
    BY <1>1, <1>2, <1>3

-----------------------------------------------------------------------------

Places == {"away", "listens", "reads", "overtaken", "follows"}

UpdateTypeInv ==
  /\ Updates!TypeOK
  /\ view \in [View -> [at : Places, read : Updates!Statuses]]
  /\ events \in [View -> Seq(Updates!Statuses)]
  /\ changes \in Nat /\ mounts \in Nat

(* Who holds the operation and what the status says go together.           *)
OwnerOK ==
  /\ status.s = "checking" <=> operation = "check"
  /\ status.s = "downloading" <=> operation = "install"

(* What is on its way to a view ends with the status as it is, and after   *)
(* that, or once it has overtaken the read, the view shows it.             *)
UpdateEventsOK ==
  \A w \in View :
    /\ view[w].at = "away" => events[w] = <<>>
    /\ events[w] # <<>> => events[w][Len(events[w])] = status
    /\ events[w] = <<>> /\ view[w].at = "reads" => view[w].read = status
    /\ events[w] = <<>> /\ view[w].at \in {"overtaken", "follows"} => shown[w] = status
    /\ \A i \in 2 .. Len(events[w]) :
         events[w][i].s = "available" => events[w][i - 1].s = "checking"

Item(s) == <<s.s, s.v>>

(* The notifier has offered nothing before it applied a status, and only   *)
(* offers the one it shows; if another one comes right after that, the one *)
(* it shows is all it has ever offered.                                    *)
OffersOK ==
  "notifier" \in View =>
    LET w == "notifier"
    IN  /\ view[w].at \in {"away", "listens", "reads"} => toasts = {} /\ notified = {}
        /\ \A x \in toasts : x[1] = "available" => x = Item(shown[w])
        /\ \A x \in toasts : x = <<x[1], x[2]>>
        /\ view[w].at \in {"overtaken", "follows"} /\ events[w] # <<>>
             /\ events[w][1].s = "available" /\ shown[w].s = "available" =>
             notified \subseteq {Item(shown[w])}

UpdateInv == UpdateTypeInv /\ OwnerOK /\ UpdateEventsOK /\ OffersOK

-----------------------------------------------------------------------------
LEMMA AppendOK ==
  ASSUME NEW es \in Seq(Updates!Statuses), NEW s \in Updates!Statuses
  PROVE  /\ Append(es, s) \in Seq(Updates!Statuses) /\ Append(es, s) # <<>>
         /\ Len(Append(es, s)) = Len(es) + 1 /\ Len(es) \in Nat
         /\ Append(es, s)[Len(es) + 1] = s
         /\ \A i \in 1 .. Len(es) : Append(es, s)[i] = es[i]
         /\ es = <<>> <=> Len(es) = 0
  OBVIOUS

LEMMA TailOK ==
  ASSUME NEW es \in Seq(Updates!Statuses), es # <<>>
  PROVE  /\ Tail(es) \in Seq(Updates!Statuses) /\ Head(es) = es[1]
         /\ Head(es) \in Updates!Statuses
         /\ Len(es) \in Nat /\ Len(es) >= 1 /\ Len(Tail(es)) = Len(es) - 1
         /\ Tail(es) = <<>> <=> Len(es) = 1
         /\ \A i \in 1 .. Len(es) - 1 : Tail(es)[i] = es[i + 1]
  <1>1. /\ Tail(es) \in Seq(Updates!Statuses) /\ Head(es) = es[1]
        /\ Len(es) \in Nat /\ Len(es) >= 1 /\ Len(Tail(es)) = Len(es) - 1
        /\ \A i \in 1 .. Len(es) - 1 : Tail(es)[i] = es[i + 1]
    OBVIOUS
  <1>2. Tail(es) = <<>> <=> Len(Tail(es)) = 0
    BY <1>1, EmptySeq
  <1>3. Head(es) \in Updates!Statuses
    BY <1>1
  <1>4. QED
    BY <1>1, <1>2, <1>3

LEMMA StatusOK ==
  /\ \A n \in {"idle", "current", "available", "check failed", "install failed", "checking",
               "downloading", "ready"}, v \in Version \cup {None} :
       Updates!Status(n, v) \in Updates!Statuses /\ Updates!Status(n, v).s = n
         /\ Updates!Status(n, v).v = v
  /\ Updates!Checking \in Updates!Statuses /\ Updates!Checking.s = "checking"
  BY DEF Updates!Status, Updates!Statuses, Updates!Checking, Updates!Busy

LEMMA UpdateInitOK ==
  ASSUME Updates!AppUpdatesAssumption, Updates!Init
  PROVE  UpdateInv
  <1>1. /\ status.s = "idle" /\ status \in Updates!Statuses
        /\ Updates!Checking \in Updates!Statuses
        /\ operation = "none" /\ asked = {} /\ pending = None
        /\ view = [w \in View |-> Updates!Away] /\ shown = [w \in View |-> Updates!Checking]
        /\ latest = Updates!Checking /\ events = [w \in View |-> <<>>]
        /\ toasts = {} /\ notified = {} /\ changes = 0 /\ mounts = 0
    <2>0. None \in Version \cup {None}
      OBVIOUS
    <2>1. Updates!Status("idle", None) \in Updates!Statuses
            /\ Updates!Status("idle", None).s = "idle"
          /\ Updates!Checking \in Updates!Statuses
      <3>1. \A v \in Version \cup {None} :
              Updates!Status("idle", v) \in Updates!Statuses
                /\ Updates!Status("idle", v).s = "idle"
        BY DEF Updates!Status, Updates!Statuses, Updates!Checking, Updates!Busy
      <3>2. QED
        BY ONLY <2>0, <3>1, StatusOK
    <2>2. QED
      BY <2>1 DEF Updates!Init
  <1>2. Updates!Away \in [at : Places, read : Updates!Statuses] /\ Updates!Away.at = "away"
    BY <1>1 DEF Updates!Away, Places
  <1>3. UpdateTypeInv
    <2>1. Updates!TypeOK
      BY <1>1 DEF Updates!TypeOK
    <2>2. /\ view \in [View -> [at : Places, read : Updates!Statuses]]
          /\ events \in [View -> Seq(Updates!Statuses)]
      BY <1>1, <1>2
    <2>3. QED
      BY <1>1, <2>1, <2>2 DEF UpdateTypeInv
  <1>4. OwnerOK
    BY <1>1 DEF OwnerOK
  <1>5. UpdateEventsOK
    <2>1. Len(<<>>) = 0 /\ 2 .. 0 = {}
      OBVIOUS
    <2>2. \A w \in View : events[w] = <<>> /\ view[w].at = "away"
      BY <1>1, <1>2
    <2>3. QED
      BY <2>1, <2>2 DEF UpdateEventsOK
  <1>6. OffersOK
    BY <1>1, <1>2 DEF OffersOK
  <1>7. QED
    BY <1>3, <1>4, <1>5, <1>6 DEF UpdateInv

-----------------------------------------------------------------------------
(* The backend *)

\* A status is set by who holds the operation, and told to who listens.
LEMMA SetStatusOK ==
  ASSUME UpdateInv, NEW s \in Updates!Statuses, Updates!SetStatus(s),
         UNCHANGED Updates!page,
         s.s = "available" => status.s = "checking",
         pending' \in Version \cup {None}, operation' \in {"none", "check", "install"},
         asked' \subseteq {"check", "install"},
         s.s = "checking" <=> operation' = "check",
         s.s = "downloading" <=> operation' = "install"
  PROVE  UpdateInv'
  <1>1. /\ status' = s /\ changes' = changes + 1
        /\ events' = [w \in View |-> IF Updates!Listens(w) THEN Append(events[w], s)
                        ELSE events[w]]
        /\ UNCHANGED <<view, shown, latest, toasts, notified, mounts>>
    BY DEF Updates!SetStatus, Updates!page
  <1>2. /\ view \in [View -> [at : Places, read : Updates!Statuses]]
        /\ events \in [View -> Seq(Updates!Statuses)] /\ changes \in Nat
    BY DEF UpdateInv, UpdateTypeInv
  <1>3. \A w \in View : events[w] \in Seq(Updates!Statuses)
    BY <1>2
  <1>4. \A w \in View :
          /\ view[w].at = "away" => events'[w] = <<>>
          /\ view[w].at # "away" => events'[w] = Append(events[w], s)
    BY <1>1 DEF Updates!Listens, UpdateInv, UpdateEventsOK
  <1>5. UpdateTypeInv'
    <2>1. ASSUME NEW w \in View PROVE events'[w] \in Seq(Updates!Statuses)
      <3>1. CASE view[w].at = "away"
        <4>1. <<>> \in Seq(Updates!Statuses)
          OBVIOUS
        <4>2. events'[w] = <<>>
          BY <1>4, <3>1
        <4>3. QED
          BY ONLY <4>1, <4>2
      <3>2. CASE view[w].at # "away"
        <4>1. events'[w] = Append(events[w], s) /\ events[w] \in Seq(Updates!Statuses)
          BY <1>3, <1>4, <3>2
        <4>2. Append(events[w], s) \in Seq(Updates!Statuses)
          BY ONLY <4>1, s \in Updates!Statuses, AppendOK
        <4>3. QED
          BY ONLY <4>1, <4>2
      <3>3. QED
        BY <3>1, <3>2
    <2>2. events' \in [View -> Seq(Updates!Statuses)]
      BY <1>1, <2>1
    <2>3. Updates!TypeOK'
      BY <1>1 DEF UpdateInv, UpdateTypeInv, Updates!TypeOK
    <2>4. QED
      BY <1>1, <1>2, <2>2, <2>3 DEF UpdateInv, UpdateTypeInv
  <1>6. OwnerOK'
    BY <1>1 DEF OwnerOK
  <1>7. UpdateEventsOK'
    <2>1. SUFFICES ASSUME NEW w \in View
                   PROVE  /\ view[w].at = "away" => events'[w] = <<>>
                          /\ events'[w] # <<>> => events'[w][Len(events'[w])] = s
                          /\ events'[w] = <<>> => view[w].at = "away"
                          /\ \A i \in 2 .. Len(events'[w]) :
                               events'[w][i].s = "available" =>
                                 events'[w][i - 1].s = "checking"
      BY <1>1 DEF UpdateEventsOK
    <2>2. CASE view[w].at = "away"
      BY <2>2, <1>4
    <2>3. CASE view[w].at # "away"
      <3> DEFINE es == events[w]
      <3>1. es \in Seq(Updates!Statuses) /\ events'[w] = Append(es, s)
        BY <2>3, <1>3, <1>4
      <3>2. /\ es # <<>> => es[Len(es)] = status
            /\ \A i \in 2 .. Len(es) : es[i].s = "available" => es[i - 1].s = "checking"
        BY DEF UpdateInv, UpdateEventsOK
      <3> HIDE DEF es
      <3>3. /\ Append(es, s) # <<>> /\ Len(Append(es, s)) = Len(es) + 1 /\ Len(es) \in Nat
            /\ Append(es, s)[Len(es) + 1] = s
            /\ \A i \in 1 .. Len(es) : Append(es, s)[i] = es[i]
            /\ es = <<>> <=> Len(es) = 0
        BY <3>1, AppendOK
      <3>4. ASSUME NEW i \in 2 .. Len(es) + 1, Append(es, s)[i].s = "available"
            PROVE  Append(es, s)[i - 1].s = "checking"
        <4>1. CASE i = Len(es) + 1
          <5>1. s.s = "available" /\ es # <<>> /\ i - 1 = Len(es)
                  /\ Len(es) \in 1 .. Len(es)
            BY <3>3, <3>4, <4>1
          <5>2. QED
            BY <5>1, <3>2, <3>3
        <4>2. CASE i # Len(es) + 1
          <5>1. i \in 2 .. Len(es) /\ i \in 1 .. Len(es) /\ i - 1 \in 1 .. Len(es)
            BY <3>3, <4>2
          <5>2. QED
            BY <5>1, <3>2, <3>3, <3>4
        <4>3. QED
          BY <4>1, <4>2
      <3>5. QED
        BY <2>3, <3>1, <3>3, <3>4
    <2>4. QED
      BY <2>2, <2>3
  <1>8. OffersOK'
    <2>1. SUFFICES ASSUME "notifier" \in View PROVE OffersOK'
      BY DEF OffersOK
    <2> DEFINE w == "notifier"
    <2>2. w \in View
      BY <2>1
    <2> HIDE DEF w
    <2>3. ASSUME view[w].at \in {"overtaken", "follows"}, events'[w] # <<>>,
                 events'[w][1].s = "available", shown[w].s = "available"
          PROVE  notified \subseteq {Item(shown[w])}
      <3> DEFINE es == events[w]
      <3>1. es \in Seq(Updates!Statuses) /\ events'[w] = Append(es, s)
        BY <2>2, <2>3, <1>3, <1>4
      <3>2. es = <<>> => shown[w] = status
        BY <2>2, <2>3 DEF UpdateInv, UpdateEventsOK
      <3>3. es # <<>> /\ es[1].s = "available" => notified \subseteq {Item(shown[w])}
        BY <2>1, <2>3 DEF w, UpdateInv, OffersOK
      <3> HIDE DEF es
      <3>4. CASE es = <<>>
        <4>1. Append(es, s)[1] = s
          BY <3>4
        <4>2. status.s = "checking"
          BY <4>1, <3>1, <2>3
        <4>3. QED
          BY <3>2, <3>4, <4>2, <2>3
      <3>5. CASE es # <<>>
        <4>1. Append(es, s)[1] = es[1]
          BY <3>1, <3>5
        <4>2. QED
          BY <3>1, <3>3, <3>5, <4>1, <2>3
      <3>6. QED
        BY <3>4, <3>5
    <2>4. /\ view[w].at \in {"away", "listens", "reads"} => toasts = {} /\ notified = {}
          /\ \A x \in toasts : x[1] = "available" => x = Item(shown[w])
          /\ \A x \in toasts : x = <<x[1], x[2]>>
      BY <2>1 DEF w, UpdateInv, OffersOK
    <2>5. QED
      BY <1>1, <2>3, <2>4 DEF OffersOK, w, Item
  <1>9. QED
    BY <1>5, <1>6, <1>7, <1>8 DEF UpdateInv

LEMMA RequestsOK ==
  ASSUME UpdateInv, UNCHANGED <<status, pending, operation, events, changes, Updates!page>>,
         asked' \subseteq {"check", "install"}
  PROVE  UpdateInv'
  <1>1. UNCHANGED <<status, pending, operation, events, changes, view, shown, latest,
                    toasts,
                    notified, mounts>>
    BY DEF Updates!page
  <1>2. UpdateTypeInv' /\ OwnerOK' /\ UpdateEventsOK'
    BY <1>1 DEF UpdateInv, UpdateTypeInv, Updates!TypeOK, OwnerOK, UpdateEventsOK
  <1>3. OffersOK'
    BY <1>1 DEF UpdateInv, OffersOK, Item
  <1>4. QED
    BY <1>2, <1>3 DEF UpdateInv

LEMMA BeginCheckOK ==
  ASSUME UpdateInv, Updates!BeginCheck, asked' \subseteq {"check", "install"}
  PROVE  UpdateInv'
  <1>1. /\ operation' = "check" /\ Updates!SetStatus(Updates!Checking)
        /\ UNCHANGED <<pending, Updates!page>>
    BY DEF Updates!BeginCheck
  <1>2. pending \in Version \cup {None}
    BY DEF UpdateInv, UpdateTypeInv, Updates!TypeOK
  <1>3. QED
    BY <1>1, <1>2, StatusOK, SetStatusOK

LEMMA BackendOK ==
  ASSUME UpdateInv,
         Updates!Periodic \/ Updates!UserCheck \/ Updates!EndCheck \/ Updates!Install
           \/ Updates!Progress \/ Updates!EndInstall \/ Updates!Ask
  PROVE  UpdateInv'
  <1>1. /\ asked \subseteq {"check", "install"} /\ pending \in Version \cup {None}
        /\ status \in Updates!Statuses /\ operation \in {"none", "check", "install"}
        /\ status.s = "checking" <=> operation = "check"
        /\ status.s = "downloading" <=> operation = "install"
    BY DEF UpdateInv, UpdateTypeInv, Updates!TypeOK, OwnerOK
  <1>2. status.v \in Version \cup {None}
    BY <1>1 DEF Updates!Statuses
  <1>3. CASE Updates!Periodic
    BY <1>1, <1>3, BeginCheckOK DEF Updates!Periodic
  <1>4. CASE Updates!UserCheck
    <2>1. asked' \subseteq {"check", "install"}
      BY <1>1, <1>4 DEF Updates!UserCheck
    <2>2. CASE Updates!BeginCheck
      BY <2>1, <2>2, BeginCheckOK
    <2>3. CASE UNCHANGED <<status, pending, operation, events, changes, Updates!page>>
      BY <2>1, <2>3, RequestsOK
    <2>4. QED
      BY <1>4, <2>2, <2>3 DEF Updates!UserCheck
  <1>5. CASE Updates!EndCheck
    <2>1. operation' = "none" /\ status.s = "checking" /\ asked' = asked
          /\ UNCHANGED Updates!page
      BY <1>1, <1>5 DEF Updates!EndCheck
    <2>2. PICK s \in Updates!Statuses : Updates!SetStatus(s)
            /\ pending' \in Version \cup {None}
                                        /\ s.s \notin {"checking", "downloading"}
      <3>1. CASE \E v \in Version : pending' = v
                 /\ Updates!SetStatus(Updates!Status("available", v))
        <4>1. PICK v \in Version : pending' = v
                /\ Updates!SetStatus(Updates!Status("available", v))
          BY <3>1
        <4>2. Updates!Status("available", v) \in Updates!Statuses
                /\ Updates!Status("available", v).s = "available"
          BY StatusOK
        <4>3. QED
          BY <4>1, <4>2
      <3>2. CASE pending' = None /\ Updates!SetStatus(Updates!Status("current", None))
        <4>1. Updates!Status("current", None) \in Updates!Statuses
                /\ Updates!Status("current", None).s = "current"
          BY StatusOK
        <4>2. QED
          BY <3>2, <4>1
      <3>3. CASE Updates!SetStatus(Updates!Status("check failed", None))
                 /\ UNCHANGED pending
        <4>1. /\ Updates!Status("check failed", None) \in Updates!Statuses
              /\ Updates!Status("check failed", None).s = "check failed"
          BY StatusOK
        <4>2. QED
          BY <1>1, <3>3, <4>1
      <3>4. QED
        BY <1>5, <3>1, <3>2, <3>3 DEF Updates!EndCheck
    <2>3. QED
      BY <1>1, <2>1, <2>2, SetStatusOK
  <1>6. CASE Updates!Install
    <2>1. asked' \subseteq {"check", "install"} /\ UNCHANGED <<pending, Updates!page>>
      BY <1>1, <1>6 DEF Updates!Install
    <2>2. CASE operation # "none"
      <3>1. UNCHANGED <<status, operation, events, changes>>
        BY <1>6, <2>2 DEF Updates!Install
      <3>2. QED
        BY <2>1, <3>1, RequestsOK
    <2>3. CASE operation = "none" /\ pending = None
      <3>1. Updates!SetStatus(Updates!Status("install failed", None)) /\ UNCHANGED operation
        BY <1>6, <2>3 DEF Updates!Install
      <3>2. QED
        BY <1>1, <2>1, <2>3, <3>1, StatusOK, SetStatusOK
    <2>4. CASE operation = "none" /\ pending # None
      <3>1. Updates!SetStatus(Updates!Status("downloading", pending))
              /\ operation' = "install"
        BY <1>6, <2>4 DEF Updates!Install
      <3>2. QED
        BY <1>1, <2>1, <3>1, StatusOK, SetStatusOK
    <2>5. QED
      BY <2>2, <2>3, <2>4
  <1>7. CASE Updates!Progress
    <2>1. /\ operation = "install" /\ Updates!SetStatus(status)
          /\ UNCHANGED <<pending, operation, asked, Updates!page>>
      BY <1>7 DEF Updates!Progress
    <2>2. QED
      BY <1>1, <2>1, SetStatusOK
  <1>8. CASE Updates!EndInstall
    <2>1. operation' = "none" /\ UNCHANGED <<pending, asked, Updates!page>>
      BY <1>8 DEF Updates!EndInstall
    <2>2. PICK s \in Updates!Statuses :
            Updates!SetStatus(s) /\ s.s \notin {"checking", "downloading", "available"}
      <3>1. /\ Updates!Status("ready", status.v) \in Updates!Statuses
            /\ Updates!Status("ready", status.v).s = "ready"
            /\ Updates!Status("install failed", None) \in Updates!Statuses
            /\ Updates!Status("install failed", None).s = "install failed"
        BY <1>2, StatusOK
      <3>2. QED
        BY <1>8, <3>1 DEF Updates!EndInstall
    <2>3. QED
      BY <1>1, <2>1, <2>2, SetStatusOK
  <1>9. CASE Updates!Ask
    BY <1>1, <1>9, RequestsOK DEF Updates!Ask
  <1>10. QED
    BY <1>3, <1>4, <1>5, <1>6, <1>7, <1>8, <1>9

-----------------------------------------------------------------------------
(* The views *)

\* What a view applies is what it shows, and what the notifier offers.
LEMMA ApplyOK ==
  ASSUME UpdateTypeInv, OffersOK, NEW w \in View, NEW s \in Updates!Statuses,
         Updates!Apply(w, s),
         w = "notifier" /\ s.s = "available" /\ Item(s) \in notified =>
           \A x \in toasts : x[1] = "available" => x = Item(s)
  PROVE  /\ shown' \in [View -> Updates!Statuses] /\ latest' \in Updates!Statuses
         /\ shown'[w] = s /\ \A v \in View : v # w => shown'[v] = shown[v]
         /\ w # "notifier" => toasts' = toasts /\ notified' = notified
         /\ w = "notifier" =>
              /\ \A x \in toasts' : x[1] = "available" => x = Item(s)
              /\ \A x \in toasts' : x = <<x[1], x[2]>>
              /\ notified' \subseteq notified \cup {Item(s)}
  <1>1. shown \in [View -> Updates!Statuses] /\ shown' = [shown EXCEPT ![w] = s]
          /\ latest' = s
        /\ Updates!Offers(w, s)
    BY DEF UpdateTypeInv, Updates!TypeOK, Updates!Apply
  <1>2. w # "notifier" => toasts' = toasts /\ notified' = notified
    BY <1>1 DEF Updates!Offers
  <1>3. CASE w = "notifier"
    <2> DEFINE ready == {x \in toasts : x[1] = "ready"}
               news == {<<s.s, s.v>>} \ notified
    <2>1. /\ \A x \in toasts : x = <<x[1], x[2]>>
          /\ \A x \in ready : x[1] = "ready" /\ x \in toasts
          /\ \A x \in news : x = <<x[1], x[2]>> /\ x = Item(s)
      BY <1>3 DEF OffersOK, Item
    <2>2. CASE s.s \in {"available", "ready"}
      <3>1. /\ notified' = notified \cup news
            /\ toasts' = (IF news # {} \/ s.s = "ready" THEN ready ELSE toasts) \cup news
        BY <1>1, <1>3, <2>2 DEF Updates!Offers
      <3>2. CASE news # {} \/ s.s = "ready"
        <4>1. toasts' = ready \cup news
          BY <3>1, <3>2
        <4>2. QED
          BY <1>1, <1>3, <2>1, <3>1, <4>1
      <3>3. CASE news = {} /\ s.s = "available"
        <4>1. toasts' = toasts /\ Item(s) \in notified
          BY <3>1, <3>3 DEF Item
        <4>2. QED
          BY <1>1, <1>3, <2>1, <3>1, <3>3, <4>1
      <3>4. QED
        BY <2>2, <3>2, <3>3
    <2>3. CASE s.s \notin {"available", "ready"}
      <3>1. notified' = notified /\ toasts' = ready
        BY <1>1, <1>3, <2>3 DEF Updates!Offers
      <3>2. QED
        BY <1>1, <1>3, <2>1, <3>1
    <2>4. QED
      BY <2>2, <2>3
  <1>4. QED
    BY <1>1, <1>2, <1>3

LEMMA MountOK ==
  ASSUME UpdateInv, NEW w \in View, Updates!Mount(w)
  PROVE  UpdateInv'
  <1>1. /\ view[w].at = "away" /\ mounts' = mounts + 1
        /\ view' = [view EXCEPT ![w].at = "listens"]
        /\ shown' = [shown EXCEPT ![w] = latest]
        /\ UNCHANGED <<status, pending, operation, asked, changes, latest, events, toasts,
                       notified>>
    BY DEF Updates!Mount, Updates!backend
  <1>2. /\ view \in [View -> [at : Places, read : Updates!Statuses]]
        /\ latest \in Updates!Statuses
        /\ shown \in [View -> Updates!Statuses] /\ mounts \in Nat
    BY DEF UpdateInv, UpdateTypeInv, Updates!TypeOK
  <1>3. /\ view' \in [View -> [at : Places, read : Updates!Statuses]]
        /\ view'[w].at = "listens"
        /\ \A v \in View : v # w => view'[v] = view[v] /\ shown'[v] = shown[v]
        /\ shown' \in [View -> Updates!Statuses]
    BY <1>1, <1>2 DEF Places
  <1>4. events[w] = <<>>
    BY <1>1 DEF UpdateInv, UpdateEventsOK
  <1>5. UpdateTypeInv'
    BY <1>1, <1>2, <1>3 DEF UpdateInv, UpdateTypeInv, Updates!TypeOK
  <1>6. OwnerOK'
    BY <1>1 DEF UpdateInv, OwnerOK
  <1>7. UpdateEventsOK'
    <2>1. SUFFICES ASSUME NEW v \in View
                   PROVE  /\ view'[v].at = "away" => events[v] = <<>>
                          /\ events[v] # <<>> => events[v][Len(events[v])] = status
                          /\ events[v] = <<>> /\ view'[v].at = "reads" =>
                               view'[v].read = status
                          /\ events[v] = <<>> /\ view'[v].at \in {"overtaken", "follows"} =>
                               shown'[v] = status
                          /\ \A i \in 2 .. Len(events[v]) :
                               events[v][i].s = "available" =>
                                 events[v][i - 1].s = "checking"
      BY <1>1 DEF UpdateEventsOK
    <2>2. QED
      BY <1>3, <1>4 DEF UpdateInv, UpdateEventsOK
  <1>8. OffersOK'
    <2>1. CASE w = "notifier"
      BY <2>1, <1>1, <1>3 DEF UpdateInv, OffersOK
    <2>2. CASE w # "notifier"
      BY <2>2, <1>1, <1>3 DEF UpdateInv, OffersOK, Item
    <2>3. QED
      BY <2>1, <2>2
  <1>9. QED
    BY <1>5, <1>6, <1>7, <1>8 DEF UpdateInv

LEMMA UnmountOK ==
  ASSUME UpdateInv, NEW w \in View, Updates!Unmount(w)
  PROVE  UpdateInv'
  <1>1. /\ w # "notifier" /\ view' = [view EXCEPT ![w] = Updates!Away]
        /\ events' = [events EXCEPT ![w] = <<>>]
        /\ UNCHANGED <<status, pending, operation, asked, changes, shown, latest, toasts,
                       notified, mounts>>
    BY DEF Updates!Unmount, Updates!backend
  <1>2. /\ view \in [View -> [at : Places, read : Updates!Statuses]]
        /\ events \in [View -> Seq(Updates!Statuses)]
        /\ Updates!Away \in [at : Places, read : Updates!Statuses]
        /\ Updates!Away.at = "away"
    BY StatusOK DEF UpdateInv, UpdateTypeInv, Updates!Away, Places
  <1>3. /\ view' \in [View -> [at : Places, read : Updates!Statuses]]
        /\ view'[w].at = "away"
        /\ events' \in [View -> Seq(Updates!Statuses)] /\ events'[w] = <<>>
        /\ \A v \in View : v # w => view'[v] = view[v] /\ events'[v] = events[v]
    BY <1>1, <1>2
  <1>4. UpdateTypeInv'
    BY <1>1, <1>3 DEF UpdateInv, UpdateTypeInv, Updates!TypeOK
  <1>5. OwnerOK'
    BY <1>1 DEF UpdateInv, OwnerOK
  <1>6. UpdateEventsOK'
    BY <1>1, <1>3 DEF UpdateInv, UpdateEventsOK
  <1>7. OffersOK'
    BY <1>1, <1>3 DEF UpdateInv, OffersOK, Item
  <1>8. QED
    BY <1>4, <1>5, <1>6, <1>7 DEF UpdateInv

LEMMA ReadOK ==
  ASSUME UpdateInv, NEW w \in View, Updates!Read(w)
  PROVE  UpdateInv'
  <1>1. /\ view[w].at = "listens"
        /\ view' = [view EXCEPT ![w] = [at |-> "reads", read |-> status]]
        /\ UNCHANGED <<status, pending, operation, asked, changes, shown, latest, events,
                       toasts, notified, mounts>>
    BY DEF Updates!Read, Updates!backend
  <1>2. view \in [View -> [at : Places, read : Updates!Statuses]]
          /\ status \in Updates!Statuses
    BY DEF UpdateInv, UpdateTypeInv, Updates!TypeOK
  <1>3. /\ view' \in [View -> [at : Places, read : Updates!Statuses]]
        /\ view'[w].at = "reads" /\ view'[w].read = status
        /\ \A v \in View : v # w => view'[v] = view[v]
    BY <1>1, <1>2 DEF Places
  <1>4. UpdateTypeInv'
    BY <1>1, <1>3 DEF UpdateInv, UpdateTypeInv, Updates!TypeOK
  <1>5. OwnerOK'
    BY <1>1 DEF UpdateInv, OwnerOK
  <1>6. UpdateEventsOK'
    BY <1>1, <1>3 DEF UpdateInv, UpdateEventsOK
  <1>7. OffersOK'
    BY <1>1, <1>3 DEF UpdateInv, OffersOK, Item
  <1>8. QED
    BY <1>4, <1>5, <1>6, <1>7 DEF UpdateInv

LEMMA HearReadOK ==
  ASSUME UpdateInv, NEW w \in View, Updates!HearRead(w)
  PROVE  UpdateInv'
  <1>1. /\ view[w].at \in {"reads", "overtaken"}
        /\ view' = [view EXCEPT ![w].at = "follows"]
        /\ IF view[w].at = "reads" THEN Updates!Apply(w, view[w].read)
           ELSE UNCHANGED <<shown, latest, toasts, notified>>
        /\ UNCHANGED <<status, pending, operation, asked, changes, events, mounts>>
    BY DEF Updates!HearRead, Updates!IsNews, Updates!backend
  <1>2. view \in [View -> [at : Places, read : Updates!Statuses]]
          /\ view[w].read \in Updates!Statuses
        /\ UpdateTypeInv /\ OffersOK
    BY DEF UpdateInv, UpdateTypeInv
  <1>3. /\ view' \in [View -> [at : Places, read : Updates!Statuses]]
        /\ view'[w].at = "follows"
        /\ \A v \in View : v # w => view'[v] = view[v]
    BY <1>1, <1>2 DEF Places
  <1>4. OwnerOK'
    BY <1>1 DEF UpdateInv, OwnerOK
  <1>5. CASE view[w].at = "overtaken"
    <2>1. UNCHANGED <<shown, latest, toasts, notified>>
      BY <1>1, <1>5
    <2>2. UpdateTypeInv'
      BY <1>1, <1>3, <2>1 DEF UpdateInv, UpdateTypeInv, Updates!TypeOK
    <2>3. UpdateEventsOK'
      BY <1>1, <1>3, <1>5, <2>1 DEF UpdateInv, UpdateEventsOK
    <2>4. OffersOK'
      BY <1>1, <1>3, <1>5, <2>1 DEF UpdateInv, OffersOK, Item
    <2>5. QED
      BY <1>4, <2>2, <2>3, <2>4 DEF UpdateInv
  <1>6. CASE view[w].at = "reads"
    <2>0. Updates!Apply(w, view[w].read) /\ (w = "notifier" => toasts = {} /\ notified = {})
      BY <1>1, <1>6 DEF UpdateInv, OffersOK
    <2>1. /\ shown' \in [View -> Updates!Statuses] /\ latest' \in Updates!Statuses
          /\ shown'[w] = view[w].read /\ \A v \in View : v # w => shown'[v] = shown[v]
          /\ w # "notifier" => toasts' = toasts /\ notified' = notified
          /\ w = "notifier" =>
               /\ \A x \in toasts' : x[1] = "available" => x = Item(view[w].read)
               /\ \A x \in toasts' : x = <<x[1], x[2]>>
               /\ notified' \subseteq notified \cup {Item(view[w].read)}
      BY <2>0, <1>2, ApplyOK
    <2>2. UpdateTypeInv'
      BY <1>1, <1>3, <2>1 DEF UpdateInv, UpdateTypeInv, Updates!TypeOK
    <2>3. UpdateEventsOK'
      BY <1>1, <1>3, <1>6, <2>1 DEF UpdateInv, UpdateEventsOK
    <2>4. OffersOK'
      <3>1. CASE w = "notifier"
        <4>1. notified' \subseteq {Item(shown'[w])}
          BY <2>0, <2>1, <3>1
        <4>2. QED
          BY <1>3, <2>1, <3>1, <4>1 DEF OffersOK, Item
      <3>2. CASE w # "notifier"
        BY <1>1, <1>3, <2>1, <3>2 DEF UpdateInv, OffersOK, Item
      <3>3. QED
        BY <3>1, <3>2
    <2>5. QED
      BY <1>4, <2>2, <2>3, <2>4 DEF UpdateInv
  <1>7. QED
    BY <1>1, <1>5, <1>6

LEMMA UpdateHearOK ==
  ASSUME UpdateInv, NEW w \in View, Updates!Hear(w)
  PROVE  UpdateInv'
  <1> DEFINE es == events[w]
             s == Head(events[w])
  <1>1. /\ es # <<>> /\ events' = [events EXCEPT ![w] = Tail(@)]
        /\ view' = [view EXCEPT ![w].at = IF @ = "follows" THEN @ ELSE "overtaken"]
        /\ Updates!Apply(w, s)
        /\ UNCHANGED <<status, pending, operation, asked, changes, mounts>>
    BY DEF Updates!Hear, Updates!backend
  <1>2. /\ view \in [View -> [at : Places, read : Updates!Statuses]]
        /\ events \in [View -> Seq(Updates!Statuses)] /\ es \in Seq(Updates!Statuses)
        /\ UpdateTypeInv /\ OffersOK
    BY DEF UpdateInv, UpdateTypeInv
  <1>3. /\ view' \in [View -> [at : Places, read : Updates!Statuses]]
        /\ view'[w].at \in {"overtaken", "follows"}
        /\ \A v \in View : v # w => view'[v] = view[v] /\ events'[v] = events[v]
        /\ events'[w] = Tail(es)
        /\ DOMAIN events' = View /\ events' = [v \in View |-> events'[v]]
    BY <1>1, <1>2 DEF Places
  <1>4. /\ es # <<>> => es[Len(es)] = status
        /\ \A i \in 2 .. Len(es) : es[i].s = "available" => es[i - 1].s = "checking"
        /\ view[w].at # "away"
    BY <1>1 DEF UpdateInv, UpdateEventsOK
  <1> HIDE DEF es
  <1>5. /\ Tail(es) \in Seq(Updates!Statuses) /\ Head(es) = es[1]
        /\ Head(es) \in Updates!Statuses
        /\ Len(es) \in Nat /\ Len(es) >= 1 /\ Len(Tail(es)) = Len(es) - 1
        /\ Tail(es) = <<>> <=> Len(es) = 1
        /\ \A i \in 1 .. Len(es) - 1 : Tail(es)[i] = es[i + 1]
    BY <1>1, <1>2, TailOK
  <1>6. s = es[1] /\ s \in Updates!Statuses
    BY <1>5 DEF es
  <1> HIDE DEF s
  <1>7. w = "notifier" /\ s.s = "available" /\ Item(s) \in notified =>
          \A x \in toasts : x[1] = "available" => x = Item(s)
    <2>1. SUFFICES ASSUME w = "notifier", s.s = "available", Item(s) \in notified,
                          NEW x \in toasts, x[1] = "available"
                   PROVE  x = Item(s)
      OBVIOUS
    <2>2. view[w].at \in {"overtaken", "follows"} /\ x = Item(shown[w])
            /\ x = <<x[1], x[2]>>
      BY <2>1, <1>2, <1>4 DEF OffersOK, Places
    <2>3. shown[w].s = "available"
      BY <2>1, <2>2 DEF Item
    <2>4. notified \subseteq {Item(shown[w])}
      BY <2>1, <2>2, <2>3, <1>1, <1>6 DEF UpdateInv, OffersOK, es
    <2>5. QED
      BY <2>1, <2>2, <2>4
  <1>8. /\ shown' \in [View -> Updates!Statuses] /\ latest' \in Updates!Statuses
        /\ shown'[w] = s /\ \A v \in View : v # w => shown'[v] = shown[v]
        /\ w # "notifier" => toasts' = toasts /\ notified' = notified
        /\ w = "notifier" =>
             /\ \A x \in toasts' : x[1] = "available" => x = Item(s)
             /\ \A x \in toasts' : x = <<x[1], x[2]>>
             /\ notified' \subseteq notified \cup {Item(s)}
    BY <1>1, <1>2, <1>6, <1>7, ApplyOK
  <1>9. UpdateTypeInv'
    <2>1. events' \in [View -> Seq(Updates!Statuses)]
      <3>1. \A v \in View : events'[v] \in Seq(Updates!Statuses)
        BY <1>2, <1>3, <1>5
      <3>2. QED
        BY <1>3, <3>1
    <2>2. Updates!TypeOK'
      BY <1>1, <1>8 DEF UpdateInv, UpdateTypeInv, Updates!TypeOK
    <2>3. QED
      BY <1>1, <1>3, <2>1, <2>2 DEF UpdateInv, UpdateTypeInv
  <1>10. OwnerOK'
    BY <1>1 DEF UpdateInv, OwnerOK
  <1>11. UpdateEventsOK'
    <2>1. Tail(es) # <<>> => Tail(es)[Len(Tail(es))] = status
      <3>1. SUFFICES ASSUME Tail(es) # <<>> PROVE Tail(es)[Len(Tail(es))] = status
        OBVIOUS
      <3>2. Len(es) - 1 \in 1 .. Len(es) - 1 /\ Len(es) - 1 + 1 = Len(es)
        BY <1>5, <3>1
      <3>3. QED
        BY <1>1, <1>4, <1>5, <3>2
    <2>2. Tail(es) = <<>> => s = status
      BY <1>1, <1>4, <1>5, <1>6
    <2>3. ASSUME NEW i \in 2 .. Len(Tail(es)), Tail(es)[i].s = "available"
          PROVE  Tail(es)[i - 1].s = "checking"
      <3>1. i \in 1 .. Len(es) - 1 /\ i - 1 \in 1 .. Len(es) - 1 /\ i + 1 \in 2 .. Len(es)
            /\ i + 1 - 1 = i /\ i - 1 + 1 = i
        BY <1>5, <2>3
      <3>2. QED
        BY <1>4, <1>5, <2>3, <3>1
    <2>4. SUFFICES ASSUME NEW v \in View
                   PROVE  /\ view'[v].at = "away" => events'[v] = <<>>
                          /\ events'[v] # <<>> => events'[v][Len(events'[v])] = status
                          /\ events'[v] = <<>> /\ view'[v].at = "reads" =>
                               view'[v].read = status
                          /\ events'[v] = <<>> /\ view'[v].at \in {"overtaken",
                                                                   "follows"} =>
                               shown'[v] = status
                          /\ \A i \in 2 .. Len(events'[v]) :
                               events'[v][i].s = "available" =>
                                 events'[v][i - 1].s = "checking"
      BY <1>1 DEF UpdateEventsOK
    <2>5. CASE v = w
      BY <2>5, <2>1, <2>2, <2>3, <1>3, <1>8
    <2>6. CASE v # w
      BY <2>6, <1>3, <1>8 DEF UpdateInv, UpdateEventsOK
    <2>7. QED
      BY <2>5, <2>6
  <1>12. OffersOK'
    <2>1. CASE w = "notifier"
      <3>1. ASSUME Tail(es) # <<>>, Tail(es)[1].s = "available"
            PROVE  s.s # "available"
        <4>1. 1 \in 1 .. Len(es) - 1 /\ 2 \in 2 .. Len(es) /\ 1 + 1 = 2 /\ 2 - 1 = 1
          BY <1>5, <3>1
        <4>2. es[2].s = "available" /\ es[1].s = "checking"
          BY <1>4, <1>5, <3>1, <4>1
        <4>3. QED
          BY <1>6, <4>2
      <3>2. QED
        BY <2>1, <3>1, <1>3, <1>8 DEF OffersOK, Item
    <2>2. CASE w # "notifier"
      BY <1>1, <1>3, <1>8, <2>2 DEF UpdateInv, OffersOK, Item
    <2>3. QED
      BY <2>1, <2>2
  <1>13. QED
    BY <1>9, <1>10, <1>11, <1>12 DEF UpdateInv

-----------------------------------------------------------------------------
LEMMA UpdateNextOK ==
  ASSUME UpdateInv, [Updates!Next]_Updates!vars
  PROVE  UpdateInv'
  <1>1. CASE Updates!Periodic \/ Updates!UserCheck \/ Updates!EndCheck \/ Updates!Install
               \/ Updates!Progress \/ Updates!EndInstall \/ Updates!Ask
    BY <1>1, BackendOK
  <1>2. CASE \E w \in View : Updates!Mount(w) \/ Updates!Unmount(w) \/ Updates!Read(w)
               \/ Updates!Hear(w) \/ Updates!HearRead(w)
    BY <1>2, MountOK, UnmountOK, ReadOK, UpdateHearOK, HearReadOK
  <1>3. CASE UNCHANGED Updates!vars
    <2>1. UNCHANGED <<status, pending, operation, events, changes, Updates!page>>
          /\ asked' = asked
      BY <1>3 DEF Updates!vars, Updates!page
    <2>2. QED
      BY <2>1, RequestsOK DEF UpdateInv, UpdateTypeInv, Updates!TypeOK
  <1>4. QED
    BY <1>1, <1>2, <1>3 DEF Updates!Next

LEMMA UpdateInvSays ==
  ASSUME UpdateInv
  PROVE  Updates!TypeOK /\ Updates!BusyHasOwner /\ Updates!ViewIsTrue
  <1>1. Updates!TypeOK /\ Updates!BusyHasOwner
    BY DEF UpdateInv, UpdateTypeInv, OwnerOK, Updates!BusyHasOwner
  <1>2. Updates!ViewIsTrue
    <2>1. SUFFICES ASSUME NEW w \in View, view[w].at = "follows", events[w] = <<>>
                   PROVE  /\ shown[w] = status
                          /\ w = "notifier" => \A x \in toasts :
                               x[1] = "available" => status = Updates!Status(x[1], x[2])
      BY DEF Updates!ViewIsTrue
    <2>2. shown[w] = status
      BY <2>1 DEF UpdateInv, UpdateEventsOK
    <2>3. ASSUME w = "notifier", NEW x \in toasts, x[1] = "available"
          PROVE  status = Updates!Status(x[1], x[2])
      <3>1. x = <<status.s, status.v>>
        BY <2>2, <2>3 DEF UpdateInv, OffersOK, Item
      <3>2. status \in Updates!Statuses
        BY DEF UpdateInv, UpdateTypeInv, Updates!TypeOK
      <3>3. status = [s |-> status.s, v |-> status.v]
        BY <3>2 DEF Updates!Statuses
      <3>4. QED
        BY <3>1, <3>3 DEF Updates!Status
    <2>4. QED
      BY <2>2, <2>3
  <1>3. QED
    BY <1>1, <1>2

-----------------------------------------------------------------------------

Pair == Nat \X Nat
Piece == Nat \X Nat \X Nat

ChatTypeInv ==
  /\ Chat!TypeOK
  /\ got \in [Chat!Blocks -> Nat]
  /\ item \in Seq(Piece)
  /\ pieces \in [Chat!AttemptIds -> Seq(Piece)]
  /\ buffer \in [Chat!AttemptIds -> Seq(Piece)]

(* How far a command is, and where the page waits for it.                  *)
CallOK ==
  /\ chat = "none" \/ chat = "sent" => got = Chat!Nothing
  /\ chat = "answer" =>
       Chat!Finished = "answer" /\ (cut <=> \E i \in Chat!Blocks : got[i] < Chat!Whole(i))
  /\ chatAt = "called" => chat # "none"
  /\ chatAt = "waiting" => chat = "none" /\ item = <<>>
  /\ chatAt = "gone" => item = <<>>
  /\ chatAt = "ended" => chat \notin {"sent", "open"}

(* Blocks of Anthropic come one after another.                             *)
OrderOK ==
  reply.protocol = "anthropic" =>
    \A i, j \in Chat!Blocks : i < j /\ got[j] > 0 => got[i] = Chat!Whole(i)

(* Nothing is on its way of an attempt that nobody began.                  *)
FreshOK ==
  \A a \in Chat!AttemptIds :
    a > Chat!Attempt \/ (a = Chat!Attempt /\ chat \in {"none", "sent"}) =>
      pieces[a] = <<>> /\ buffer[a] = <<>>

(* What the page shows, holds and has to come is what was received.        *)
LineOK ==
  chatAt = "called" /\ ~stopRequested =>
        (item \o buffer[Chat!Attempt]) \o pieces[Chat!Attempt] =
          Chat!TextOf(Chat!Attempt, got)

ChatKeptOK ==
  /\ chatAt \in {"called", "waiting"} => kept = None
  /\ chatAt = "ended" =>
           \/ kept = None /\ item = <<>>
           \/ kept = [text |-> item, calls |-> <<>>] /\ ~(chat = "answer" /\ ~stopRequested)
           \/ kept = Chat!Answer /\ item = Chat!Answer.text /\ chat = "answer"

ChatInv ==
  ChatTypeInv /\ CallOK /\ OrderOK /\ FreshOK /\ LineOK /\ ChatKeptOK /\ Chat!ShownInOrder
    /\ Chat!RunningIsRegistered
-----------------------------------------------------------------------------
(* Sets of pairs in their order *)

LEMMA RankOK ==
  ASSUME NEW S \in SUBSET Pair, IsFiniteSet(S)
  PROVE  /\ Cardinality(S) \in Nat
         /\ \A x \in S : Cardinality(Chat!Upto(S, x)) \in 1 .. Cardinality(S)
         /\ \A x, y \in S :
              Cardinality(Chat!Upto(S, x)) = Cardinality(Chat!Upto(S, y)) => x = y
  <1>1. Cardinality(S) \in Nat
    BY FS_CardinalityType
  <1>2. \A x \in S : /\ Chat!Upto(S, x) \subseteq S /\ x \in Chat!Upto(S, x)
                     /\ x[1] \in Nat /\ x[2] \in Nat /\ x = <<x[1], x[2]>>
    BY DEF Chat!Upto, Pair
  <1>3. ASSUME NEW x \in S
        PROVE  /\ IsFiniteSet(Chat!Upto(S, x)) /\ Cardinality(Chat!Upto(S, x)) \in Nat
               /\ Cardinality(Chat!Upto(S, x)) \in 1 .. Cardinality(S)
    <2>1. /\ IsFiniteSet(Chat!Upto(S, x)) /\ Cardinality(Chat!Upto(S, x)) <= Cardinality(S)
      BY <1>2, FS_Subset
    <2>2. Cardinality(Chat!Upto(S, x)) \in Nat
      BY <2>1, FS_CardinalityType
    <2>3. Cardinality(Chat!Upto(S, x)) # 0
      BY <1>2, <2>1, FS_EmptySet
    <2>4. QED
      BY <1>1, <2>1, <2>2, <2>3
  <1>4. ASSUME NEW x \in S, NEW y \in S,
               y[1] < x[1] \/ (y[1] = x[1] /\ y[2] < x[2])
        PROVE  Cardinality(Chat!Upto(S, y)) # Cardinality(Chat!Upto(S, x))
    <2>1. x \notin Chat!Upto(S, y)
      BY <1>2, <1>4 DEF Chat!Upto
    <2>2. ASSUME NEW z \in Chat!Upto(S, y) PROVE z \in Chat!Upto(S, x)
      <3>1. z \in S /\ z[1] \in Nat /\ z[2] \in Nat
        BY <1>2
      <3>2. z[1] < y[1] \/ (z[1] = y[1] /\ z[2] <= y[2])
        BY DEF Chat!Upto
      <3>3. QED
        BY <1>2, <1>4, <3>1, <3>2 DEF Chat!Upto
    <2>3. Chat!Upto(S, y) \in SUBSET Chat!Upto(S, x) /\ Chat!Upto(S, y) # Chat!Upto(S, x)
      BY <1>2, <2>1, <2>2
    <2>4. QED
      BY <1>3, <2>3, FS_Subset
  <1>5. ASSUME NEW x \in S, NEW y \in S, x # y
        PROVE  Cardinality(Chat!Upto(S, x)) # Cardinality(Chat!Upto(S, y))
    <2>1. /\ x[1] \in Nat /\ x[2] \in Nat /\ y[1] \in Nat /\ y[2] \in Nat
          /\ x[1] # y[1] \/ x[2] # y[2]
      BY <1>2, <1>5
    <2>2. \/ y[1] < x[1] \/ (y[1] = x[1] /\ y[2] < x[2])
          \/ x[1] < y[1] \/ (x[1] = y[1] /\ x[2] < y[2])
      BY <2>1
    <2>3. QED
      BY <1>4, <2>2
  <1>6. QED
    BY <1>1, <1>3, <1>5

(* The operators on sets are those of this module.                         *)
LEMMA SameInChat ==
  /\ \A S : Chat!IsFiniteSet(S) <=> IsFiniteSet(S)
  /\ \A S : Chat!Cardinality(S) = Cardinality(S)
  <1>1. \A S : Chat!IsFiniteSet(S) <=> IsFiniteSet(S)
    BY DEF Chat!IsFiniteSet, IsFiniteSet
  <1>2. \A S : Chat!Cardinality(S) = Cardinality(S)
    BY DEF Chat!Cardinality, Cardinality
  <1>3. QED
    BY <1>1, <1>2

\* Every place of the order is taken by one element.
LEMMA InOrderOK ==
  ASSUME NEW S \in SUBSET Pair, IsFiniteSet(S)
  PROVE  /\ Chat!InOrder(S) \in Seq(S) /\ Len(Chat!InOrder(S)) = Cardinality(S)
         /\ Cardinality(S) \in Nat
         /\ DOMAIN Chat!InOrder(S) = 1 .. Cardinality(S)
         /\ \A n \in 1 .. Cardinality(S) :
              /\ Chat!InOrder(S)[n] \in S
              /\ Cardinality(Chat!Upto(S, Chat!InOrder(S)[n])) = n
         /\ \A x \in S : \E n \in 1 .. Cardinality(S) : Chat!InOrder(S)[n] = x
         /\ \A x \in S, n \in 1 .. Cardinality(S) :
              Cardinality(Chat!Upto(S, x)) = n => Chat!InOrder(S)[n] = x
  <1> DEFINE C == Cardinality(S)
             rank == [x \in S |-> Cardinality(Chat!Upto(S, x))]
  <1>1. /\ C \in Nat
        /\ \A x \in S : Cardinality(Chat!Upto(S, x)) \in 1 .. C
        /\ \A x, y \in S :
             Cardinality(Chat!Upto(S, x)) = Cardinality(Chat!Upto(S, y)) => x = y
    BY RankOK
  <1>2. rank \in [S -> 1 .. C] /\ \A x, y \in S : rank[x] = rank[y] => x = y
    BY <1>1
  <1>3. rank \in Injection(S, 1 .. C)
    BY <1>2 DEF Injection, IsInjective
  <1>4. IsFiniteSet(1 .. C) /\ Cardinality(1 .. C) = C
    <2>1. 1 \in Int /\ C \in Int
      BY <1>1
    <2>2. /\ IsFiniteSet(1 .. C)
          /\ Cardinality(1 .. C) = IF 1 > C THEN 0 ELSE C - 1 + 1
      BY <2>1, FS_Interval
    <2>3. QED
      BY <1>1, <2>2
  <1>5. rank \in Surjection(S, 1 .. C)
    BY <1>3, <1>4, FS_Injection
  <1>6. \A n \in 1 .. C : \E x \in S : Cardinality(Chat!Upto(S, x)) = n
    BY <1>5 DEF Surjection
  <1>7. \A n \in 1 .. C :
          /\ Chat!InOrder(S)[n] \in S
          /\ Cardinality(Chat!Upto(S, Chat!InOrder(S)[n])) = n
    BY <1>6, SameInChat DEF Chat!InOrder
  <1>8. ASSUME NEW x \in S, NEW n \in 1 .. C, Cardinality(Chat!Upto(S, x)) = n
        PROVE  Chat!InOrder(S)[n] = x
    BY <1>1, <1>7, <1>8
  <1>9. \A x \in S : \E n \in 1 .. C : Chat!InOrder(S)[n] = x
    BY <1>1, <1>8
  <1>10. DOMAIN Chat!InOrder(S) = 1 .. C /\ Chat!InOrder(S) \in [1 .. C -> S]
    BY <1>7, SameInChat DEF Chat!InOrder
  <1>11. Chat!InOrder(S) \in Seq(S) /\ Len(Chat!InOrder(S)) = C
    BY <1>1, <1>10
  <1>12. QED
    BY <1>1, <1>7, <1>8, <1>9, <1>10, <1>11

\* What nothing comes before is the beginning of it.
LEMMA OrderBegins ==
  ASSUME NEW T \in SUBSET Pair, IsFiniteSet(T), NEW S \in SUBSET T,
         \A x \in S, y \in T :
           y[1] < x[1] \/ (y[1] = x[1] /\ y[2] <= x[2]) => y \in S
  PROVE  /\ IsFiniteSet(S) /\ Cardinality(S) <= Cardinality(T)
         /\ \A n \in 1 .. Cardinality(S) : Chat!InOrder(T)[n] = Chat!InOrder(S)[n]
  <1>1. /\ IsFiniteSet(S) /\ Cardinality(S) <= Cardinality(T) /\ S \in SUBSET Pair
        /\ Cardinality(S) \in Nat /\ Cardinality(T) \in Nat
    BY FS_Subset, FS_CardinalityType
  <1>2. \A x \in S : Chat!Upto(T, x) = Chat!Upto(S, x)
    BY DEF Chat!Upto
  <1>3. ASSUME NEW n \in 1 .. Cardinality(S)
        PROVE  Chat!InOrder(T)[n] = Chat!InOrder(S)[n]
    <2> DEFINE x == Chat!InOrder(S)[n]
    <2>1. x \in S /\ Cardinality(Chat!Upto(S, x)) = n
      BY <1>1, InOrderOK
    <2>2. x \in T /\ Cardinality(Chat!Upto(T, x)) = n /\ n \in 1 .. Cardinality(T)
      BY <1>1, <1>2, <2>1
    <2> HIDE DEF x
    <2>3. Chat!InOrder(T)[n] = x
      BY <2>2, InOrderOK
    <2>4. QED
      BY <2>3 DEF x
  <1>4. QED
    BY <1>1, <1>3

\* What comes after everything is the end of it.
LEMMA OrderEnds ==
  ASSUME NEW S \in SUBSET Pair, IsFiniteSet(S), NEW p \in Pair, p \notin S,
         \A y \in S : y[1] < p[1] \/ (y[1] = p[1] /\ y[2] <= p[2])
  PROVE  /\ IsFiniteSet(S \cup {p}) /\ Cardinality(S \cup {p}) = Cardinality(S) + 1
         /\ \A n \in 1 .. Cardinality(S) : Chat!InOrder(S \cup {p})[n] = Chat!InOrder(S)[n]
         /\ Chat!InOrder(S \cup {p})[Cardinality(S) + 1] = p
  <1> DEFINE T == S \cup {p}
  <1>1. /\ IsFiniteSet(T) /\ Cardinality(T) = Cardinality(S) + 1
        /\ T \in SUBSET Pair /\ S \in SUBSET T /\ Cardinality(S) \in Nat
    BY FS_AddElement, FS_CardinalityType
  <1>2. \A x \in S : x[1] \in Nat /\ x[2] \in Nat /\ x = <<x[1], x[2]>>
    BY DEF Pair
  <1>3. p[1] \in Nat /\ p[2] \in Nat /\ p = <<p[1], p[2]>>
    BY DEF Pair
  <1>4. ASSUME NEW x \in S, NEW y \in T, y[1] < x[1] \/ (y[1] = x[1] /\ y[2] <= x[2])
        PROVE  y \in S
    <2>1. SUFFICES ASSUME y = p PROVE FALSE
      OBVIOUS
    <2>2. /\ p[1] < x[1] \/ (p[1] = x[1] /\ p[2] <= x[2])
          /\ x[1] < p[1] \/ (x[1] = p[1] /\ x[2] <= p[2])
      BY <1>4, <2>1
    <2>3. x[1] = p[1] /\ x[2] = p[2]
      BY <1>2, <1>3, <2>2
    <2>4. x = p
      BY <1>2, <1>3, <2>3
    <2>5. QED
      BY <2>4
  <1>5. Chat!Upto(T, p) = T
    BY <1>3 DEF Chat!Upto
  <1>6. p \in T /\ Cardinality(S) + 1 \in 1 .. Cardinality(T)
    BY <1>1
  <1> HIDE DEF T
  <1>7. \A n \in 1 .. Cardinality(S) : Chat!InOrder(T)[n] = Chat!InOrder(S)[n]
    BY <1>1, <1>4, OrderBegins
  <1>8. Chat!InOrder(T)[Cardinality(S) + 1] = p
    BY <1>1, <1>5, <1>6, InOrderOK
  <1>9. QED
    BY <1>1, <1>7, <1>8 DEF T
-----------------------------------------------------------------------------
(* The text of a reply *)

LEMMA BlocksOK ==
  ASSUME Chat!ChatRequestsAssumption, reply \in Replies
  PROVE  /\ Chat!Blocks = 1 .. Len(reply.blocks) /\ Len(reply.blocks) \in Nat
         /\ IsFiniteSet(Chat!Blocks) /\ Chat!Blocks \subseteq Nat \ {0}
         /\ \A i \in Chat!Blocks : /\ reply.blocks[i] \in Chat!Block
                                   /\ reply.blocks[i].pieces \in Nat
                                   /\ Chat!Whole(i) \in Nat /\ Chat!Whole(i) >= 1
         /\ reply.protocol \in {"anthropic", "openai"}
         /\ reply.protocol = "openai" =>
              \A i \in Chat!Blocks : reply.blocks[i].kind = "text" => i = 1
         /\ Chat!Nothing \in [Chat!Blocks -> Nat]
         /\ [i \in Chat!Blocks |-> Chat!Whole(i)] \in [Chat!Blocks -> Nat]
  <1>1. /\ reply.protocol \in {"anthropic", "openai"} /\ reply.blocks \in Seq(Chat!Block)
        /\ reply.protocol = "openai" =>
             \A i \in DOMAIN reply.blocks : reply.blocks[i].kind = "text" => i = 1
    BY DEF Chat!ChatRequestsAssumption
  <1>2. Chat!Blocks = 1 .. Len(reply.blocks) /\ Len(reply.blocks) \in Nat
    BY <1>1 DEF Chat!Blocks
  <1>3. IsFiniteSet(Chat!Blocks)
    BY <1>2, FS_Interval
  <1>4. ASSUME NEW i \in Chat!Blocks
        PROVE  /\ reply.blocks[i] \in Chat!Block /\ reply.blocks[i].pieces \in Nat
               /\ Chat!Whole(i) \in Nat /\ Chat!Whole(i) >= 1
    <2>1. reply.blocks[i] \in Chat!Block
      BY <1>1, <1>2
    <2>2. reply.blocks[i].pieces \in Nat
      BY <2>1 DEF Chat!Block
    <2>3. QED
      BY <2>1, <2>2 DEF Chat!Whole
  <1>5. Chat!Nothing \in [Chat!Blocks -> Nat]
    BY DEF Chat!Nothing
  <1>6. [i \in Chat!Blocks |-> Chat!Whole(i)] \in [Chat!Blocks -> Nat]
    BY <1>4
  <1>7. QED
    BY <1>1, <1>2, <1>3, <1>4, <1>5, <1>6 DEF Chat!Blocks

LEMMA PiecesOK ==
  ASSUME Chat!ChatRequestsAssumption, reply \in Replies, NEW have \in [Chat!Blocks -> Nat]
  PROVE  /\ Chat!Pieces(have) \in SUBSET Pair /\ IsFiniteSet(Chat!Pieces(have))
         /\ \A x \in Chat!Pieces(have) :
              /\ x[1] \in Chat!Blocks /\ reply.blocks[x[1]].kind = "text"
              /\ x[2] \in 1 .. (have[x[1]] - 1) /\ x = <<x[1], x[2]>>
              /\ x[1] \in Nat /\ x[2] \in Nat
         /\ \A i \in Chat!Blocks, k \in Nat :
              reply.blocks[i].kind = "text" /\ k \in 1 .. (have[i] - 1) =>
                <<i, k>> \in Chat!Pieces(have)
  <1> DEFINE I == {j \in Chat!Blocks : reply.blocks[j].kind = "text"}
             part == [i \in I |-> {<<i, k>> : k \in 1 .. (have[i] - 1)}]
             parts == {part[i] : i \in I}
  <1>1. Chat!Blocks \subseteq Nat /\ IsFiniteSet(Chat!Blocks)
    BY BlocksOK
  <1>2. IsFiniteSet(I)
    BY <1>1, FS_Subset
  <1>3. ASSUME NEW i \in I
        PROVE  IsFiniteSet({<<i, k>> : k \in 1 .. (have[i] - 1)})
    <2> DEFINE K == 1 .. (have[i] - 1)
               pair == [k \in K |-> <<i, k>>]
    <2>1. have[i] - 1 \in Int /\ 1 \in Int
      OBVIOUS
    <2>2. IsFiniteSet(K)
      BY <2>1, FS_Interval
    <2>3. pair \in Surjection(K, {<<i, k>> : k \in K})
      BY DEF Surjection
    <2> HIDE DEF K, pair
    <2>4. IsFiniteSet({<<i, k>> : k \in K})
      BY <2>2, <2>3, FS_Surjection
    <2>5. QED
      BY <2>4 DEF K
  <1>4. DOMAIN part = I /\ part = [i \in I |-> part[i]]
    OBVIOUS
  <1>5. \A s \in parts : IsFiniteSet(s)
    BY <1>3
  <1>6. Chat!Pieces(have) = UNION parts
    <2>1. \A i \in I : part[i] = {<<i, k>> : k \in 1 .. (have[i] - 1)}
      OBVIOUS
    <2> HIDE DEF part
    <2>2. parts = {{<<i, k>> : k \in 1 .. (have[i] - 1)} : i \in I}
      BY <2>1
    <2>3. QED
      BY <2>2 DEF Chat!Pieces
  <1>7. \A x \in Chat!Pieces(have) :
          \E i \in I : \E k \in 1 .. (have[i] - 1) : x = <<i, k>>
    BY <1>6
  <1>8. \A i \in I : \A k \in 1 .. (have[i] - 1) : <<i, k>> \in Chat!Pieces(have)
    BY <1>6
  <1>9. IsFiniteSet(parts)
    <2> HIDE DEF part
    <2>1. part \in [I -> parts] /\ \A s \in parts : \E i \in I : part[i] = s
      BY <1>4
    <2> HIDE DEF parts
    <2>2. part \in Surjection(I, parts)
      BY <2>1 DEF Surjection
    <2>3. QED
      BY <1>2, <2>2, FS_Surjection
  <1>10. IsFiniteSet(Chat!Pieces(have))
    <2> HIDE DEF parts, part
    <2>1. QED
      BY <1>5, <1>6, <1>9, FS_UNION
  <1> HIDE DEF parts, part
  <1>11. ASSUME NEW x \in Chat!Pieces(have)
         PROVE  /\ x[1] \in Chat!Blocks /\ reply.blocks[x[1]].kind = "text"
                /\ x[2] \in 1 .. (have[x[1]] - 1) /\ x = <<x[1], x[2]>>
                /\ x[1] \in Nat /\ x[2] \in Nat
    <2>1. PICK i \in I : \E k \in 1 .. (have[i] - 1) : x = <<i, k>>
      BY <1>7
    <2>2. PICK k \in 1 .. (have[i] - 1) : x = <<i, k>>
      BY <2>1
    <2>3. k \in Nat /\ i \in Nat
      BY <1>1
    <2>4. QED
      BY <2>2, <2>3
  <1>12. Chat!Pieces(have) \in SUBSET Pair
    BY <1>11 DEF Pair
  <1>13. QED
    BY <1>8, <1>10, <1>11, <1>12

LEMMA TextOK ==
  ASSUME Chat!ChatRequestsAssumption, reply \in Replies, NEW have \in [Chat!Blocks -> Nat],
         NEW a \in Nat
  PROVE  /\ Chat!TextOf(a, have) \in Seq(Piece)
         /\ Len(Chat!TextOf(a, have)) = Cardinality(Chat!Pieces(have))
         /\ Cardinality(Chat!Pieces(have)) \in Nat
         /\ \A n \in 1 .. Cardinality(Chat!Pieces(have)) :
              Chat!TextOf(a, have)[n] = <<a, Chat!InOrder(Chat!Pieces(have))[n][1],
                                             Chat!InOrder(Chat!Pieces(have))[n][2]>>
  <1> DEFINE list == Chat!InOrder(Chat!Pieces(have))
             C == Cardinality(Chat!Pieces(have))
  <1>1. Chat!Pieces(have) \in SUBSET Pair /\ IsFiniteSet(Chat!Pieces(have))
    BY PiecesOK
  <1>2. /\ C \in Nat /\ DOMAIN list = 1 .. C
        /\ \A n \in 1 .. C : list[n] \in Chat!Pieces(have)
    BY <1>1, InOrderOK
  <1>3. \A n \in 1 .. C : list[n] \in Pair
    BY <1>1, <1>2
  <1> HIDE DEF list, C
  <1>4. Chat!TextOf(a, have) = [n \in 1 .. C |-> <<a, list[n][1], list[n][2]>>]
    BY <1>2 DEF Chat!TextOf, list
  <1>5. \A n \in 1 .. C : <<a, list[n][1], list[n][2]>> \in Piece
    BY <1>3 DEF Pair, Piece
  <1>6. Chat!TextOf(a, have) \in Seq(Piece) /\ Len(Chat!TextOf(a, have)) = C
    BY <1>2, <1>4, <1>5
  <1>7. \A n \in 1 .. C : Chat!TextOf(a, have)[n] = <<a, list[n][1], list[n][2]>>
    BY <1>4
  <1>8. QED
    BY <1>2, <1>6, <1>7 DEF list, C

LEMMA TextOfNothing ==
  ASSUME Chat!ChatRequestsAssumption, reply \in Replies, NEW a \in Nat
  PROVE  Chat!TextOf(a, Chat!Nothing) = <<>>
  <1>1. Chat!Nothing \in [Chat!Blocks -> Nat]
    BY BlocksOK
  <1>2. Chat!Pieces(Chat!Nothing) = {}
    <2>1. \A x \in Chat!Pieces(Chat!Nothing) :
            x[1] \in Chat!Blocks /\ x[2] \in 1 .. (Chat!Nothing[x[1]] - 1)
      BY <1>1, PiecesOK
    <2>2. \A i \in Chat!Blocks : 1 .. (Chat!Nothing[i] - 1) = {}
      BY DEF Chat!Nothing
    <2>3. QED
      BY <2>1, <2>2
  <1>3. Cardinality(Chat!Pieces(Chat!Nothing)) = 0
    BY <1>2, FS_EmptySet
  <1>4. Chat!TextOf(a, Chat!Nothing) \in Seq(Piece) /\ Len(Chat!TextOf(a, Chat!Nothing)) = 0
    BY <1>1, <1>3, TextOK
  <1>5. QED
    BY <1>4

\* One piece more, behind all others.
LEMMA TextGrows ==
  ASSUME Chat!ChatRequestsAssumption, reply \in Replies, NEW have \in [Chat!Blocks -> Nat],
         NEW more \in [Chat!Blocks -> Nat], NEW a \in Nat, NEW p \in Pair,
         p \notin Chat!Pieces(have), Chat!Pieces(more) = Chat!Pieces(have) \cup {p},
         \A y \in Chat!Pieces(have) : y[1] < p[1] \/ (y[1] = p[1] /\ y[2] <= p[2])
  PROVE  Chat!TextOf(a, more) = Append(Chat!TextOf(a, have), <<a, p[1], p[2]>>)
  <1> DEFINE S == Chat!Pieces(have)
             T == Chat!Pieces(more)
             C == Cardinality(S)
             q == <<a, p[1], p[2]>>
             s == Chat!TextOf(a, have)
             t == Chat!TextOf(a, more)
  <1>1. S \in SUBSET Pair /\ IsFiniteSet(S)
    BY PiecesOK
  <1>2. /\ Cardinality(T) = C + 1
        /\ \A n \in 1 .. C : Chat!InOrder(T)[n] = Chat!InOrder(S)[n]
        /\ Chat!InOrder(T)[C + 1] = p
    BY <1>1, OrderEnds
  <1>3. /\ s \in Seq(Piece) /\ Len(s) = C /\ C \in Nat
        /\ \A n \in 1 .. C : s[n] = <<a, Chat!InOrder(S)[n][1], Chat!InOrder(S)[n][2]>>
    BY TextOK
  <1>4. /\ t \in Seq(Piece) /\ Len(t) = Cardinality(T)
        /\ \A n \in 1 .. Cardinality(T) :
             t[n] = <<a, Chat!InOrder(T)[n][1], Chat!InOrder(T)[n][2]>>
    BY TextOK
  <1> HIDE DEF S, T, C, s, t
  <1>5. Len(t) = C + 1 /\ t[C + 1] = q /\ \A n \in 1 .. C : t[n] = s[n]
    <2>1. \A n \in 1 .. C : n \in 1 .. Cardinality(T)
      BY <1>2, <1>3
    <2>2. C + 1 \in 1 .. Cardinality(T)
      BY <1>2, <1>3
    <2>3. t[C + 1] = q
      BY <1>2, <1>4, <2>2
    <2>4. ASSUME NEW n \in 1 .. C PROVE t[n] = s[n]
      <3>1. Chat!InOrder(T)[n] = Chat!InOrder(S)[n]
        BY <1>2
      <3>2. /\ t[n] = <<a, Chat!InOrder(T)[n][1], Chat!InOrder(T)[n][2]>>
            /\ s[n] = <<a, Chat!InOrder(S)[n][1], Chat!InOrder(S)[n][2]>>
        BY <1>3, <1>4, <2>1
      <3>3. QED
        BY ONLY <3>1, <3>2
    <2>5. QED
      BY <1>2, <1>4, <2>3, <2>4
  <1>6. q \in Piece
    BY DEF Pair, Piece
  <1> HIDE DEF q
  <1>7. /\ Append(s, q) \in Seq(Piece) /\ Len(Append(s, q)) = C + 1
        /\ Append(s, q)[C + 1] = q /\ \A n \in 1 .. C : Append(s, q)[n] = s[n]
    BY <1>3, <1>6
  <1>8. \A n \in 1 .. C + 1 : t[n] = Append(s, q)[n]
    BY <1>3, <1>5, <1>7
  <1>9. t = Append(s, q)
    BY <1>3, <1>4, <1>5, <1>7, <1>8
  <1>10. QED
    BY <1>9 DEF s, t, q

LEMMA PrefixOK ==
  ASSUME NEW s \in Seq(Piece), NEW t \in Seq(Piece)
  PROVE  Chat!IsPrefix(s, t) <=> Len(s) <= Len(t) /\ \A n \in 1 .. Len(s) : s[n] = t[n]
  <1>1. Len(s) \in Nat /\ Len(t) \in Nat
    OBVIOUS
  <1>2. /\ SubSeq(s, 1, Len(s)) = s
    OBVIOUS
  <1>3. ASSUME Len(s) <= Len(t)
        PROVE  /\ SubSeq(t, 1, Len(s)) \in Seq(Piece)
               /\ Len(SubSeq(t, 1, Len(s))) = Len(s)
               /\ \A n \in 1 .. Len(s) : SubSeq(t, 1, Len(s))[n] = t[n]
    BY <1>1, <1>3
  <1>4. ASSUME Len(s) <= Len(t), \A n \in 1 .. Len(s) : s[n] = t[n]
        PROVE  s = SubSeq(t, 1, Len(s))
    <2> DEFINE u == SubSeq(t, 1, Len(s))
    <2>1. u \in Seq(Piece) /\ Len(u) = Len(s) /\ \A n \in 1 .. Len(s) : u[n] = s[n]
      BY <1>3, <1>4
    <2> HIDE DEF u
    <2>2. s = u
      BY <2>1
    <2>3. QED
      BY <2>2 DEF u
  <1>5. QED
    BY <1>2, <1>3, <1>4 DEF Chat!IsPrefix

\* What was received is the beginning of all that is said.
LEMMA GotBegins ==
  ASSUME Chat!ChatRequestsAssumption, ChatTypeInv, OrderOK, NEW a \in Nat
  PROVE  Chat!IsPrefix(Chat!TextOf(a, got), Chat!AllText(a))
  <1> DEFINE all == [i \in Chat!Blocks |-> Chat!Whole(i)]
             S == Chat!Pieces(got)
             T == Chat!Pieces(all)
  <1>1. /\ reply \in Replies /\ got \in [Chat!Blocks -> Nat] /\ all \in [Chat!Blocks -> Nat]
        /\ \A i \in Chat!Blocks :
             got[i] <= Chat!Whole(i) /\ Chat!Whole(i) \in Nat /\ i \in Nat
    BY BlocksOK DEF ChatTypeInv, Chat!TypeOK
  <1>2. ASSUME NEW x \in S PROVE x \in T
    <2>1. /\ x[1] \in Chat!Blocks /\ reply.blocks[x[1]].kind = "text"
          /\ x[2] \in 1 .. (got[x[1]] - 1) /\ x = <<x[1], x[2]>> /\ x[2] \in Nat
      BY <1>1, PiecesOK
    <2>2. x[2] \in 1 .. (all[x[1]] - 1)
      BY <1>1, <2>1
    <2>3. QED
      BY <1>1, <2>1, <2>2, PiecesOK
  <1>3. ASSUME NEW x \in S, NEW y \in T, y[1] < x[1] \/ (y[1] = x[1] /\ y[2] <= x[2])
        PROVE  y \in S
    <2>1. /\ x[1] \in Chat!Blocks /\ reply.blocks[x[1]].kind = "text"
          /\ x[2] \in 1 .. (got[x[1]] - 1)
      BY <1>1, PiecesOK
    <2>2. /\ y[1] \in Chat!Blocks /\ reply.blocks[y[1]].kind = "text"
          /\ y[2] \in 1 .. (all[y[1]] - 1) /\ y = <<y[1], y[2]>> /\ y[2] \in Nat
      BY <1>1, PiecesOK
    <2>3. y[2] \in 1 .. (got[y[1]] - 1)
      <3>1. CASE y[1] = x[1]
        BY <1>1, <1>3, <2>1, <2>2, <3>1
      <3>2. CASE y[1] < x[1]
        <4>1. reply.protocol = "anthropic"
          BY <1>1, <2>1, <2>2, <3>2, BlocksOK
        <4>2. got[x[1]] > 0
          BY <1>1, <2>1
        <4>3. got[y[1]] = Chat!Whole(y[1])
          BY <2>1, <2>2, <3>2, <4>1, <4>2 DEF OrderOK
        <4>4. QED
          BY <1>1, <2>2, <4>3
      <3>3. QED
        BY <1>3, <3>1, <3>2
    <2>4. QED
      BY <1>1, <2>2, <2>3, PiecesOK
  <1>4. T \in SUBSET Pair /\ IsFiniteSet(T)
    BY <1>1, PiecesOK
  <1>5. S \in SUBSET T
    BY <1>2
  <1> DEFINE s == Chat!TextOf(a, got)
             t == Chat!AllText(a)
  <1>6. /\ s \in Seq(Piece) /\ Len(s) = Cardinality(S) /\ Cardinality(S) \in Nat
        /\ \A n \in 1 .. Cardinality(S) :
             s[n] = <<a, Chat!InOrder(S)[n][1], Chat!InOrder(S)[n][2]>>
    BY <1>1, TextOK
  <1>7. /\ t \in Seq(Piece) /\ Len(t) = Cardinality(T) /\ Cardinality(T) \in Nat
        /\ \A n \in 1 .. Cardinality(T) :
             t[n] = <<a, Chat!InOrder(T)[n][1], Chat!InOrder(T)[n][2]>>
    BY <1>1, TextOK DEF Chat!AllText
  <1> HIDE DEF S, T, s, t
  <1>8. /\ Cardinality(S) <= Cardinality(T)
        /\ \A n \in 1 .. Cardinality(S) : Chat!InOrder(T)[n] = Chat!InOrder(S)[n]
    BY <1>3, <1>4, <1>5, OrderBegins
  <1>9. ASSUME NEW n \in 1 .. Len(s) PROVE s[n] = t[n]
    <2>1. n \in 1 .. Cardinality(S) /\ n \in 1 .. Cardinality(T)
      BY <1>6, <1>7, <1>8
    <2>2. Chat!InOrder(T)[n] = Chat!InOrder(S)[n]
      BY <1>8, <2>1
    <2>3. /\ s[n] = <<a, Chat!InOrder(S)[n][1], Chat!InOrder(S)[n][2]>>
          /\ t[n] = <<a, Chat!InOrder(T)[n][1], Chat!InOrder(T)[n][2]>>
      BY <1>6, <1>7, <2>1
    <2>4. QED
      BY ONLY <2>2, <2>3
  <1>10. Chat!IsPrefix(s, t)
    BY <1>6, <1>7, <1>8, <1>9, PrefixOK
  <1>11. QED
    BY <1>10 DEF s, t
-----------------------------------------------------------------------------
(* The command *)

LEMMA AttemptOK ==
  ASSUME Chat!ChatRequestsAssumption, ChatTypeInv
  PROVE  /\ Chat!Attempt \in Chat!AttemptIds /\ Chat!Attempt \in Nat
         /\ Chat!AttemptIds \subseteq Nat
         /\ retries \in Nat /\ shrinks \in Nat /\ reply \in Replies
         /\ MaxRetries \in Nat /\ MaxShrinks \in Nat
  BY DEF Chat!ChatRequestsAssumption, ChatTypeInv, Chat!TypeOK, Chat!Attempt,
         Chat!AttemptIds

\* What depends on the reply and on the attempt alone.
LEMMA SameReply ==
  ASSUME UNCHANGED reply
  PROVE  /\ UNCHANGED <<Chat!Blocks, Chat!Nothing>>
         /\ \A i : Chat!Whole(i)' = Chat!Whole(i)
         /\ \A a : Chat!AllText(a)' = Chat!AllText(a)
         /\ \A a, have : Chat!TextOf(a, have)' = Chat!TextOf(a, have)
  <1>1. UNCHANGED <<Chat!Blocks, Chat!Nothing>>
    BY DEF Chat!Blocks, Chat!Nothing
  <1>2. \A i : Chat!Whole(i)' = Chat!Whole(i)
    BY DEF Chat!Whole
  <1>3. \A have : Chat!Pieces(have)' = Chat!Pieces(have)
    BY <1>1 DEF Chat!Pieces
  <1>4. \A a, have : Chat!TextOf(a, have)' = Chat!TextOf(a, have)
    BY <1>3 DEF Chat!TextOf
  <1>5. \A a : Chat!AllText(a)' = Chat!AllText(a)
    BY <1>1, <1>2, <1>3 DEF Chat!AllText, Chat!TextOf
  <1>6. QED
    BY <1>1, <1>2, <1>4, <1>5

LEMMA SameAnswer ==
  ASSUME UNCHANGED <<reply, retries, shrinks, got>>
  PROVE  /\ UNCHANGED <<Chat!Attempt, Chat!Answer, Chat!Finished,
                        Chat!TextOf(Chat!Attempt, got)>>
         /\ Chat!AllText(Chat!Attempt)' = Chat!AllText(Chat!Attempt)
  <1>1. /\ UNCHANGED <<Chat!Attempt, Chat!Blocks>>
        /\ \A i : Chat!Whole(i)' = Chat!Whole(i)
        /\ \A a : Chat!AllText(a)' = Chat!AllText(a)
    BY SameReply DEF Chat!Attempt
  <1>2. Chat!Named' = Chat!Named
    BY <1>1 DEF Chat!Named
  <1>3. Chat!TextOf(Chat!Attempt, got)' = Chat!TextOf(Chat!Attempt, got)
    BY <1>1 DEF Chat!TextOf, Chat!Pieces
  <1>4. Chat!Answer' = Chat!Answer
    BY <1>2, <1>3 DEF Chat!Answer
  <1>5. \A i : Chat!Spoilt(i)' <=> Chat!Spoilt(i)
    BY <1>1 DEF Chat!Spoilt
  <1>6. Chat!Finished' = Chat!Finished
    BY <1>2, <1>3, <1>5 DEF Chat!Finished
  <1>7. Chat!AllText(Chat!Attempt)' = Chat!AllText(Chat!Attempt)
    BY <1>1 DEF Chat!AllText, Chat!TextOf, Chat!Pieces
  <1>8. QED
    BY <1>1, <1>3, <1>4, <1>6, <1>7

Outcomes == {"answer", "context_length", "network", "other", "cancelled"}

\* The command goes on, or its cancellation does.
LEMMA CommandOK ==
  ASSUME Chat!ChatRequestsAssumption, ChatInv,
         UNCHANGED <<reply, Chat!page, got, Chat!deltas>>,
         \/ UNCHANGED <<chat, cut>>
         \/ chat \in {"sent", "open"} /\ chat' \in Outcomes \cup {"open"},
         chat' = "answer" =>
           Chat!Finished = "answer"
             /\ (cut' <=> \E i \in Chat!Blocks : got[i] < Chat!Whole(i)),
         registered' \in BOOLEAN, signalled' \in BOOLEAN, cut' \in BOOLEAN,
         chatCancel' \in {"no", "sent", "timer", "again", "done"}, Chat!RunningIsRegistered'
  PROVE  ChatInv'
  <1>1. UNCHANGED <<reply, chatAt, stopRequested, retries, shrinks, item, kept, got, pieces,
                    buffer>>
    BY DEF Chat!page, Chat!deltas
  <1>2. /\ UNCHANGED <<Chat!Blocks, Chat!Nothing, Chat!Attempt, Chat!Answer, Chat!Finished,
                       Chat!TextOf(Chat!Attempt, got)>>
        /\ \A i : Chat!Whole(i)' = Chat!Whole(i)
        /\ \A a : Chat!AllText(a)' = Chat!AllText(a)
    BY <1>1, SameReply, SameAnswer
  <1>3. chat' \in {"none", "sent", "open", "answer", "context_length", "network", "other",
                   "cancelled"}
    BY DEF ChatInv, ChatTypeInv, Chat!TypeOK, Outcomes
  <1>4. Chat!TypeOK'
    <2>1. {stopRequested', registered', signalled', cut'} \subseteq BOOLEAN
      BY <1>1 DEF ChatInv, ChatTypeInv, Chat!TypeOK
    <2>2. \A i \in Chat!Blocks' : got'[i] \in 0 .. Chat!Whole(i)'
      BY <1>1, <1>2 DEF ChatInv, ChatTypeInv, Chat!TypeOK
    <2>3. QED
      BY <1>1, <1>3, <2>1, <2>2 DEF ChatInv, ChatTypeInv, Chat!TypeOK
  <1>5. ChatTypeInv'
    BY <1>1, <1>2, <1>4 DEF ChatInv, ChatTypeInv
  <1>6. CallOK'
    BY <1>1, <1>2 DEF ChatInv, CallOK, Outcomes
  <1>7. OrderOK'
    BY <1>1, <1>2 DEF ChatInv, OrderOK
  <1>8. FreshOK'
    BY <1>1, <1>2 DEF ChatInv, FreshOK, Outcomes
  <1>9. LineOK'
    BY <1>1, <1>2 DEF ChatInv, LineOK
  <1>10. ChatKeptOK'
    BY <1>1, <1>2 DEF ChatInv, ChatKeptOK, CallOK
  <1>11. Chat!ShownInOrder'
    <2>1. Chat!AllText(Chat!Attempt)' = Chat!AllText(Chat!Attempt)
      BY <1>1, <1>2 DEF Chat!AllText, Chat!TextOf, Chat!Pieces
    <2>2. QED
      BY <1>1, <2>1 DEF ChatInv, Chat!ShownInOrder
  <1>12. QED
    BY <1>5, <1>6, <1>7, <1>8, <1>9, <1>10, <1>11 DEF ChatInv

LEMMA ChatBeginOK ==
  ASSUME Chat!ChatRequestsAssumption, ChatInv, Chat!Begin
  PROVE  ChatInv'
  <1>1. /\ chat = "sent" /\ got' = got
        /\ UNCHANGED <<reply, Chat!page, chatCancel, Chat!deltas, cut>>
    BY DEF Chat!Begin, ChatInv, CallOK
  <1>2. \/ chat' = "open" /\ registered' = TRUE /\ signalled' = FALSE
        \/ chat' = "other" /\ UNCHANGED <<registered, signalled>>
    BY DEF Chat!Begin
  <1>3. /\ registered \in BOOLEAN /\ signalled \in BOOLEAN /\ cut \in BOOLEAN
        /\ chatCancel \in {"no", "sent", "timer", "again", "done"}
    BY DEF ChatInv, ChatTypeInv, Chat!TypeOK
  <1>4. Chat!RunningIsRegistered' /\ registered' \in BOOLEAN /\ signalled' \in BOOLEAN
    <2>1. CASE chat' = "open" /\ registered' = TRUE /\ signalled' = FALSE
      BY <2>1 DEF Chat!RunningIsRegistered
    <2>2. CASE chat' = "other" /\ UNCHANGED <<registered, signalled>>
      <3>1. ~registered
        BY <1>1 DEF ChatInv, Chat!RunningIsRegistered
      <3>2. QED
        BY <1>3, <2>2, <3>1 DEF Chat!RunningIsRegistered
    <2>3. QED
      BY <1>2, <2>1, <2>2
  <1>5. QED
    BY <1>1, <1>2, <1>3, <1>4, CommandOK DEF Outcomes

LEMMA ResultOK ==
  ASSUME Chat!ChatRequestsAssumption, ChatInv, Chat!End \/ Chat!Fail \/ Chat!Cancelled
  PROVE  ChatInv'
  <1>1. /\ chat = "open" /\ UNCHANGED <<reply, Chat!page, got, Chat!deltas>>
        /\ registered' = FALSE /\ UNCHANGED <<signalled, chatCancel>>
    BY DEF Chat!End, Chat!Fail, Chat!Cancelled, Chat!Results
  <1>2. /\ signalled \in BOOLEAN /\ cut \in BOOLEAN
        /\ chatCancel \in {"no", "sent", "timer", "again", "done"}
    BY DEF ChatInv, ChatTypeInv, Chat!TypeOK
  <1>3. /\ chat' \in Outcomes
        /\ cut' \in BOOLEAN
        /\ chat' = "answer" =>
             Chat!Finished = "answer"
               /\ (cut' <=> \E i \in Chat!Blocks : got[i] < Chat!Whole(i))
    <2>1. CASE Chat!End
      <3>1. Chat!Finished \in {"other", "answer"}
        BY DEF Chat!Finished
      <3>2. /\ chat' = Chat!Finished
            /\ cut' =
                 (Chat!Finished = "answer" /\ \E i \in Chat!Blocks : got[i] < Chat!Whole(i))
        BY <2>1 DEF Chat!End, Chat!Results
      <3>3. QED
        BY <3>1, <3>2 DEF Outcomes
    <2>2. CASE Chat!Fail \/ Chat!Cancelled
      BY <1>2, <2>2 DEF Chat!Fail, Chat!Cancelled, Chat!Results, Outcomes
    <2>3. QED
      BY <2>1, <2>2
  <1>4. Chat!RunningIsRegistered'
    BY <1>1, <1>3 DEF Chat!RunningIsRegistered, Outcomes
  <1>5. QED
    BY <1>1, <1>2, <1>3, <1>4, CommandOK

LEMMA CancellationOK ==
  ASSUME Chat!ChatRequestsAssumption, ChatInv, Chat!CancelArrives \/ Chat!StopAgain
  PROVE  ChatInv'
  <1>1. UNCHANGED <<reply, Chat!page, got, Chat!deltas, chat, cut>>
    BY DEF Chat!CancelArrives, Chat!StopAgain
  <1>2. /\ registered \in BOOLEAN /\ signalled \in BOOLEAN /\ cut \in BOOLEAN
        /\ chatCancel \in {"no", "sent", "timer", "again", "done"}
    BY DEF ChatInv, ChatTypeInv, Chat!TypeOK
  <1>3. /\ registered' \in BOOLEAN /\ signalled' \in BOOLEAN
        /\ chatCancel' \in {"no", "sent", "timer", "again", "done"}
        /\ registered' => registered
        /\ registered \/ signalled => registered' \/ signalled'
    <2>1. CASE Chat!CancelArrives
      <3>1. /\ registered' = FALSE /\ signalled' = (signalled \/ registered)
            /\ chatCancel' \in {"timer", "done"}
        BY <2>1 DEF Chat!CancelArrives
      <3>2. QED
        BY <1>2, <3>1
    <2>2. CASE Chat!StopAgain
      BY <1>2, <2>2 DEF Chat!StopAgain
    <2>3. QED
      BY <2>1, <2>2
  <1>4. Chat!RunningIsRegistered'
    BY <1>1, <1>3 DEF ChatInv, Chat!RunningIsRegistered
  <1>5. chat' = "answer" =>
          Chat!Finished = "answer" /\ (cut' <=> \E i \in Chat!Blocks : got[i] < Chat!Whole(i))
    BY <1>1 DEF ChatInv, CallOK
  <1>6. QED
    BY <1>1, <1>2, <1>3, <1>4, <1>5, CommandOK
\* The next piece is behind all that was received.
LEMMA FeedOK ==
  ASSUME Chat!ChatRequestsAssumption, ChatInv, NEW i \in Chat!Blocks, Chat!Feed(i)
  PROVE  ChatInv'
  <1>1. /\ chat = "open" /\ got[i] < Chat!Whole(i) /\ Chat!Follows(i)
        /\ got' = [got EXCEPT ![i] = @ + 1]
        /\ UNCHANGED <<reply, Chat!page, chat, Chat!registry, buffer, cut>>
    BY DEF Chat!Feed
  <1>2. UNCHANGED <<reply, chatAt, stopRequested, retries, shrinks, item, kept, chat,
                    registered,
                    signalled, chatCancel, buffer, cut>>
    BY <1>1 DEF Chat!page, Chat!registry
  <1>3. /\ reply \in Replies /\ got \in [Chat!Blocks -> Nat]
        /\ Chat!Attempt \in Chat!AttemptIds
        /\ Chat!Attempt \in Nat
        /\ pieces \in [Chat!AttemptIds -> Seq(Piece)]
        /\ buffer \in [Chat!AttemptIds -> Seq(Piece)]
        /\ item \in Seq(Piece)
        /\ \A j \in Chat!Blocks : got[j] \in 0 .. Chat!Whole(j)
    BY AttemptOK DEF ChatInv, ChatTypeInv, Chat!TypeOK
  <1>4. \A j \in Chat!Blocks : j \in Nat \ {0} /\ Chat!Whole(j) \in Nat
    BY <1>3, BlocksOK
  <1>5. PICK g \in [Chat!Blocks -> Nat] : g = got'
    <2>1. got[i] \in Nat /\ got[i] + 1 \in Nat
      BY <1>3
    <2>2. got' \in [Chat!Blocks -> Nat]
      BY <1>1, <1>3, <2>1
    <2>3. QED
      BY <2>2
  <1>6. g[i] = got[i] + 1 /\ \A j \in Chat!Blocks : j # i => g[j] = got[j]
    BY <1>1, <1>3, <1>5
  <1>7. /\ UNCHANGED <<Chat!Blocks, Chat!Nothing, Chat!Attempt>>
        /\ \A j : Chat!Whole(j)' = Chat!Whole(j)
        /\ \A a : Chat!AllText(a)' = Chat!AllText(a)
    BY <1>2, SameReply DEF Chat!Attempt
  <1> DEFINE text == reply.blocks[i].kind = "text" /\ got[i] > 0
             n == got[i]
             p == <<i, n>>
             piece == <<Chat!Attempt, i, n>>
             here == Chat!TextOf(Chat!Attempt, got)
  <1>8. n \in Nat /\ p \in Pair /\ p[1] = i /\ p[2] = n /\ piece \in Piece
    BY <1>3, <1>4 DEF Pair, Piece
  <1>9. Chat!TextOf(Chat!Attempt, got)' = Chat!TextOf(Chat!Attempt, g)
    BY <1>2, <1>5, <1>7 DEF Chat!TextOf, Chat!Pieces
  <1>10. here \in Seq(Piece)
    BY <1>3, TextOK
  <1>11. ASSUME text
         PROVE  Chat!TextOf(Chat!Attempt, g) = Append(here, piece)
    <2>1. \A y \in Chat!Pieces(got) :
            /\ y[1] \in Chat!Blocks /\ reply.blocks[y[1]].kind = "text"
            /\ y[2] \in 1 .. (got[y[1]] - 1) /\ y = <<y[1], y[2]>> /\ y[2] \in Nat
      BY <1>3, PiecesOK
    <2>2. ASSUME NEW y \in Chat!Pieces(got)
          PROVE  y[1] < i \/ (y[1] = i /\ y[2] <= n)
      <3>1. CASE reply.protocol = "openai"
        <4>1. y[1] = 1 /\ i = 1
          BY <1>3, <1>11, <2>1, <3>1, BlocksOK
        <4>2. QED
          BY <1>8, <2>1, <4>1
      <3>2. CASE reply.protocol = "anthropic" /\ y[1] > i
        <4>1. got[y[1]] > 0
          BY <1>3, <2>1
        <4>2. got[i] = Chat!Whole(i)
          BY <2>1, <3>2, <4>1 DEF ChatInv, OrderOK
        <4>3. QED
          BY <1>1, <1>4, <4>2
      <3>3. CASE y[1] = i
        BY <1>8, <2>1, <3>3
      <3>4. QED
        BY <1>3, <1>4, <2>1, <3>1, <3>2, <3>3, BlocksOK
    <2>3. p \notin Chat!Pieces(got)
      BY <1>8, <2>1
    <2>4. Chat!Pieces(g) = Chat!Pieces(got) \cup {p}
      <3>1. ASSUME NEW y \in Chat!Pieces(g) PROVE y \in Chat!Pieces(got) \cup {p}
        <4>1. /\ y[1] \in Chat!Blocks /\ reply.blocks[y[1]].kind = "text"
              /\ y[2] \in 1 .. (g[y[1]] - 1) /\ y = <<y[1], y[2]>> /\ y[2] \in Nat
          BY <1>3, PiecesOK
        <4>2. y[2] \in 1 .. (got[y[1]] - 1) \/ y = p
          BY <1>3, <1>6, <4>1
        <4>3. QED
          BY <1>3, <4>1, <4>2, PiecesOK
      <3>2. ASSUME NEW y \in Chat!Pieces(got) PROVE y \in Chat!Pieces(g)
        <4>1. y[2] \in 1 .. (g[y[1]] - 1)
          BY <1>3, <1>6, <2>1
        <4>2. <<y[1], y[2]>> \in Chat!Pieces(g)
          BY <1>3, <2>1, <4>1, PiecesOK
        <4>3. QED
          BY <2>1, <4>2
      <3>3. p \in Chat!Pieces(g)
        <4>1. n \in 1 .. (g[i] - 1)
          BY <1>6, <1>8, <1>11
        <4>2. QED
          BY <1>3, <1>8, <1>11, <4>1, PiecesOK
      <3>4. QED
        BY <3>1, <3>2, <3>3
    <2>5. \A y \in Chat!Pieces(got) : y[1] < p[1] \/ (y[1] = p[1] /\ y[2] <= p[2])
      BY <1>8, <2>2
    <2> HIDE DEF p
    <2>6. Chat!TextOf(Chat!Attempt, g) = Append(here, <<Chat!Attempt, p[1], p[2]>>)
      <3>1. reply \in Replies /\ got \in [Chat!Blocks -> Nat] /\ Chat!Attempt \in Nat
              /\ p \in Pair
        BY <1>3, <1>8
      <3>2. QED
        BY ONLY Chat!ChatRequestsAssumption, <3>1, g \in [Chat!Blocks -> Nat], <2>3, <2>4,
           <2>5,
                TextGrows
    <2>7. QED
      BY <1>8, <2>6
  <1>12. ASSUME ~text
         PROVE  Chat!TextOf(Chat!Attempt, g) = here
    <2>1. ASSUME NEW y \in Chat!Pieces(g) PROVE y \in Chat!Pieces(got)
      <3>1. /\ y[1] \in Chat!Blocks /\ reply.blocks[y[1]].kind = "text"
            /\ y[2] \in 1 .. (g[y[1]] - 1) /\ y = <<y[1], y[2]>> /\ y[2] \in Nat
        BY <1>3, PiecesOK
      <3>2. y[2] \in 1 .. (got[y[1]] - 1)
        <4>1. CASE y[1] = i
          <5>1. got[i] = 0 /\ g[i] = 1
            BY <1>3, <1>6, <1>12, <3>1, <4>1
          <5>2. QED
            BY <3>1, <4>1, <5>1
        <4>2. CASE y[1] # i
          BY <1>6, <3>1, <4>2
        <4>3. QED
          BY <4>1, <4>2
      <3>3. <<y[1], y[2]>> \in Chat!Pieces(got)
        BY <1>3, <3>1, <3>2, PiecesOK
      <3>4. QED
        BY <3>1, <3>3
    <2>2. ASSUME NEW y \in Chat!Pieces(got) PROVE y \in Chat!Pieces(g)
      <3>1. /\ y[1] \in Chat!Blocks /\ reply.blocks[y[1]].kind = "text"
            /\ y[2] \in 1 .. (got[y[1]] - 1) /\ y = <<y[1], y[2]>> /\ y[2] \in Nat
        BY <1>3, PiecesOK
      <3>2. y[2] \in 1 .. (g[y[1]] - 1)
        <4>1. g[y[1]] >= got[y[1]] /\ g[y[1]] \in Nat /\ got[y[1]] \in Nat
          <5>1. y[1] \in Chat!Blocks
            BY <3>1
          <5>2. got[y[1]] \in Nat /\ g[y[1]] \in Nat
            BY <1>3, <5>1
          <5>3. g[y[1]] = got[y[1]] \/ g[y[1]] = got[y[1]] + 1
            BY <1>6, <5>1
          <5>4. QED
            BY ONLY <5>2, <5>3
        <4>2. QED
          BY <3>1, <4>1
      <3>3. <<y[1], y[2]>> \in Chat!Pieces(g)
        BY <1>3, <3>1, <3>2, PiecesOK
      <3>4. QED
        BY <3>1, <3>3
    <2>3. Chat!Pieces(g) = Chat!Pieces(got)
      BY <2>1, <2>2
    <2>4. QED
      BY <2>3 DEF Chat!TextOf
  <1>13. /\ text /\ chatAt # "gone" =>
              pieces' = [pieces EXCEPT ![Chat!Attempt] = Append(pieces[Chat!Attempt], piece)]
         /\ ~(text /\ chatAt # "gone") => pieces' = pieces
    BY DEF Chat!Feed
  <1> HIDE DEF text, p, piece, n, here
  <1>14. /\ pieces' \in [Chat!AttemptIds -> Seq(Piece)]
         /\ text /\ chatAt # "gone" =>
              pieces'[Chat!Attempt] = Append(pieces[Chat!Attempt], piece)
         /\ \A a \in Chat!AttemptIds : a # Chat!Attempt => pieces'[a] = pieces[a]
    <2>1. pieces[Chat!Attempt] \in Seq(Piece)
      BY <1>3
    <2>2. Append(pieces[Chat!Attempt], piece) \in Seq(Piece)
      BY <1>8, <2>1
    <2>3. QED
      BY <1>3, <1>13, <2>2
  <1>15. ASSUME NEW j \in Chat!Blocks PROVE g[j] \in 0 .. Chat!Whole(j)
    <2>1. got[j] \in 0 .. Chat!Whole(j) /\ Chat!Whole(j) \in Nat
      BY <1>3, <1>4
    <2>2. CASE j = i
      <3>1. g[j] = got[j] + 1 /\ got[j] < Chat!Whole(j)
        BY <1>1, <1>6, <2>2
      <3>2. QED
        BY <2>1, <3>1
    <2>3. CASE j # i
      BY <1>6, <2>1, <2>3
    <2>4. QED
      BY <2>2, <2>3
  <1>16. ChatTypeInv'
    <2>1. Chat!TypeOK'
      BY <1>2, <1>5, <1>7, <1>14, <1>15 DEF ChatInv, ChatTypeInv, Chat!TypeOK
    <2>2. QED
      BY <1>2, <1>5, <1>7, <1>14, <2>1 DEF ChatInv, ChatTypeInv
  <1>17. CallOK'
    BY <1>1, <1>2 DEF ChatInv, CallOK
  <1>18. OrderOK'
    <2>1. SUFFICES ASSUME reply.protocol = "anthropic", NEW j \in Chat!Blocks,
                          NEW k \in Chat!Blocks,
                          j < k, g[k] > 0
                   PROVE  g[j] = Chat!Whole(j)
      BY <1>2, <1>5, <1>7 DEF OrderOK
    <2>2. CASE k = i
      <3>1. j \in 1 .. (i - 1) /\ j # i
        BY <1>4, <2>1, <2>2
      <3>2. got[j] = Chat!Whole(j)
        BY <1>1, <2>1, <3>1 DEF Chat!Follows
      <3>3. QED
        BY <1>6, <3>1, <3>2
    <2>3. CASE k # i
      <3>1. got[j] = Chat!Whole(j)
        BY <1>6, <2>1, <2>3 DEF ChatInv, OrderOK
      <3>2. j # i
        BY <1>1, <1>4, <3>1
      <3>3. QED
        BY <1>6, <3>1, <3>2
    <2>4. QED
      BY <2>2, <2>3
  <1>19. FreshOK'
    <2>1. \A a \in Chat!AttemptIds : a > Chat!Attempt => a # Chat!Attempt
      BY AttemptOK DEF ChatInv
    <2>2. QED
      BY <1>1, <1>2, <1>7, <1>14, <2>1 DEF ChatInv, FreshOK
  <1>20. LineOK'
    <2>1. SUFFICES ASSUME chatAt = "called", ~stopRequested
                   PROVE  (item \o buffer[Chat!Attempt]) \o pieces'[Chat!Attempt]
                            = Chat!TextOf(Chat!Attempt, g)
      BY <1>2, <1>7, <1>9 DEF LineOK
    <2> DEFINE s == item \o buffer[Chat!Attempt]
               c == pieces[Chat!Attempt]
    <2>2. s \in Seq(Piece) /\ c \in Seq(Piece) /\ s \o c = here
      BY <1>3, <2>1 DEF ChatInv, LineOK, here
    <2>3. CASE text
      <3>1. pieces'[Chat!Attempt] = Append(c, piece)
              /\ Chat!TextOf(Chat!Attempt, g) = Append(s \o c, piece)
        BY <1>11, <1>14, <2>1, <2>2, <2>3
      <3> HIDE DEF s, c
      <3>2. s \o Append(c, piece) = Append(s \o c, piece)
        <4>1. <<piece>> \in Seq(Piece) /\ s \o c \in Seq(Piece)
          <5>1. piece \in Piece
            BY <1>8
          <5>2. s \o c \in Seq(Piece)
            BY ONLY <2>2, ConcatProperties
          <5>3. QED
            BY ONLY <5>1, <5>2
        <4>2. /\ Append(c, piece) = c \o <<piece>>
              /\ Append(s \o c, piece) = (s \o c) \o <<piece>>
          BY <1>8, <2>2, <4>1, AppendIsConcat
        <4>3. (s \o c) \o <<piece>> = s \o (c \o <<piece>>)
          BY <2>2, <4>1, ConcatAssociative
        <4>4. QED
          BY <4>2, <4>3
      <3>3. s \o pieces'[Chat!Attempt] = Chat!TextOf(Chat!Attempt, g)
        BY <3>1, <3>2
      <3>4. QED
        BY <3>3 DEF s
    <2>4. CASE ~text
      <3>1. pieces'[Chat!Attempt] = c
        BY <1>13, <2>4
      <3>2. QED
        BY <1>12, <2>2, <2>4, <3>1
    <2>5. QED
      BY <2>3, <2>4
  <1>21. ChatKeptOK'
    BY <1>1, <1>2 DEF ChatInv, ChatKeptOK, CallOK
  <1>22. Chat!ShownInOrder'
    <2>1. Chat!AllText(Chat!Attempt)' = Chat!AllText(Chat!Attempt)
      BY <1>2, <1>7 DEF Chat!AllText, Chat!TextOf, Chat!Pieces
    <2>2. QED
      BY <1>2, <2>1 DEF ChatInv, Chat!ShownInOrder
  <1>23. Chat!RunningIsRegistered'
    BY <1>2 DEF ChatInv, Chat!RunningIsRegistered
  <1>24. QED
    BY <1>16, <1>17, <1>18, <1>19, <1>20, <1>21, <1>22, <1>23 DEF ChatInv
-----------------------------------------------------------------------------
(* The page *)

LEMMA EmptyOK == <<>> \in Seq(Piece)
  OBVIOUS

LEMMA ConcatBegins ==
  ASSUME NEW s \in Seq(Piece), NEW b \in Seq(Piece), NEW c \in Seq(Piece),
         NEW t \in Seq(Piece), Chat!IsPrefix((s \o b) \o c, t)
  PROVE  Chat!IsPrefix(s \o b, t)
  <1> DEFINE u == s \o b
             v == u \o c
  <1>1. u \in Seq(Piece)
    BY ConcatProperties
  <1> HIDE DEF u
  <1>2. /\ v \in Seq(Piece) /\ Len(v) = Len(u) + Len(c) /\ Len(u) \in Nat /\ Len(c) \in Nat
        /\ \A i \in 1 .. Len(u) + Len(c) :
             v[i] = IF i <= Len(u) THEN u[i] ELSE c[i - Len(u)]
    BY <1>1, ConcatProperties
  <1>3. Chat!IsPrefix(v, t)
    BY DEF u
  <1> HIDE DEF v
  <1>4. Len(v) <= Len(t) /\ \A n \in 1 .. Len(v) : v[n] = t[n]
    BY <1>2, <1>3, PrefixOK
  <1>5. Len(t) \in Nat
    OBVIOUS
  <1>6. Len(u) <= Len(t)
    BY <1>2, <1>4, <1>5
  <1>7. \A n \in 1 .. Len(u) : n \in 1 .. Len(v) /\ v[n] = u[n]
    BY <1>2
  <1>8. \A n \in 1 .. Len(u) : u[n] = t[n]
    BY <1>4, <1>7
  <1>9. QED
    BY <1>1, <1>6, <1>8, PrefixOK DEF u

LEMMA Regroup ==
  \A s, t, u \in Seq(Piece) : (s \o t) \o u = s \o (t \o u) /\ s \o t \in Seq(Piece)
  <1>1. ASSUME NEW s \in Seq(Piece), NEW t \in Seq(Piece), NEW u \in Seq(Piece)
        PROVE  (s \o t) \o u = s \o (t \o u) /\ s \o t \in Seq(Piece)
    BY ConcatAssociative, ConcatProperties
  <1>2. QED
    BY <1>1

LEMMA EmptyBegins ==
  ASSUME NEW t \in Seq(Piece)
  PROVE  Chat!IsPrefix(<<>>, t)
  <1>1. Len(<<>>) = 0 /\ 1 .. 0 = {} /\ Len(t) >= 0
    OBVIOUS
  <1>2. QED
    BY <1>1, EmptyOK, PrefixOK

LEMMA AllTextOK ==
  ASSUME Chat!ChatRequestsAssumption, reply \in Replies, NEW a \in Nat
  PROVE  Chat!AllText(a) \in Seq(Piece)
  BY BlocksOK, TextOK DEF Chat!AllText

\* What is flushed of the attempt that is awaited is still the beginning of it.
LEMMA FlushedBegins ==
  ASSUME Chat!ChatRequestsAssumption, ChatInv
  PROVE  /\ Chat!Flushed(Chat!Attempt) \in Seq(Piece)
         /\ Chat!IsPrefix(Chat!Flushed(Chat!Attempt), Chat!AllText(Chat!Attempt))
  <1>1. /\ reply \in Replies /\ Chat!Attempt \in Nat /\ Chat!Attempt \in Chat!AttemptIds
        /\ item \in Seq(Piece) /\ pieces[Chat!Attempt] \in Seq(Piece)
        /\ buffer[Chat!Attempt] \in Seq(Piece)
    BY AttemptOK DEF ChatInv, ChatTypeInv
  <1>2. Chat!IsPrefix(item, Chat!AllText(Chat!Attempt))
    BY DEF ChatInv, Chat!ShownInOrder
  <1>3. Chat!IsPrefix(Chat!TextOf(Chat!Attempt, got), Chat!AllText(Chat!Attempt))
    BY <1>1, GotBegins DEF ChatInv
  <1>4. Chat!AllText(Chat!Attempt) \in Seq(Piece)
    BY <1>1, AllTextOK
  <1>5. CASE Chat!Counts(Chat!Attempt)
    <2>1. (item \o buffer[Chat!Attempt]) \o pieces[Chat!Attempt] =
            Chat!TextOf(Chat!Attempt, got)
      BY <1>5 DEF Chat!Counts, ChatInv, LineOK
    <2>2. Chat!Flushed(Chat!Attempt) = item \o buffer[Chat!Attempt]
      BY <1>5 DEF Chat!Flushed
    <2>3. Chat!IsPrefix(item \o buffer[Chat!Attempt], Chat!AllText(Chat!Attempt))
      <3>1. Chat!IsPrefix((item \o buffer[Chat!Attempt]) \o pieces[Chat!Attempt],
                          Chat!AllText(Chat!Attempt))
        BY <1>3, <2>1
      <3>2. QED
        BY ONLY <1>1, <1>4, <3>1, ConcatBegins
    <2>4. QED
      BY <1>1, <2>2, <2>3, ConcatProperties
  <1>6. CASE ~Chat!Counts(Chat!Attempt)
    BY <1>1, <1>2, <1>6 DEF Chat!Flushed
  <1>7. QED
    BY <1>5, <1>6

\* Where neither the request nor its command changes.
LEMMA SameCall ==
  ASSUME ChatInv,
         UNCHANGED <<reply, stopRequested, retries, shrinks, kept, chat, got, registered,
                              signalled, cut>>,
         chatAt' \in {"called", "waiting", "ended", "gone"},
         chatCancel' \in {"no", "sent", "timer", "again", "done"}
  PROVE  /\ UNCHANGED <<Chat!Blocks, Chat!Nothing, Chat!Attempt, Chat!Answer, Chat!Finished,
                        Chat!TextOf(Chat!Attempt, got)>>
         /\ \A i : Chat!Whole(i)' = Chat!Whole(i)
         /\ Chat!AllText(Chat!Attempt)' = Chat!AllText(Chat!Attempt)
         /\ DOMAIN pieces' = Chat!AttemptIds /\ DOMAIN buffer' = Chat!AttemptIds =>
              Chat!TypeOK'
         /\ OrderOK' /\ Chat!RunningIsRegistered'
  <1>1. /\ UNCHANGED <<Chat!Blocks, Chat!Nothing, Chat!Attempt, Chat!Answer, Chat!Finished,
                       Chat!TextOf(Chat!Attempt, got)>>
        /\ \A i : Chat!Whole(i)' = Chat!Whole(i)
    BY SameReply, SameAnswer
  <1>2. Chat!AllText(Chat!Attempt)' = Chat!AllText(Chat!Attempt)
    BY SameAnswer
  <1>3. DOMAIN pieces' = Chat!AttemptIds /\ DOMAIN buffer' = Chat!AttemptIds => Chat!TypeOK'
    BY <1>1 DEF ChatInv, ChatTypeInv, Chat!TypeOK
  <1>4. OrderOK' /\ Chat!RunningIsRegistered'
    BY <1>1 DEF ChatInv, OrderOK, Chat!RunningIsRegistered
  <1>5. QED
    BY <1>1, <1>2, <1>3, <1>4

LEMMA DeltaOK ==
  ASSUME Chat!ChatRequestsAssumption, ChatInv, NEW a \in Chat!AttemptIds, Chat!Delta(a)
  PROVE  ChatInv'
  <1> DEFINE c == pieces[a]
             b == buffer[a]
             h == Head(c)
  <1>1. /\ c # <<>>
        /\ buffer' = [buffer EXCEPT ![a] = Append(b, h)]
        /\ pieces' = [pieces EXCEPT ![a] = Tail(c)]
        /\ UNCHANGED <<reply, chatAt, stopRequested, retries, shrinks, item, kept, chat,
                       got,
                       registered, signalled, chatCancel, cut>>
    BY DEF Chat!Delta, Chat!page, Chat!registry
  <1>2. /\ pieces \in [Chat!AttemptIds -> Seq(Piece)]
        /\ buffer \in [Chat!AttemptIds -> Seq(Piece)]
        /\ item \in Seq(Piece) /\ c \in Seq(Piece) /\ b \in Seq(Piece)
        /\ Chat!Attempt \in Chat!AttemptIds
    BY AttemptOK DEF ChatInv, ChatTypeInv
  <1>3. h \in Piece /\ Tail(c) \in Seq(Piece) /\ c = <<h>> \o Tail(c)
        /\ Append(b, h) \in Seq(Piece) /\ Append(b, h) = b \o <<h>> /\ <<h>> \in Seq(Piece)
    <2> HIDE DEF c, b, h
    <2>1. Head(c) \in Piece /\ Tail(c) \in Seq(Piece) /\ c = <<Head(c)>> \o Tail(c)
      BY <1>1, <1>2
    <2>2. h \in Piece /\ Tail(c) \in Seq(Piece) /\ c = <<h>> \o Tail(c)
      BY <2>1 DEF h
    <2>3. Append(b, h) \in Seq(Piece) /\ Append(b, h) = b \o <<h>> /\ <<h>> \in Seq(Piece)
      BY <1>2, <2>2, AppendIsConcat
    <2>4. QED
      BY <2>2, <2>3
  <1>4. /\ pieces' \in [Chat!AttemptIds -> Seq(Piece)]
        /\ buffer' \in [Chat!AttemptIds -> Seq(Piece)]
        /\ pieces'[a] = Tail(c) /\ buffer'[a] = Append(b, h)
        /\ \A d \in Chat!AttemptIds :
             d # a => pieces'[d] = pieces[d] /\ buffer'[d] = buffer[d]
    BY <1>1, <1>2, <1>3
  <1>5. /\ UNCHANGED <<Chat!Blocks, Chat!Nothing, Chat!Attempt, Chat!Answer, Chat!Finished,
                       Chat!TextOf(Chat!Attempt, got)>>
        /\ \A i : Chat!Whole(i)' = Chat!Whole(i)
        /\ Chat!AllText(Chat!Attempt)' = Chat!AllText(Chat!Attempt)
        /\ DOMAIN pieces' = Chat!AttemptIds /\ DOMAIN buffer' = Chat!AttemptIds =>
             Chat!TypeOK'
        /\ OrderOK' /\ Chat!RunningIsRegistered'
    <2>1. /\ chatAt' \in {"called", "waiting", "ended", "gone"}
          /\ chatCancel' \in {"no", "sent", "timer", "again", "done"}
      BY <1>1 DEF ChatInv, ChatTypeInv, Chat!TypeOK
    <2>2. QED
      BY <1>1, <2>1, SameCall
  <1>6. ChatTypeInv'
    BY <1>1, <1>4, <1>5 DEF ChatInv, ChatTypeInv
  <1>7. CallOK' /\ ChatKeptOK' /\ Chat!ShownInOrder'
    BY <1>1, <1>5 DEF ChatInv, CallOK, ChatKeptOK, Chat!ShownInOrder
  <1>8. FreshOK'
    BY <1>1, <1>4, <1>5 DEF ChatInv, FreshOK
  <1>9. LineOK'
    <2>1. SUFFICES ASSUME chatAt = "called", ~stopRequested
                   PROVE  (item \o buffer'[Chat!Attempt]) \o pieces'[Chat!Attempt]
                            = Chat!TextOf(Chat!Attempt, got)
      BY <1>1, <1>5 DEF LineOK
    <2>2. (item \o buffer[Chat!Attempt]) \o pieces[Chat!Attempt] =
            Chat!TextOf(Chat!Attempt, got)
      BY <2>1 DEF ChatInv, LineOK
    <2>3. CASE a = Chat!Attempt
      <3> HIDE DEF c, b, h
      <3>1. (item \o b) \in Seq(Piece)
        BY <1>2, ConcatProperties
      <3> DEFINE one == <<h>>
                 rest == Tail(c)
      <3>0. one \in Seq(Piece) /\ rest \in Seq(Piece)
        BY <1>3
      <3> HIDE DEF one, rest
      <3>2. (item \o b) \o (one \o rest) = ((item \o b) \o one) \o rest
        BY <3>0, <3>1, Regroup
      <3>3. (item \o b) \o one = item \o (b \o one)
        <4>1. item \in Seq(Piece) /\ b \in Seq(Piece) /\ one \in Seq(Piece)
          BY <1>2, <3>0
        <4>2. QED
          BY ONLY <4>1, Regroup
      <3>4. (item \o Append(b, h)) \o Tail(c) = (item \o b) \o c
        BY <1>3, <3>2, <3>3 DEF one, rest
      <3>5. (item \o b) \o c = Chat!TextOf(Chat!Attempt, got)
        BY <2>2, <2>3 DEF c, b
      <3>6. QED
        BY <1>4, <2>3, <3>4, <3>5
    <2>4. CASE a # Chat!Attempt
      BY <1>2, <1>4, <2>2, <2>4
    <2>5. QED
      BY <2>3, <2>4
  <1>10. QED
    BY <1>5, <1>6, <1>7, <1>8, <1>9 DEF ChatInv

LEMMA FlushOK ==
  ASSUME Chat!ChatRequestsAssumption, ChatInv, NEW a \in Chat!AttemptIds, Chat!Flush(a)
  PROVE  ChatInv'
  <1>1. /\ buffer[a] # <<>> /\ item' = Chat!Flushed(a)
        /\ buffer' = [buffer EXCEPT ![a] = <<>>]
        /\ UNCHANGED <<reply, chatAt, stopRequested, retries, shrinks, kept, chat, got,
                       registered,
                       signalled, chatCancel, pieces, cut>>
    BY DEF Chat!Flush, Chat!registry
  <1>2. /\ buffer \in [Chat!AttemptIds -> Seq(Piece)]
        /\ pieces \in [Chat!AttemptIds -> Seq(Piece)]
        /\ item \in Seq(Piece) /\ Chat!Attempt \in Chat!AttemptIds
    BY AttemptOK DEF ChatInv, ChatTypeInv
  <1>3. /\ buffer' \in [Chat!AttemptIds -> Seq(Piece)] /\ buffer'[a] = <<>>
        /\ \A d \in Chat!AttemptIds : d # a => buffer'[d] = buffer[d]
    BY <1>1, <1>2, EmptyOK
  <1>4. item' \in Seq(Piece) /\ Chat!IsPrefix(item', Chat!AllText(Chat!Attempt))
    <2>1. CASE a = Chat!Attempt
      BY <1>1, <2>1, FlushedBegins
    <2>2. CASE a # Chat!Attempt
      BY <1>1, <1>2, <2>2 DEF Chat!Flushed, Chat!Counts, ChatInv, Chat!ShownInOrder
    <2>3. QED
      BY <2>1, <2>2
  <1>5. chatAt # "called" \/ stopRequested => item' = item
    BY <1>1 DEF Chat!Flushed, Chat!Counts
  <1>6. /\ UNCHANGED <<Chat!Blocks, Chat!Nothing, Chat!Attempt, Chat!Answer, Chat!Finished,
                       Chat!TextOf(Chat!Attempt, got)>>
        /\ \A i : Chat!Whole(i)' = Chat!Whole(i)
        /\ Chat!AllText(Chat!Attempt)' = Chat!AllText(Chat!Attempt)
        /\ DOMAIN pieces' = Chat!AttemptIds /\ DOMAIN buffer' = Chat!AttemptIds =>
             Chat!TypeOK'
        /\ OrderOK' /\ Chat!RunningIsRegistered'
    <2>1. /\ chatAt' \in {"called", "waiting", "ended", "gone"}
          /\ chatCancel' \in {"no", "sent", "timer", "again", "done"}
      BY <1>1 DEF ChatInv, ChatTypeInv, Chat!TypeOK
    <2>2. QED
      BY <1>1, <2>1, SameCall
  <1>7. ChatTypeInv'
    BY <1>1, <1>2, <1>3, <1>4, <1>6 DEF ChatInv, ChatTypeInv
  <1>8. CallOK'
    BY <1>1, <1>5, <1>6 DEF ChatInv, CallOK
  <1>9. ChatKeptOK'
    BY <1>1, <1>5, <1>6 DEF ChatInv, ChatKeptOK
  <1>10. Chat!ShownInOrder'
    BY <1>4, <1>6 DEF Chat!ShownInOrder
  <1>11. FreshOK'
    BY <1>1, <1>3, <1>6 DEF ChatInv, FreshOK
  <1>12. LineOK'
    <2>1. SUFFICES ASSUME chatAt = "called", ~stopRequested
                   PROVE  (item' \o buffer'[Chat!Attempt]) \o pieces[Chat!Attempt]
                            = Chat!TextOf(Chat!Attempt, got)
      BY <1>1, <1>6 DEF LineOK
    <2>2. (item \o buffer[Chat!Attempt]) \o pieces[Chat!Attempt] =
            Chat!TextOf(Chat!Attempt, got)
      BY <2>1 DEF ChatInv, LineOK
    <2>3. CASE a = Chat!Attempt
      <3>1. item' = item \o buffer[Chat!Attempt] /\ buffer'[Chat!Attempt] = <<>>
        BY <1>1, <1>3, <2>1, <2>3 DEF Chat!Flushed, Chat!Counts
      <3>2. item' \o <<>> = item'
        BY <1>4, ConcatEmptySeq
      <3>3. QED
        BY <2>2, <3>1, <3>2
    <2>4. CASE a # Chat!Attempt
      <3>1. item' = item /\ buffer'[Chat!Attempt] = buffer[Chat!Attempt]
        BY <1>1, <1>2, <1>3, <2>4 DEF Chat!Flushed, Chat!Counts
      <3>2. QED
        BY <2>2, <3>1
    <2>5. QED
      BY <2>3, <2>4
  <1>13. QED
    BY <1>6, <1>7, <1>8, <1>9, <1>10, <1>11, <1>12 DEF ChatInv

LEMMA StopOK ==
  ASSUME Chat!ChatRequestsAssumption, ChatInv, Chat!Stop
  PROVE  ChatInv'
  <1>1. /\ chatAt \in {"called", "waiting"} /\ stopRequested' = TRUE
        /\ chatCancel' = IF chatAt = "called" THEN "sent" ELSE chatCancel
        /\ UNCHANGED <<reply, chatAt, retries, shrinks, item, kept, chat, got, registered,
                       signalled,
                       pieces, buffer, cut>>
    BY DEF Chat!Stop, Chat!deltas
  <1>2. /\ UNCHANGED <<Chat!Blocks, Chat!Nothing, Chat!Attempt, Chat!Answer, Chat!Finished,
                       Chat!TextOf(Chat!Attempt, got)>>
        /\ \A i : Chat!Whole(i)' = Chat!Whole(i)
    BY <1>1, SameReply, SameAnswer
  <1>3. Chat!AllText(Chat!Attempt)' = Chat!AllText(Chat!Attempt)
    BY <1>1, SameAnswer
  <1>4. ChatTypeInv'
    <2>1. Chat!TypeOK'
      BY <1>1, <1>2 DEF ChatInv, ChatTypeInv, Chat!TypeOK
    <2>2. QED
      BY <1>1, <1>2, <2>1 DEF ChatInv, ChatTypeInv
  <1>5. CallOK' /\ OrderOK' /\ FreshOK' /\ ChatKeptOK'
    BY <1>1, <1>2 DEF ChatInv, CallOK, OrderOK, FreshOK, ChatKeptOK
  <1>6. LineOK'
    BY <1>1 DEF LineOK
  <1>7. Chat!ShownInOrder' /\ Chat!RunningIsRegistered'
    BY <1>1, <1>3 DEF ChatInv, Chat!ShownInOrder, Chat!RunningIsRegistered
  <1>8. QED
    BY <1>4, <1>5, <1>6, <1>7 DEF ChatInv

LEMMA RetryOK ==
  ASSUME Chat!ChatRequestsAssumption, ChatInv, Chat!Retry
  PROVE  ChatInv'
  <1>1. /\ chatAt = "waiting"
        /\ \/ stopRequested /\ chatAt' = "ended" /\ chat' = chat
           \/ ~stopRequested /\ chatAt' = "called" /\ chat' = "sent"
        /\ UNCHANGED <<reply, stopRequested, retries, shrinks, item, kept, got, registered,
                       signalled, chatCancel, pieces, buffer, cut>>
    BY DEF Chat!Retry, Chat!registry, Chat!deltas
  <1>2. chat = "none" /\ item = <<>> /\ kept = None /\ got = Chat!Nothing
    BY <1>1 DEF ChatInv, CallOK, ChatKeptOK
  <1>3. /\ UNCHANGED <<Chat!Blocks, Chat!Nothing, Chat!Attempt, Chat!Answer, Chat!Finished,
                       Chat!TextOf(Chat!Attempt, got)>>
        /\ \A i : Chat!Whole(i)' = Chat!Whole(i)
    BY <1>1, SameReply, SameAnswer
  <1>4. Chat!AllText(Chat!Attempt)' = Chat!AllText(Chat!Attempt)
    BY <1>1, SameAnswer
  <1>5. reply \in Replies /\ Chat!Attempt \in Nat /\ Chat!Attempt \in Chat!AttemptIds
    BY AttemptOK DEF ChatInv
  <1>6. ChatTypeInv'
    <2>1. Chat!TypeOK'
      BY <1>1, <1>3 DEF ChatInv, ChatTypeInv, Chat!TypeOK
    <2>2. QED
      BY <1>1, <1>3, <2>1 DEF ChatInv, ChatTypeInv
  <1>7. CallOK' /\ OrderOK' /\ FreshOK' /\ ChatKeptOK'
    BY <1>1, <1>2, <1>3 DEF ChatInv, CallOK, OrderOK, FreshOK, ChatKeptOK
  <1>8. LineOK'
    <2>1. pieces[Chat!Attempt] = <<>> /\ buffer[Chat!Attempt] = <<>>
      BY <1>2, <1>5 DEF ChatInv, FreshOK
    <2>2. Chat!TextOf(Chat!Attempt, got) = <<>>
      BY <1>2, <1>5, TextOfNothing
    <2>3. (<<>> \o <<>>) \o <<>> = <<>>
      OBVIOUS
    <2>4. QED
      BY <1>1, <1>2, <1>3, <2>1, <2>2, <2>3 DEF LineOK
  <1>9. Chat!ShownInOrder'
    BY <1>1, <1>4 DEF ChatInv, Chat!ShownInOrder
  <1>10. Chat!RunningIsRegistered'
    BY <1>1, <1>2 DEF ChatInv, Chat!RunningIsRegistered
  <1>11. QED
    BY <1>6, <1>7, <1>8, <1>9, <1>10 DEF ChatInv

LEMMA ChatPageLoadOK ==
  ASSUME Chat!ChatRequestsAssumption, ChatInv, Chat!PageLoad
  PROVE  ChatInv'
  <1>1. /\ chatAt' = "gone" /\ item' = <<>> /\ kept' = None
        /\ registered' = FALSE /\ signalled' = (signalled \/ registered)
        /\ chatCancel' = IF chatCancel = "timer" THEN "done" ELSE chatCancel
        /\ pieces' = [a \in Chat!AttemptIds |-> <<>>]
        /\ buffer' = [a \in Chat!AttemptIds |-> <<>>]
        /\ UNCHANGED <<reply, stopRequested, retries, shrinks, chat, got, cut>>
    BY DEF Chat!PageLoad
  <1>2. /\ UNCHANGED <<Chat!Blocks, Chat!Nothing, Chat!Attempt, Chat!Answer, Chat!Finished,
                       Chat!TextOf(Chat!Attempt, got)>>
        /\ \A i : Chat!Whole(i)' = Chat!Whole(i)
    BY <1>1, SameReply, SameAnswer
  <1>3. Chat!AllText(Chat!Attempt)' = Chat!AllText(Chat!Attempt)
    BY <1>1, SameAnswer
  <1>4. Chat!AllText(Chat!Attempt) \in Seq(Piece)
    BY AttemptOK, AllTextOK DEF ChatInv
  <1>5. /\ pieces' \in [Chat!AttemptIds -> Seq(Piece)]
        /\ buffer' \in [Chat!AttemptIds -> Seq(Piece)]
        /\ \A a \in Chat!AttemptIds : pieces'[a] = <<>> /\ buffer'[a] = <<>>
    BY <1>1, EmptyOK
  <1>6. signalled' \in BOOLEAN /\ registered' \in BOOLEAN
    BY <1>1 DEF ChatInv, ChatTypeInv, Chat!TypeOK
  <1>7. ChatTypeInv'
    <2>1. Chat!TypeOK'
      BY <1>1, <1>2, <1>5, <1>6 DEF ChatInv, ChatTypeInv, Chat!TypeOK
    <2>2. QED
      BY <1>1, <1>2, <1>5, <2>1, EmptyOK DEF ChatInv, ChatTypeInv
  <1>8. CallOK' /\ OrderOK' /\ ChatKeptOK' /\ LineOK'
    BY <1>1, <1>2 DEF ChatInv, CallOK, OrderOK, ChatKeptOK, LineOK
  <1>9. FreshOK'
    BY <1>2, <1>5 DEF FreshOK
  <1>10. Chat!ShownInOrder'
    BY <1>1, <1>3, <1>4, EmptyBegins DEF Chat!ShownInOrder
  <1>11. Chat!RunningIsRegistered'
    BY <1>1 DEF ChatInv, Chat!RunningIsRegistered
  <1>12. QED
    BY <1>7, <1>8, <1>9, <1>10, <1>11 DEF ChatInv
LEMMA EndsOK ==
  ASSUME Chat!ChatRequestsAssumption, ChatInv, chatAt = "called",
         chat \notin {"sent", "open"},
         NEW it \in Seq(Piece), NEW what, Chat!Ends(it, what),
         Chat!IsPrefix(it, Chat!AllText(Chat!Attempt)),
         \/ what = None /\ it = <<>>
         \/ what = [text |-> it, calls |-> <<>>] /\ ~(chat = "answer" /\ ~stopRequested)
         \/ what = Chat!Answer /\ it = Chat!Answer.text /\ chat = "answer",
         buffer' = [buffer EXCEPT ![Chat!Attempt] = <<>>],
         UNCHANGED <<reply, stopRequested, registered, signalled, chatCancel, pieces, cut>>
  PROVE  ChatInv'
  <1>1. /\ chatAt' = "ended" /\ item' = it /\ kept' = what
        /\ UNCHANGED <<retries, shrinks, chat, got>>
    BY DEF Chat!Ends
  <1>2. /\ UNCHANGED <<Chat!Blocks, Chat!Nothing, Chat!Attempt, Chat!Answer, Chat!Finished,
                       Chat!TextOf(Chat!Attempt, got)>>
        /\ \A i : Chat!Whole(i)' = Chat!Whole(i)
        /\ Chat!AllText(Chat!Attempt)' = Chat!AllText(Chat!Attempt)
    BY <1>1, SameReply, SameAnswer
  <1>3. /\ buffer' \in [Chat!AttemptIds -> Seq(Piece)]
        /\ \A d \in Chat!AttemptIds : buffer'[d] = <<>> \/ buffer'[d] = buffer[d]
    BY EmptyOK DEF ChatInv, ChatTypeInv
  <1>4. ChatTypeInv'
    <2>1. Chat!TypeOK'
      BY <1>1, <1>2, <1>3 DEF ChatInv, ChatTypeInv, Chat!TypeOK
    <2>2. QED
      BY <1>1, <1>2, <1>3, <2>1 DEF ChatInv, ChatTypeInv
  <1>5. CallOK' /\ OrderOK' /\ LineOK'
    BY <1>1, <1>2 DEF ChatInv, CallOK, OrderOK, LineOK
  <1>6. FreshOK'
    BY <1>1, <1>2, <1>3 DEF ChatInv, FreshOK
  <1>7. ChatKeptOK'
    BY <1>1, <1>2 DEF ChatKeptOK
  <1>8. Chat!ShownInOrder' /\ Chat!RunningIsRegistered'
    BY <1>1, <1>2 DEF ChatInv, Chat!ShownInOrder, Chat!RunningIsRegistered
  <1>9. QED
    BY <1>4, <1>5, <1>6, <1>7, <1>8 DEF ChatInv

LEMMA RepeatsOK ==
  ASSUME Chat!ChatRequestsAssumption, ChatInv, chatAt = "called",
         chat \notin {"sent", "open"},
         NEW where \in {"called", "waiting"}, Chat!Repeats(where),
         \/ shrinks < MaxShrinks /\ shrinks' = shrinks + 1 /\ UNCHANGED retries
         \/ retries < MaxRetries /\ retries' = retries + 1 /\ UNCHANGED shrinks,
         buffer' = [buffer EXCEPT ![Chat!Attempt] = <<>>],
         UNCHANGED <<reply, stopRequested, registered, signalled, chatCancel, pieces, cut>>
  PROVE  ChatInv'
  <1>1. /\ chatAt' = where /\ item' = <<>> /\ kept' = kept /\ got' = Chat!Nothing
        /\ where = "called" => chat' = "sent"
        /\ where = "waiting" => chat' = "none"
    BY DEF Chat!Repeats
  <1>2. kept = None /\ ~registered
    <2>1. chat # "open"
      OBVIOUS
    <2>2. QED
      BY <2>1 DEF ChatInv, ChatKeptOK, Chat!RunningIsRegistered
  <1>3. /\ reply \in Replies /\ Chat!Attempt \in Nat /\ Chat!Attempt \in Chat!AttemptIds
        /\ retries \in Nat /\ shrinks \in Nat /\ MaxRetries \in Nat /\ MaxShrinks \in Nat
        /\ retries \in 0 .. MaxRetries /\ shrinks \in 0 .. MaxShrinks
        /\ Chat!AttemptIds \subseteq Nat
    BY AttemptOK DEF ChatInv, ChatTypeInv, Chat!TypeOK
  <1>4. PICK n \in Nat : n = Chat!Attempt + 1
    BY <1>3
  <1>5. /\ n = Chat!Attempt' /\ n \in Chat!AttemptIds /\ n > Chat!Attempt
        /\ retries' \in 0 .. MaxRetries /\ shrinks' \in 0 .. MaxShrinks
    <2>1. retries' + shrinks' = retries + shrinks + 1
          /\ retries' \in 0 .. MaxRetries /\ shrinks' \in 0 .. MaxShrinks
      BY <1>3
    <2>2. Chat!Attempt = 1 + retries + shrinks /\ Chat!Attempt' = 1 + retries' + shrinks'
      BY DEF Chat!Attempt
    <2>3. retries' \in Nat /\ shrinks' \in Nat
      BY <1>3, <2>1
    <2>4. /\ 1 + retries' + shrinks' = (1 + retries + shrinks) + 1
          /\ 1 + retries' + shrinks' \in 1 .. 1 + MaxRetries + MaxShrinks
      <3>1. /\ retries \in Nat /\ shrinks \in Nat /\ MaxRetries \in Nat
            /\ MaxShrinks \in Nat
            /\ retries' \in 0 .. MaxRetries /\ shrinks' \in 0 .. MaxShrinks
            /\ retries' + shrinks' = retries + shrinks + 1
        BY <1>3, <2>1
      <3>2. PICK r \in Nat, s \in Nat, nr \in Nat, ns \in Nat :
              r = retries /\ s = shrinks /\ nr = retries' /\ ns = shrinks'
        BY <2>3, <3>1
      <3>3. nr + ns = r + s + 1 /\ nr \in 0 .. MaxRetries /\ ns \in 0 .. MaxShrinks
        BY ONLY <3>1, <3>2
      <3>4. 1 + nr + ns = (1 + r + s) + 1
              /\ 1 + nr + ns \in 1 .. 1 + MaxRetries + MaxShrinks
        BY ONLY <3>1, <3>3
      <3>5. QED
        BY ONLY <3>2, <3>4
    <2>5. n = Chat!Attempt' /\ n > Chat!Attempt
      BY <1>3, <1>4, <2>2, <2>4
    <2>6. QED
      BY <2>1, <2>2, <2>4, <2>5 DEF Chat!AttemptIds
  <1>6. /\ UNCHANGED <<Chat!Blocks, Chat!Nothing>>
        /\ \A i : Chat!Whole(i)' = Chat!Whole(i)
        /\ \A a : Chat!AllText(a)' = Chat!AllText(a)
        /\ Chat!Nothing \in [Chat!Blocks -> Nat]
        /\ \A i \in Chat!Blocks : Chat!Whole(i) \in Nat /\ Chat!Nothing[i] = 0
    BY <1>3, SameReply, BlocksOK DEF Chat!Nothing
  <1>7. /\ buffer' \in [Chat!AttemptIds -> Seq(Piece)]
        /\ \A d \in Chat!AttemptIds : d # Chat!Attempt => buffer'[d] = buffer[d]
    BY EmptyOK DEF ChatInv, ChatTypeInv
  <1>8. \A d \in Chat!AttemptIds : d >= n => pieces[d] = <<>> /\ buffer'[d] = <<>>
    <2>1. ASSUME NEW d \in Chat!AttemptIds, d >= n
          PROVE  pieces[d] = <<>> /\ buffer'[d] = <<>>
      <3>1. d > Chat!Attempt /\ d # Chat!Attempt
        BY <1>3, <1>5, <2>1
      <3>2. pieces[d] = <<>> /\ buffer[d] = <<>>
        BY <3>1 DEF ChatInv, FreshOK
      <3>3. QED
        BY <1>7, <3>1, <3>2
    <2>2. QED
      BY <2>1
  <1>9. ChatTypeInv'
    <2>1. \A i \in Chat!Blocks' : got'[i] \in 0 .. Chat!Whole(i)'
      BY <1>1, <1>6
    <2>2. /\ chatAt' \in {"called", "waiting", "ended", "gone"}
          /\ chat' \in {"none", "sent", "open", "answer", "context_length", "network",
                        "other", "cancelled"}
      BY <1>1
    <2>3. Chat!TypeOK'
      BY <1>5, <1>7, <2>1, <2>2 DEF ChatInv, ChatTypeInv, Chat!TypeOK
    <2>4. QED
      BY <1>1, <1>6, <1>7, <2>3, EmptyOK DEF ChatInv, ChatTypeInv
  <1>10. CallOK'
    BY <1>1, <1>6 DEF CallOK
  <1>11. OrderOK'
    BY <1>1, <1>6 DEF OrderOK
  <1>12. FreshOK'
    <2>1. SUFFICES ASSUME NEW d \in Chat!AttemptIds, d > n \/ d = n
                   PROVE  pieces[d] = <<>> /\ buffer'[d] = <<>>
      BY <1>5 DEF FreshOK
    <2>2. QED
      BY <1>3, <1>8, <2>1
  <1>13. LineOK'
    <2>1. Chat!TextOf(Chat!Attempt, got)' = Chat!TextOf(n, Chat!Nothing)
      BY <1>1, <1>5, <1>6 DEF Chat!TextOf, Chat!Pieces
    <2>2. Chat!TextOf(n, Chat!Nothing) = <<>>
      BY <1>3, TextOfNothing
    <2>3. pieces[n] = <<>> /\ buffer'[n] = <<>>
      BY <1>5, <1>8
    <2>4. (<<>> \o <<>>) \o <<>> = <<>>
      OBVIOUS
    <2>5. (item' \o buffer'[n]) \o pieces'[n] = <<>>
      BY <1>1, <2>3, <2>4
    <2>6. QED
      BY <1>5, <2>1, <2>2, <2>5 DEF LineOK
  <1>14. ChatKeptOK'
    BY <1>1, <1>2 DEF ChatKeptOK
  <1>15. Chat!ShownInOrder'
    <2>1. Chat!AllText(Chat!Attempt)' = Chat!AllText(n)
      BY <1>5, <1>6 DEF Chat!AllText, Chat!TextOf, Chat!Pieces
    <2>2. Chat!AllText(n) \in Seq(Piece)
      BY <1>3, AllTextOK
    <2>3. QED
      BY <1>1, <2>1, <2>2, EmptyBegins DEF Chat!ShownInOrder
  <1>16. Chat!RunningIsRegistered'
    BY <1>1, <1>2 DEF Chat!RunningIsRegistered
  <1>17. QED
    BY <1>9, <1>10, <1>11, <1>12, <1>13, <1>14, <1>15, <1>16 DEF ChatInv

LEMMA AnsweredOK ==
  ASSUME Chat!ChatRequestsAssumption, ChatInv, Chat!Answered
  PROVE  ChatInv'
  <1> DEFINE flushed == Chat!Flushed(Chat!Attempt)
  <1>1. /\ chatAt = "called" /\ chat \notin {"sent", "open"}
        /\ buffer' = [buffer EXCEPT ![Chat!Attempt] = <<>>]
        /\ UNCHANGED <<reply, stopRequested, registered, signalled, chatCancel, pieces,
                       cut>>
    BY DEF Chat!Answered, Chat!registry
  <1>2. /\ flushed \in Seq(Piece) /\ Chat!IsPrefix(flushed, Chat!AllText(Chat!Attempt))
    BY FlushedBegins
  <1>3. /\ reply \in Replies /\ Chat!Attempt \in Nat /\ got \in [Chat!Blocks -> Nat]
    BY AttemptOK DEF ChatInv, ChatTypeInv
  <1>4. \/ chat = "answer" /\ ~stopRequested /\ Chat!Ends(Chat!Answer.text, Chat!Answer)
        \/ shrinks < MaxShrinks /\ Chat!Repeats("called") /\ shrinks' = shrinks + 1
             /\ UNCHANGED retries
        \/ retries < MaxRetries /\ Chat!Repeats("waiting") /\ retries' = retries + 1
             /\ UNCHANGED shrinks
        \/ ~(chat = "answer" /\ ~stopRequested) /\ Chat!Ends(flushed, Chat!Salvaged(flushed))
    BY DEF Chat!Answered
  <1>5. CASE chat = "answer" /\ ~stopRequested /\ Chat!Ends(Chat!Answer.text, Chat!Answer)
    <2>1. Chat!Answer.text = Chat!TextOf(Chat!Attempt, got)
      BY DEF Chat!Answer
    <2>2. Chat!Answer.text \in Seq(Piece)
            /\ Chat!IsPrefix(Chat!Answer.text, Chat!AllText(Chat!Attempt))
      BY <1>3, <2>1, TextOK, GotBegins DEF ChatInv
    <2>3. QED
      BY <1>1, <1>5, <2>2, EndsOK
  <1>6. CASE \/ shrinks < MaxShrinks /\ Chat!Repeats("called") /\ shrinks' = shrinks + 1
                  /\ UNCHANGED retries
             \/ retries < MaxRetries /\ Chat!Repeats("waiting") /\ retries' = retries + 1
                  /\ UNCHANGED shrinks
    BY <1>1, <1>6, RepeatsOK
  <1>7. CASE ~(chat = "answer" /\ ~stopRequested)
             /\ Chat!Ends(flushed, Chat!Salvaged(flushed))
    <2> HIDE DEF flushed
    <2>1. \/ Chat!Salvaged(flushed) = None /\ flushed = <<>>
          \/ Chat!Salvaged(flushed) = [text |-> flushed, calls |-> <<>>]
      BY DEF Chat!Salvaged
    <2>2. QED
      BY <1>1, <1>2, <1>7, <2>1, EndsOK
  <1>8. QED
    BY <1>4, <1>5, <1>6, <1>7

-----------------------------------------------------------------------------
LEMMA ChatInitOK ==
  ASSUME Chat!ChatRequestsAssumption, Chat!Init
  PROVE  ChatInv
  <1>1. /\ reply \in Replies /\ chatAt = "called" /\ stopRequested = FALSE
        /\ retries = 0 /\ shrinks = 0 /\ item = <<>> /\ kept = None
        /\ chat = "sent" /\ got = Chat!Nothing /\ registered = FALSE /\ signalled = FALSE
        /\ chatCancel = "no" /\ cut = FALSE
        /\ pieces = [a \in Chat!AttemptIds |-> <<>>]
        /\ buffer = [a \in Chat!AttemptIds |-> <<>>]
    BY DEF Chat!Init
  <1>2. /\ Chat!Nothing \in [Chat!Blocks -> Nat]
        /\ \A i \in Chat!Blocks : Chat!Whole(i) \in Nat /\ Chat!Nothing[i] = 0
    BY <1>1, BlocksOK DEF Chat!Nothing
  <1>3. /\ pieces \in [Chat!AttemptIds -> Seq(Piece)]
        /\ buffer \in [Chat!AttemptIds -> Seq(Piece)]
        /\ \A a \in Chat!AttemptIds : pieces[a] = <<>> /\ buffer[a] = <<>>
    BY <1>1, EmptyOK
  <1>4. ChatTypeInv
    <2>1. MaxRetries \in Nat /\ MaxShrinks \in Nat
      BY DEF Chat!ChatRequestsAssumption
    <2>2. {stopRequested, registered, signalled, cut} \subseteq BOOLEAN
      BY <1>1
    <2>3. retries \in 0 .. MaxRetries /\ shrinks \in 0 .. MaxShrinks
      BY <1>1, <2>1
    <2>4. Chat!TypeOK
      BY <1>1, <1>2, <1>3, <2>2, <2>3 DEF Chat!TypeOK
    <2>5. QED
      BY <1>1, <1>2, <1>3, <2>4, EmptyOK DEF ChatTypeInv
  <1>5. CallOK /\ OrderOK /\ ChatKeptOK /\ Chat!RunningIsRegistered
    BY <1>1, <1>2 DEF CallOK, OrderOK, ChatKeptOK, Chat!RunningIsRegistered
  <1>6. FreshOK
    BY <1>3 DEF FreshOK
  <1>7. Chat!Attempt \in Nat /\ Chat!Attempt \in Chat!AttemptIds
    BY <1>4, AttemptOK
  <1>8. LineOK
    <2>1. Chat!TextOf(Chat!Attempt, got) = <<>>
      BY <1>1, <1>7, TextOfNothing
    <2>2. (<<>> \o <<>>) \o <<>> = <<>>
      OBVIOUS
    <2>3. QED
      BY <1>1, <1>3, <1>7, <2>1, <2>2 DEF LineOK
  <1>9. Chat!ShownInOrder
    BY <1>1, <1>7, AllTextOK, EmptyBegins DEF Chat!ShownInOrder
  <1>10. QED
    BY <1>4, <1>5, <1>6, <1>8, <1>9 DEF ChatInv

LEMMA ChatNextOK ==
  ASSUME Chat!ChatRequestsAssumption, ChatInv, Chat!Next \/ UNCHANGED Chat!vars
  PROVE  ChatInv'
  <1>1. CASE Chat!Begin
    BY <1>1, ChatBeginOK
  <1>2. CASE Chat!End \/ Chat!Fail \/ Chat!Cancelled
    BY <1>2, ResultOK
  <1>3. CASE Chat!CancelArrives \/ Chat!StopAgain
    BY <1>3, CancellationOK
  <1>4. CASE \E i \in Chat!Blocks : Chat!Feed(i)
    BY <1>4, FeedOK
  <1>5. CASE \E a \in Chat!AttemptIds : Chat!Delta(a) \/ Chat!Flush(a)
    BY <1>5, DeltaOK, FlushOK
  <1>6. CASE Chat!Answered \/ Chat!Retry \/ Chat!Stop \/ Chat!PageLoad
    BY <1>6, AnsweredOK, RetryOK, StopOK, ChatPageLoadOK
  <1>7. CASE UNCHANGED Chat!vars
    <2>1. /\ UNCHANGED <<reply, Chat!page, got, Chat!deltas>> /\ UNCHANGED <<chat, cut>>
          /\ UNCHANGED <<registered, signalled, chatCancel>>
      BY <1>7 DEF Chat!vars, Chat!registry
    <2>2. /\ registered \in BOOLEAN /\ signalled \in BOOLEAN /\ cut \in BOOLEAN
          /\ chatCancel \in {"no", "sent", "timer", "again", "done"}
      BY DEF ChatInv, ChatTypeInv, Chat!TypeOK
    <2>3. Chat!RunningIsRegistered'
      BY <2>1 DEF ChatInv, Chat!RunningIsRegistered
    <2>4. chat' = "answer" =>
            Chat!Finished = "answer"
              /\ (cut' <=> \E i \in Chat!Blocks : got[i] < Chat!Whole(i))
      BY <2>1 DEF ChatInv, CallOK
    <2>5. QED
      BY <2>1, <2>2, <2>3, <2>4, CommandOK
  <1>8. QED
    BY <1>1, <1>2, <1>3, <1>4, <1>5, <1>6, <1>7 DEF Chat!Next

\* The calls of an answer.
LEMMA AnswerOK ==
  ASSUME Chat!ChatRequestsAssumption, ChatInv
  PROVE  /\ Chat!Answer \in [text : Seq(Piece), calls : Seq(Pair)]
         /\ Chat!Answer.text = Chat!TextOf(Chat!Attempt, got)
         /\ Chat!Range(Chat!Answer.calls) = {<<i, got[i] - 1>> : i \in Chat!Named}
  <1> DEFINE S == {<<i, got[i] - 1>> : i \in Chat!Named}
             number == [i \in Chat!Named |-> <<i, got[i] - 1>>]
  <1>1. /\ reply \in Replies /\ Chat!Attempt \in Nat /\ got \in [Chat!Blocks -> Nat]
    BY AttemptOK DEF ChatInv, ChatTypeInv
  <1>2. /\ Chat!Named \subseteq Chat!Blocks /\ IsFiniteSet(Chat!Blocks)
        /\ Chat!Blocks \subseteq Nat
        /\ \A i \in Chat!Named : got[i] > 0
    BY <1>1, BlocksOK DEF Chat!Named
  <1>3. IsFiniteSet(Chat!Named)
    BY <1>2, FS_Subset
  <1>4. number \in Surjection(Chat!Named, S)
    <2>1. number \in [Chat!Named -> S] /\ \A s \in S : \E i \in Chat!Named : number[i] = s
      OBVIOUS
    <2> HIDE DEF S, number
    <2>2. QED
      BY <2>1 DEF Surjection
  <1>5. S \in SUBSET Pair
    <2>1. \A i \in Chat!Named : i \in Nat /\ got[i] - 1 \in Nat
      BY <1>1, <1>2
    <2>2. QED
      BY <2>1 DEF Pair
  <1>6. Chat!Answer = [text |-> Chat!TextOf(Chat!Attempt, got), calls |-> Chat!InOrder(S)]
    BY DEF Chat!Answer
  <1> HIDE DEF S, number
  <1>7. IsFiniteSet(S)
    BY <1>3, <1>4, FS_Surjection
  <1>8. /\ Chat!InOrder(S) \in Seq(S) /\ DOMAIN Chat!InOrder(S) = 1 .. Cardinality(S)
        /\ \A n \in 1 .. Cardinality(S) : Chat!InOrder(S)[n] \in S
        /\ \A x \in S : \E n \in 1 .. Cardinality(S) : Chat!InOrder(S)[n] = x
    BY <1>5, <1>7, InOrderOK
  <1>9. Chat!Range(Chat!InOrder(S)) = S
    BY <1>8 DEF Chat!Range
  <1>10. Chat!InOrder(S) \in Seq(Pair)
    BY <1>5, <1>8
  <1>11. Chat!TextOf(Chat!Attempt, got) \in Seq(Piece)
    BY <1>1, TextOK
  <1>12. QED
    BY <1>6, <1>9, <1>10, <1>11 DEF S

LEMMA ChatInvSays ==
  ASSUME Chat!ChatRequestsAssumption, ChatInv
  PROVE  Chat!TypeOK /\ Chat!ShownInOrder /\ Chat!KeptAsShown /\ Chat!RunningIsRegistered
  <1>1. Chat!TypeOK /\ Chat!ShownInOrder /\ Chat!RunningIsRegistered
    BY DEF ChatInv, ChatTypeInv
  <1>2. ASSUME chatAt = "ended"
        PROVE  IF kept = None THEN item = <<>>
               ELSE /\ kept.text = item
                    /\ \A c \in Chat!Range(kept.calls) :
                         c[2] = reply.blocks[c[1]].pieces \/ (c[2] = 0 /\ cut)
                    /\ chat = "answer" /\ ~stopRequested /\ ~cut =>
                         /\ item = Chat!AllText(Chat!Attempt)
                         /\ {c[1] : c \in Chat!Range(kept.calls)} =
                              {i \in Chat!Blocks : reply.blocks[i].kind = "call"
                                                   /\ reply.blocks[i].lacks # "name"}
    <2>1. \/ kept = None /\ item = <<>>
          \/ kept = [text |-> item, calls |-> <<>>] /\ ~(chat = "answer" /\ ~stopRequested)
          \/ kept = Chat!Answer /\ item = Chat!Answer.text /\ chat = "answer"
      BY <1>2 DEF ChatInv, ChatKeptOK
    <2>2. None \notin [text : Seq(Piece), calls : Seq(Pair)]
      BY DEF Chat!ChatRequestsAssumption, Piece, Pair
    <2>3. CASE kept = None /\ item = <<>>
      BY <2>3
    <2>4. CASE kept = [text |-> item, calls |-> <<>>]
               /\ ~(chat = "answer" /\ ~stopRequested)
      <3>1. kept.text = item /\ kept.calls = <<>>
        BY <2>4
      <3>2. Chat!Range(<<>>) = {}
        BY DEF Chat!Range
      <3>3. item \in Seq(Piece) /\ <<>> \in Seq(Pair)
        BY DEF ChatInv, ChatTypeInv
      <3>4. [text |-> item, calls |-> <<>>] \in [text : Seq(Piece), calls : Seq(Pair)]
        BY <3>3
      <3>5. kept # None
        BY <2>2, <2>4, <3>4
      <3>6. QED
        BY <2>4, <3>1, <3>2, <3>5
    <2>5. CASE kept = Chat!Answer /\ item = Chat!Answer.text /\ chat = "answer"
      <3>1. /\ kept # None /\ kept.text = item /\ item = Chat!TextOf(Chat!Attempt, got)
            /\ Chat!Range(kept.calls) = {<<i, got[i] - 1>> : i \in Chat!Named}
        BY <2>2, <2>5, AnswerOK
      <3>2. /\ Chat!Finished = "answer"
                 /\ (cut <=> \E i \in Chat!Blocks : got[i] < Chat!Whole(i))
        BY <2>5 DEF ChatInv, CallOK
      <3>3. /\ reply \in Replies /\ got \in [Chat!Blocks -> Nat]
            /\ \A i \in Chat!Blocks : got[i] \in 0 .. Chat!Whole(i)
        BY AttemptOK DEF ChatInv, ChatTypeInv, Chat!TypeOK
      <3>4. \A i \in Chat!Blocks : /\ Chat!Whole(i) = 1 + reply.blocks[i].pieces
                                   /\ reply.blocks[i].pieces \in Nat
        BY <3>3, BlocksOK DEF Chat!Whole
      <3>5. \A i \in Chat!Named :
              i \in Chat!Blocks /\ (got[i] = 1 \/ got[i] = Chat!Whole(i))
        BY <3>2 DEF Chat!Finished, Chat!Spoilt, Chat!Named
      <3>6. ASSUME NEW c \in Chat!Range(kept.calls)
            PROVE  c[2] = reply.blocks[c[1]].pieces \/ (c[2] = 0 /\ cut)
        <4>1. PICK i \in Chat!Named : c = <<i, got[i] - 1>>
          BY <3>1
        <4>2. c[1] = i /\ c[2] = got[i] - 1 /\ i \in Chat!Blocks
          BY <3>5, <4>1
        <4>3. CASE got[i] = Chat!Whole(i)
          BY <3>4, <4>2, <4>3
        <4>4. CASE got[i] = 1 /\ got[i] # Chat!Whole(i)
          <5>1. got[i] < Chat!Whole(i)
            BY <3>3, <3>4, <4>2, <4>4
          <5>2. QED
            BY <3>2, <4>2, <4>4, <5>1
        <4>5. QED
          BY <3>5, <4>3, <4>4
      <3>7. ASSUME ~cut
            PROVE  /\ item = Chat!AllText(Chat!Attempt)
                   /\ {c[1] : c \in Chat!Range(kept.calls)} =
                        {i \in Chat!Blocks : reply.blocks[i].kind = "call"
                                             /\ reply.blocks[i].lacks # "name"}
        <4>1. \A i \in Chat!Blocks : got[i] = Chat!Whole(i) /\ got[i] > 0
          BY <3>2, <3>3, <3>4, <3>7
        <4>2. got = [i \in Chat!Blocks |-> Chat!Whole(i)]
          BY <3>3, <4>1
        <4>3. item = Chat!AllText(Chat!Attempt)
          BY <3>1, <4>2 DEF Chat!AllText
        <4>4. Chat!Named = {i \in Chat!Blocks : reply.blocks[i].kind = "call"
                                                /\ reply.blocks[i].lacks # "name"}
          BY <4>1 DEF Chat!Named
        <4>5. {c[1] : c \in Chat!Range(kept.calls)} = Chat!Named
          <5>1. \A i : <<i, got[i] - 1>>[1] = i
            OBVIOUS
          <5>2. {c[1] : c \in Chat!Range(kept.calls)} =
                  {<<i, got[i] - 1>>[1] : i \in Chat!Named}
            <6>1. \A x : x \in {c[1] : c \in Chat!Range(kept.calls)}
                        => x \in {<<i, got[i] - 1>>[1] : i \in Chat!Named}
              BY <3>1, Zenon
            <6>2. \A x : x \in {<<i, got[i] - 1>>[1] : i \in Chat!Named}
                        => x \in {c[1] : c \in Chat!Range(kept.calls)}
              BY <3>1, Zenon
            <6>3. QED
              BY <6>1, <6>2
          <5>3. QED
            BY <5>1, <5>2
        <4>6. QED
          BY <4>3, <4>4, <4>5
      <3>8. QED
        BY <3>1, <3>6, <3>7
    <2>6. QED
      BY <2>1, <2>3, <2>4, <2>5
  <1>3. Chat!KeptAsShown
    BY <1>2 DEF Chat!KeptAsShown
  <1>4. QED
    BY <1>1, <1>3

-----------------------------------------------------------------------------
(* What is promised of each of them, for any number of prompts, shells,    *)
(* clicks, views and pieces of text.                                       *)

LEMMA AskInvHolds ==
  ASSUME Asking!ConnectionPromptsAssumption
  PROVE  Asking!Spec => []AskInv
  <1>1. Asking!Init => AskInv
    BY AskInitOK
  <1>2. AskInv /\ [Asking!Next]_Asking!vars => AskInv'
    BY AskNextOK
  <1>3. QED
    BY <1>1, <1>2, PTL DEF Asking!Spec

(* A connection never waits for an answer to a question that the page does *)
(* not show, and a question that has ended is not shown again:             *)
(* listenHostKeyEvents, recoverPendingPrompts and the queue of prompts     *)
(* across reloads.                                                         *)
THEOREM PromptsAreAsked ==
  ASSUME Asking!ConnectionPromptsAssumption
  PROVE  Asking!Spec => []Asking!PromptsAreTrue
  <1>1. AskInv => Asking!PromptsAreTrue
    BY AskInvSays
  <1>2. QED
    BY <1>1, AskInvHolds, PTL

LEMMA PaneInvHolds ==
  ASSUME Panes!LocalTerminalsAssumption
  PROVE  Panes!Spec => []PaneInv
  <1>1. Panes!Init => PaneInv
    BY PaneInitOK
  <1>2. PaneInv /\ [Panes!Next]_Panes!vars => PaneInv'
    BY PaneNextOK
  <1>3. QED
    BY <1>1, <1>2, PTL DEF Panes!Spec

(* A shell that runs is in the map of local terminals, where it can be     *)
(* closed, and a pane shows a shell that is there, however opens, closes   *)
(* and exits cross each other.                                             *)
THEOREM ShellsHavePanes ==
  ASSUME Panes!LocalTerminalsAssumption
  PROVE  Panes!Spec => [](Panes!ShellsAreKept /\ Panes!PanesAreTrue)
  <1>1. PaneInv => Panes!ShellsAreKept /\ Panes!PanesAreTrue
    BY PaneInvSays
  <1>2. QED
    BY <1>1, PaneInvHolds, PTL

LEMMA AccountInvHolds ==
  ASSUME Account!SignInAssumption
  PROVE  Account!Spec => []AccountInv
  <1>1. Account!Init => AccountInv
    BY AccountInitOK
  <1>2. AccountInv /\ [Account!Next]_Account!vars => AccountInv'
    BY AccountNextOK
  <1>3. QED
    BY <1>1, <1>2, PTL DEF Account!Spec

(* A connect uses the account the page showed, and once nothing is on its  *)
(* way the page shows the state of the sign-in, however flows are begun,   *)
(* cancelled and late.                                                     *)
THEOREM SignInsAreTrue ==
  ASSUME Account!SignInAssumption
  PROVE  Account!Spec => [](Account!ConnectsAsShown /\ Account!PhaseIsTrue)
  <1>1. AccountInv => Account!ConnectsAsShown /\ Account!PhaseIsTrue
    BY AccountInvSays
  <1>2. QED
    BY <1>1, AccountInvHolds, PTL

LEMMA UpdateInvHolds ==
  ASSUME Updates!AppUpdatesAssumption
  PROVE  Updates!Spec => []UpdateInv
  <1>1. Updates!Init => UpdateInv
    BY UpdateInitOK
  <1>2. UpdateInv /\ [Updates!Next]_Updates!vars => UpdateInv'
    BY UpdateNextOK
  <1>3. QED
    BY <1>1, <1>2, PTL DEF Updates!Spec

(* A status that says something goes on has an operation that ends it, and *)
(* a view that has read its events shows the status as it is:              *)
(* update_service and the hook that follows it.                            *)
THEOREM UpdatesAreShown ==
  ASSUME Updates!AppUpdatesAssumption
  PROVE  Updates!Spec => [](Updates!BusyHasOwner /\ Updates!ViewIsTrue)
  <1>1. UpdateInv => Updates!BusyHasOwner /\ Updates!ViewIsTrue
    BY UpdateInvSays
  <1>2. QED
    BY <1>1, UpdateInvHolds, PTL

LEMMA ChatInvHolds ==
  ASSUME Chat!ChatRequestsAssumption
  PROVE  Chat!Spec => []ChatInv
  <1>1. Chat!Init => ChatInv
    BY ChatInitOK
  <1>2. ChatInv /\ [Chat!Next]_Chat!vars => ChatInv'
    BY ChatNextOK
  <1>3. QED
    BY <1>1, <1>2, PTL DEF Chat!Spec

(* The page shows the beginning of one attempt without a gap, and keeps of *)
(* a reply what it has shown, whatever is retried, cancelled, late or cut  *)
(* off.                                                                    *)
THEOREM RepliesAreKept ==
  ASSUME Chat!ChatRequestsAssumption
  PROVE  Chat!Spec => [](Chat!ShownInOrder /\ Chat!KeptAsShown)
  <1>1. ChatInv => Chat!ShownInOrder /\ Chat!KeptAsShown
    BY ChatInvSays
  <1>2. QED
    BY <1>1, ChatInvHolds, PTL

(* A request that runs is in the registry, where it can be cancelled, or   *)
(* has been signalled, and none that has ended is.                         *)
THEOREM RequestsAreRegistered ==
  ASSUME Chat!ChatRequestsAssumption
  PROVE  Chat!Spec => []Chat!RunningIsRegistered
  <1>1. ChatInv => Chat!RunningIsRegistered
    BY ChatInvSays
  <1>2. QED
    BY <1>1, ChatInvHolds, PTL
=============================================================================
