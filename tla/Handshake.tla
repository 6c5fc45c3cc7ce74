----------------------------- MODULE Handshake ------------------------------
(***************************************************************************)
(* How a connection comes about (ssh/connect.rs, handler.rs, known_hosts.rs,*)
(* agent.rs, proxy.rs): through a proxy and jump hosts, with the key of    *)
(* each host checked or accepted by the user, and then with a saved        *)
(* password, a key, an agent or answers of the user.                       *)
(*                                                                         *)
(* Several connections are opened at the same time and remember keys in    *)
(* one file.  A server shows any key and answers as the protocol allows.   *)
(* Rejected credentials, lost connections and timeouts are one end,        *)
(* "failed".  The life of a question on the page is in ConnectionPrompts.  *)
(***************************************************************************)
EXTENDS Naturals, Sequences

CONSTANTS
  Conn, Server, Key,
  Algorithm,      \* Algorithm[k]: what kind of key k is
  Hops,           \* Hops[c]: the [server, auth] that lead to the host of c
  Proxies,        \* the proxies that may be active
  Known,          \* what the files of known hosts may hold in the beginning
  MaxRounds,      \* of keyboard-interactive questions: 8 in the code
  MaxQuestions,   \* in one round: 16 in the code
  None

Auth == {"saved", "unsaved", "key", "agent", "automatic"}
Method == {"password", "interactive", "publickey"}

HandshakeAssumption ==
  /\ \A c \in Conn : Hops[c] \in Seq([server : Server, auth : Auth]) /\ Hops[c] # <<>>
  /\ Proxies \subseteq {"none", "socks", "socks login", "http"}
  /\ Known \subseteq SUBSET (Server \X Key)
  /\ MaxRounds \in Nat /\ MaxQuestions \in Nat /\ None \notin Conn \cup Key

VARIABLES
  proxy,       \* the active proxy
  app, user,   \* the known_hosts of the app and of the user: <<server, key>>
  lock,        \* who holds WRITE_LOCK
  copy,        \* copy[c]: what c has read of the file it is to rewrite
  pc,          \* pc[c]: the await the connection stands at
  hop,         \* hop[c]: the hop it deals with
  shown,       \* shown[c]: the key the server of this hop shows
  offer,       \* offer[c]: what keyboard_interactive may answer by itself
  hidden,      \* hidden[c]: a hidden question was answered already
  rounds, left, answers,
  sent,        \* history: what servers were told
  vouched,     \* vouched[c]: history: <<server, key>> known or accepted for c
  remembered,  \* history: remembered[s][a]: the key remembered last
  partly       \* partly[c]: history: the password was one step of several

files == <<app, user, lock, copy>>
talk == <<offer, hidden, rounds, left, answers>>
history == <<sent, vouched, remembered, partly>>
vars == <<proxy, files, pc, hop, shown, talk, history>>

Algorithms == {Algorithm[k] : k \in Key}
ServerOf(c) == Hops[c][hop[c]].server
AuthOf(c) == Hops[c][hop[c]].auth
Pair(c) == <<ServerOf(c), shown[c]>>

Init ==
  /\ proxy \in Proxies
  /\ app \in Known /\ user \in Known     \* the user's is written by other programs
  /\ lock = None /\ copy = [c \in Conn |-> {}]
  /\ pc = [c \in Conn |-> "idle"] /\ hop = [c \in Conn |-> 1]
  /\ shown = [c \in Conn |-> None]
  /\ offer = [c \in Conn |-> "none"] /\ hidden = [c \in Conn |-> FALSE]
  /\ rounds = [c \in Conn |-> 0] /\ left = [c \in Conn |-> 0]
  /\ answers = [c \in Conn |-> {}]
  /\ sent = {} /\ vouched = [c \in Conn |-> {}] /\ partly = [c \in Conn |-> FALSE]
  /\ remembered = [s \in Server |-> [a \in Algorithms |->
       IF \E x \in app : x[1] = s /\ Algorithm[x[2]] = a
       THEN (CHOOSE x \in app : x[1] = s /\ Algorithm[x[2]] = a)[2] ELSE None]]

Goto(c, next) == pc' = [pc EXCEPT ![c] = next]
At(c, at) == pc[c] = at

-----------------------------------------------------------------------------
(* The way to the server of a hop: proxy::connect for the first, a channel *)
(* of the hop before for the others.                                       *)

Connect(c) ==
  /\ At(c, "idle") /\ Goto(c, "dial")
  /\ UNCHANGED <<proxy, files, hop, shown, talk, history>>

Dial(c) ==
  /\ At(c, "dial")
  /\ Goto(c, IF hop[c] > 1 \/ proxy = "none" THEN "key"
             ELSE IF proxy = "http" THEN "tunnel" ELSE "greet")
  /\ UNCHANGED <<proxy, files, hop, shown, talk, history>>

(* The proxy has to choose the one method that was offered.                *)
Greet(c) ==
  /\ At(c, "greet")
  /\ \E method \in {"socks", "socks login"} :
       Goto(c, IF method # proxy THEN "failed"
               ELSE IF method = "socks" THEN "tunnel" ELSE "login")
  /\ UNCHANGED <<proxy, files, hop, shown, talk, history>>

Login(c) ==
  /\ At(c, "login") /\ Goto(c, "tunnel")
  /\ UNCHANGED <<proxy, files, hop, shown, talk, history>>

Tunnel(c) ==
  /\ At(c, "tunnel") /\ Goto(c, "key")
  /\ UNCHANGED <<proxy, files, hop, shown, talk, history>>

-----------------------------------------------------------------------------
(* check_server_key.                                                       *)

(* check_known_hosts_path of one file: another key of the same kind makes  *)
(* the whole file say no.                                                  *)
Confirms(f, s, k) ==
  <<s, k>> \in f /\ \A x \in f : x[1] = s /\ Algorithm[x[2]] = Algorithm[k] => x[2] = k

TrustedByName(s, k) == \E x \in app \cup user : x[1] = s   \* a fault: any key will do

Trusted(s, k) == Confirms(app, s, k) \/ Confirms(user, s, k)

ShowKey(c) ==
  /\ At(c, "key")
  /\ \E k \in Key :
       /\ shown' = [shown EXCEPT ![c] = k]
       /\ Goto(c, IF Trusted(ServerOf(c), k) THEN "agreed" ELSE "ask key")
       /\ vouched' = [vouched EXCEPT ![c] = @ \cup ({<<ServerOf(c), k>>} \cap (app \cup user))]
  /\ UNCHANGED <<proxy, files, hop, talk, sent, remembered, partly>>

Accept(c) == vouched' = [vouched EXCEPT ![c] = @ \cup {Pair(c)}]

(* The user's answer; no answer in 15 minutes is a no.  The timeout of the *)
(* handshake does not run in the meantime.                                 *)
DecideKey(c) ==
  /\ At(c, "ask key")
  /\ \/ Goto(c, "failed") /\ UNCHANGED vouched
     \/ Goto(c, "agreed") /\ Accept(c)
     \/ Goto(c, "learn") /\ Accept(c)
  /\ UNCHANGED <<proxy, files, hop, shown, talk, sent, remembered, partly>>

(* remember_path: the file is read and written under a lock.               *)
MayRead(c) == lock = None

NoLock(c) == TRUE                        \* a fault: nobody waits for the lock

Learn(c) ==
  /\ At(c, "learn") /\ MayRead(c) /\ lock' = c /\ Goto(c, "write")
  /\ copy' = [copy EXCEPT ![c] = app]
  /\ UNCHANGED <<proxy, app, user, hop, shown, talk, history>>

(* replace_host_entry: the entries of this server with a key of this kind  *)
(* make room for the new one.                                              *)
Replaced(f, s, k) ==
  {x \in f : ~(x[1] = s /\ Algorithm[x[2]] = Algorithm[k])} \cup {<<s, k>>}

WriteFile(c) ==
  /\ At(c, "write") /\ lock' = None /\ Goto(c, "agreed")
  /\ app' = Replaced(copy[c], ServerOf(c), shown[c])
  /\ remembered' = [remembered EXCEPT ![ServerOf(c)][Algorithm[shown[c]]] = shown[c]]
  /\ copy' = [copy EXCEPT ![c] = {}]
  /\ UNCHANGED <<proxy, user, hop, shown, talk, sent, vouched, partly>>

(* The write goes to a file of its own that takes the name: it fails as a  *)
(* whole, and the connection with it.                                      *)
WriteFails(c) ==
  /\ At(c, "write") /\ lock' = None /\ Goto(c, "failed")
  /\ copy' = [copy EXCEPT ![c] = {}]
  /\ UNCHANGED <<proxy, app, user, hop, shown, talk, history>>

-----------------------------------------------------------------------------
(* authenticate.  What the server answers: success, or what it would       *)
(* accept, and whether this was one step of several.                       *)

Tell(c, secret, how) ==
  sent' = sent \cup {[conn |-> c, to |-> Pair(c), secret |-> secret, how |-> how]}

(* The hop is done: on to the next, or the connection is up.               *)
Passed(c) ==
  /\ offer' = [offer EXCEPT ![c] = "none"] /\ hidden' = [hidden EXCEPT ![c] = FALSE]
  /\ rounds' = [rounds EXCEPT ![c] = 0] /\ left' = [left EXCEPT ![c] = 0]
  /\ answers' = [answers EXCEPT ![c] = {}]
  /\ IF hop[c] = Len(Hops[c]) THEN Goto(c, "up") /\ UNCHANGED <<hop, partly>>
     ELSE Goto(c, "dial") /\ hop' = [hop EXCEPT ![c] = @ + 1]
          /\ partly' = [partly EXCEPT ![c] = FALSE]

Interactive(c, password, partial) ==
  /\ Goto(c, "round") /\ offer' = [offer EXCEPT ![c] = password]
  /\ partly' = [partly EXCEPT ![c] = partial]
  /\ UNCHANGED <<hop, hidden, rounds, left, answers>>

Stays(c, next) == Goto(c, next) /\ UNCHANGED <<hop, talk, partly>>

(* The password goes on to the questions unless it has been accepted.      *)
Reusable(password, partial) == IF partial THEN "none" ELSE password

AlwaysReused(password, partial) == password       \* a fault: whatever the server said

(* authenticate_password with the saved or a typed one.                    *)
TryPassword(c, secret) ==
  /\ Tell(c, secret, "password")
  /\ \/ Passed(c)
     \/ \E partial \in BOOLEAN : Interactive(c, Reusable(secret, partial), partial)
     \/ Stays(c, "failed")
  /\ UNCHANGED <<proxy, files, shown, vouched, remembered>>

WithSaved(c) == At(c, "agreed") /\ AuthOf(c) = "saved" /\ TryPassword(c, "saved")

(* authenticate_none: with these methods the connection goes on.           *)
WithoutSaved(methods) ==
  IF "password" \in methods THEN "ask password"
  ELSE IF "interactive" \in methods THEN "round" ELSE "failed"

Probe(c) ==
  /\ At(c, "agreed") /\ AuthOf(c) \in {"unsaved", "automatic"}
  /\ \/ Passed(c)
     \/ \E methods \in SUBSET Method :
          \/ Stays(c, WithoutSaved(methods))
          \/ AuthOf(c) = "automatic" /\ "publickey" \in methods /\ Passed(c)
          \/ AuthOf(c) = "automatic" /\ "publickey" \in methods /\ Interactive(c, "none", TRUE)
  /\ UNCHANGED <<proxy, files, shown, sent, vouched, remembered>>

(* A key, or the agent with each of its keys.                              *)
ByKey(c) ==
  /\ At(c, "agreed") /\ AuthOf(c) \in {"key", "agent"}
  /\ Passed(c) \/ Interactive(c, "none", TRUE) \/ Stays(c, "failed")
  /\ UNCHANGED <<proxy, files, shown, sent, vouched, remembered>>

TypePassword(c) == At(c, "ask password") /\ TryPassword(c, "typed")

-----------------------------------------------------------------------------
(* keyboard_interactive.                                                   *)

Round(c) ==
  /\ At(c, "round") /\ rounds[c] < MaxRounds
  /\ \/ Passed(c)
     \/ Stays(c, "failed")
     \/ \E n \in 0 .. MaxQuestions :
          /\ left' = [left EXCEPT ![c] = n] /\ rounds' = [rounds EXCEPT ![c] = @ + 1]
          /\ Goto(c, "answer") /\ UNCHANGED <<hop, offer, hidden, answers, partly>>
  /\ UNCHANGED <<proxy, files, shown, sent, vouched, remembered>>

TooManyRounds(c) ==
  /\ At(c, "round") /\ rounds[c] = MaxRounds /\ Stays(c, "failed")
  /\ UNCHANGED <<proxy, files, shown, sent, vouched, remembered>>

(* The first hidden question gets the password that is at hand.            *)
ByItself(c, echo) == ~echo /\ ~hidden[c] /\ offer[c] # "none"

EveryHidden(c, echo) == offer[c] # "none"       \* a fault: whatever is asked

Answer(c, echo) ==
  LET secret == IF ByItself(c, echo) THEN offer[c] ELSE "typed" IN
  /\ answers' = [answers EXCEPT ![c] =
       @ \cup {<<secret, IF echo THEN "echoed" ELSE IF hidden[c] THEN "again" ELSE "hidden">>}]
  /\ offer' = [offer EXCEPT ![c] = IF ByItself(c, echo) THEN "none" ELSE @]
  /\ hidden' = [hidden EXCEPT ![c] = @ \/ ~echo]
  /\ left' = [left EXCEPT ![c] = @ - 1]
  /\ UNCHANGED <<hop, rounds, partly>>

Question(c) ==
  /\ At(c, "answer") /\ left[c] > 0
  /\ \E echo \in BOOLEAN : Answer(c, echo)
  /\ UNCHANGED <<proxy, files, pc, shown, history>>

Respond(c) ==
  /\ At(c, "answer") /\ left[c] = 0 /\ Goto(c, "round")
  /\ sent' = sent \cup {[conn |-> c, to |-> Pair(c), secret |-> a[1], how |-> a[2]] :
                          a \in answers[c]}
  /\ answers' = [answers EXCEPT ![c] = {}]
  /\ UNCHANGED <<proxy, files, hop, shown, offer, hidden, rounds, left, vouched,
                 remembered, partly>>

(* An error of a call, a timeout, a prompt that nobody answers or the end  *)
(* of the session that waits: all but the write of the file, which does    *)
(* not wait.                                                               *)
Fail(c) ==
  /\ pc[c] \notin {"idle", "learn", "write", "up", "failed"} /\ Goto(c, "failed")
  /\ UNCHANGED <<proxy, files, hop, shown, talk, history>>

Next ==
  \E c \in Conn :
    \/ Connect(c) \/ Dial(c) \/ Greet(c) \/ Login(c) \/ Tunnel(c)
    \/ ShowKey(c) \/ DecideKey(c) \/ Learn(c) \/ WriteFile(c) \/ WriteFails(c)
    \/ WithSaved(c) \/ Probe(c) \/ ByKey(c) \/ TypePassword(c)
    \/ Round(c) \/ TooManyRounds(c) \/ Question(c) \/ Respond(c) \/ Fail(c)

Spec == Init /\ [][Next]_vars

-----------------------------------------------------------------------------
TypeOK ==
  /\ app \subseteq Server \X Key /\ user \subseteq Server \X Key
  /\ lock \in Conn \cup {None} /\ copy \in [Conn -> SUBSET (Server \X Key)]
  /\ shown \in [Conn -> Key \cup {None}] /\ offer \in [Conn -> {"none", "saved", "typed"}]
  /\ rounds \in [Conn -> 0 .. MaxRounds] /\ left \in [Conn -> 0 .. MaxQuestions]
  /\ \A c \in Conn : hop[c] \in 1 .. Len(Hops[c])

(* No server is told a password or an answer unless its key was in a file  *)
(* when it was shown or the user accepted it for this very connection:     *)
(* what was accepted once for one connection is asked anew for another.    *)
SecretsAreGuarded == \A x \in sent : x.to \in vouched[x.conn]

(* A password that keyboard_interactive gives by itself answers the first  *)
(* hidden question and no other, and none if the server has accepted it.   *)
PasswordIsSpared ==
  /\ \A x \in sent : x.secret = "saved" => x.how \in {"password", "hidden"}
  /\ \A c \in Conn : partly[c] => offer[c] = "none"

(* A key that was remembered stays, whatever other connections remember at *)
(* the same time, until another one of its kind takes its place.           *)
RememberedStays ==
  \A s \in Server, a \in Algorithms :
    remembered[s][a] # None => <<s, remembered[s][a]>> \in app
=============================================================================
