------------------------------ MODULE Sessions ------------------------------
(***************************************************************************)
(* Logging in and looking up who is there.  Every client has one command   *)
(* connection and the server one thread per connection                     *)
(* (Server.initTransmission); the threads share two HashMaps without any   *)
(* lock: user_list, from a student to the connection he logged in with     *)
(* last, and socket_list, from a connection to the student.  Nothing is    *)
(* ever removed from them: whether a student is still there is found out   *)
(* by writing a byte to his connection (checkConnectionStatus).            *)
(*                                                                         *)
(* The client asks again every time it has waited for half a second,      *)
(* whether or not an answer has come, and may ask for another ID.          *)
(*                                                                         *)
(* A connection is used by one client process and never reused: a student  *)
(* who comes back comes with another connection, from another port, which  *)
(* the server's comparison of remote addresses tells from the first.       *)
(***************************************************************************)
EXTENDS Integers, Sequences, FiniteSets, HashMaps

CONSTANTS
  Ids,       \* student IDs the server accepts, as it spells them itself
  Typed,     \* what may be typed at the prompt
  Parse,     \* what Integer.parseInt makes of it
  Conns,     \* the connections, one for each start of a client
  NoConn,
  MaxQueue,  \* bound: lines on their way between a client and its thread
  MaxLines,  \* bound: lines a client sends in all (0: no bound)
  Listers,   \* bound: the connections whose user asks for the list
  Vanishers, \* bound: the connections whose machine may disappear
  Lossy      \* what `lossy` may be

ASSUME SessionsAssumption ==
  /\ Ids \subseteq Typed
  /\ Parse \in [Typed -> Ids \cup {"invalid", "empty"}]
  /\ \A u \in Ids : Parse[u] = u
  /\ "uList" \notin Typed /\ NoConn \notin Conns
  /\ Listers \subseteq Conns /\ Vanishers \subseteq Conns
  /\ MaxQueue \in Nat \ {0} /\ MaxLines \in Nat /\ Lossy \subseteq BOOLEAN

VARIABLES
  lossy,        \* may puts that overlap lose entries of an unlocked
                \* HashMap? (fixed)
  user_list,    \* typed name -> connection, a partial function
  socket_list,  \* connection -> typed name, a partial function
  dirs,         \* the names that have a directory
  net,          \* what the server's kernel knows of each connection
  inbox,        \* lines sent by the client and not read by the server
  outbox,       \* lines sent by the server and not read by the client
  pinged,       \* has a ping been written since the last line?
  th,           \* the server's threads and their local variables
  cl,           \* the clients
  contested     \* history: the names whose entry in user_list was lost, or
                \* taken from a connection that the login had not found

maps == <<lossy, user_list, socket_list, dirs, contested>>
wires == <<net, inbox, outbox, pinged>>
vars == <<maps, wires, th, cl>>

(* The local variables live for one turn of the loop.                      *)
Thread(pc) == [pc |-> pc, req |-> "uList", verdict |-> "none", found |-> NoConn,
               todo |-> {}, keys |-> {}, shown |-> {}]

(* A client: where its main thread is, the name typed last (username), the *)
(* flag set by authListener, and whether the main thread sleeps.           *)
(* `sent` counts its lines when they are bounded.                          *)
Client(at) == [at |-> at, name |-> "uList", auth |-> FALSE, waiting |-> FALSE,
               sent |-> 0]

Init ==
  /\ lossy \in Lossy
  /\ user_list = EmptyMap /\ socket_list = EmptyMap /\ dirs = {} /\ contested = {}
  /\ net = [c \in Conns |-> "none"]
  /\ inbox = [c \in Conns |-> <<>>] /\ outbox = [c \in Conns |-> <<>>]
  /\ pinged = [c \in Conns |-> FALSE]
  /\ th = [c \in Conns |-> Thread("idle")]
  /\ cl = [c \in Conns |-> Client("absent")]

-----------------------------------------------------------------------------
(* The network.  A client that ends sends a FIN, or a reset when lines it  *)
(* never read are left; one whose machine disappears sends nothing.  The   *)
(* first write after a FIN succeeds and is answered with a reset; writes   *)
(* fail only once the reset is there, or the kernel has given up.          *)

AfterWrite(n) == IF n = "fin" THEN "fin_w" ELSE n

(* The byte of checkConnectionStatus, written to the connection d: it will *)
(* stand before the next line there.                                       *)
PingWrites(d) ==
  /\ net' = [net EXCEPT ![d] = AfterWrite(@)]
  /\ pinged' = [pinged EXCEPT ![d] = net[d] = "open"]

NetReset(c) ==
  /\ net[c] \in {"fin_w", "gone"}
  /\ net' = [net EXCEPT ![c] = "reset"]
  /\ UNCHANGED <<maps, inbox, outbox, pinged, th, cl>>

-----------------------------------------------------------------------------
(* The clients.                                                            *)

Connect(c) ==
  /\ cl[c].at = "absent"
  /\ cl' = [cl EXCEPT ![c] = Client("login")]
  /\ net' = [net EXCEPT ![c] = "open"]
  /\ UNCHANGED <<maps, inbox, outbox, pinged, th>>

(* A line is sent, within the bounds.                                      *)
Send(c, line) ==
  /\ Len(inbox[c]) + Len(outbox[c]) < MaxQueue
  /\ MaxLines = 0 \/ cl[c].sent < MaxLines
  /\ inbox' = [inbox EXCEPT ![c] = Append(@, line)]
Sent(c) == IF MaxLines = 0 THEN 0 ELSE cl[c].sent + 1

(* What the reading of one line leaves to be read: both programs make a    *)
(* new BufferedReader for every line, and with the old one goes whatever   *)
(* it had read ahead.                                                      *)
Rests(queue) == {SubSeq(queue, k + 1, Len(queue)) : k \in 1..Len(queue)}

(* The main thread: sendCred, then half a second of sleep.                 *)
Ask(c, t) ==
  /\ cl[c].at = "login" /\ ~cl[c].waiting /\ Send(c, t)
  /\ cl' = [cl EXCEPT ![c].name = t, ![c].waiting = TRUE, ![c].sent = Sent(c)]
  /\ UNCHANGED <<maps, net, outbox, pinged, th>>

Wake(c) ==
  /\ cl[c].at = "login" /\ cl[c].waiting
  /\ cl' = [cl EXCEPT ![c].waiting = FALSE,
                      ![c].at = IF cl[c].auth THEN "home" ELSE "login"]
  /\ UNCHANGED <<maps, wires, th>>

(* authListener, until the first "Yes:"; a ping before it spoils the line. *)
(* At home, commandListener takes any line.                                *)
Listen(c) ==
  /\ outbox[c] # <<>>
  /\ (cl[c].at = "login" /\ ~cl[c].auth) \/ cl[c].at = "home"
  /\ \E rest \in Rests(outbox[c]) :
       /\ outbox' = [outbox EXCEPT ![c] = rest]
       /\ \/ UNCHANGED pinged
          \/ rest = <<>> /\ pinged' = [pinged EXCEPT ![c] = FALSE]
  /\ cl' = [cl EXCEPT ![c].auth = @ \/ Head(outbox[c]) = <<"Yes", FALSE>>]
  /\ UNCHANGED <<maps, net, inbox, th>>

(* "pul" at home.                                                          *)
AskList(c) ==
  /\ c \in Listers /\ cl[c].at = "home" /\ Send(c, "uList")
  /\ cl' = [cl EXCEPT ![c].sent = Sent(c)]
  /\ UNCHANGED <<maps, net, outbox, pinged, th>>

(* The process ends, and its kernel closes the connection; or its machine  *)
(* disappears with it.                                                     *)
End(c, n) ==
  /\ cl[c].at \in {"login", "home"}
  /\ cl' = [cl EXCEPT ![c] = Client("closed")]
  /\ net' = [net EXCEPT ![c] = n]
  /\ outbox' = [outbox EXCEPT ![c] = <<>>]
  /\ pinged' = [pinged EXCEPT ![c] = FALSE]
  /\ UNCHANGED <<maps, inbox, th>>

Leave(c) == End(c, IF outbox[c] # <<>> \/ pinged[c] THEN "reset" ELSE "fin")
Vanish(c) == c \in Vanishers /\ End(c, "gone")

-----------------------------------------------------------------------------
(* The server's thread for connection c.                                   *)

(* readLine, and the dispatch on the line.  "auth:" with nothing after it  *)
(* is an exception, which ends the thread and leaves the connection open;  *)
(* what is no ID of a student is refused.                                  *)
Take(c) ==
  /\ th[c].pc = "idle" /\ inbox[c] # <<>>
  /\ LET r == Head(inbox[c]) IN
       th' = [th EXCEPT ![c] =
         IF r = "uList"
           THEN [Thread("list") EXCEPT !.todo = DOMAIN user_list,
                                       !.keys = DOMAIN user_list]
         ELSE IF Parse[r] = "empty" THEN Thread("dead")
         ELSE IF Parse[r] = "invalid"
           THEN [Thread("reply") EXCEPT !.verdict = "InvalidUser"]
         ELSE [Thread("lookup") EXCEPT !.req = r]]
  /\ \E rest \in Rests(inbox[c]) : inbox' = [inbox EXCEPT ![c] = rest]
  /\ UNCHANGED <<maps, net, outbox, pinged, cl>>

(* readLine returns null or throws: the thread ends.                       *)
Die(c) ==
  /\ th[c].pc = "idle"
  /\ net[c] = "reset" \/ (net[c] \in {"fin", "fin_w"} /\ inbox[c] = <<>>)
  /\ th' = [th EXCEPT ![c] = Thread("dead")]
  /\ UNCHANGED <<maps, wires, cl>>

(* A login is granted: user_list.put begins.                               *)
Granted(c) ==
  th' = [th EXCEPT ![c].pc = "put", ![c].keys = DOMAIN user_list]

(* Mutant: a student who is known is not pinged.                           *)
LookupOnly(c) ==
  /\ th[c].pc = "lookup"
  /\ LET u == Parse[th[c].req] IN
       th' = [th EXCEPT ![c].pc = "put", ![c].keys = DOMAIN user_list,
         ![c].found = IF u \in DOMAIN user_list THEN user_list[u] ELSE NoConn]
  /\ UNCHANGED <<maps, wires, cl>>

(* user_list.get misses entries that another thread's put is moving.       *)
Misses(c) == lossy /\ \E d \in Conns \ {c} : th[d].pc = "put"

(* authenticateUser looks for the ID as it spells it itself, and grants    *)
(* the login of a student whom it does not find.                           *)
Lookup(c) ==
  /\ th[c].pc = "lookup"
  /\ LET u == Parse[th[c].req] IN
       \/ /\ u \in DOMAIN user_list
          /\ th' = [th EXCEPT ![c].found = user_list[u], ![c].pc = "ping"]
       \/ (u \notin DOMAIN user_list \/ Misses(c)) /\ Granted(c)
  /\ UNCHANGED <<maps, wires, cl>>

(* Mutant: a broken connection is a conflict too.                          *)
PingFailsDenied(c) ==
  /\ th[c].pc = "ping" /\ net[th[c].found] = "reset"
  /\ th' = [th EXCEPT ![c].pc = "reply", ![c].verdict = "IPConflict"]
  /\ UNCHANGED <<maps, wires, cl>>

(* The connection found is broken: granted.                                *)
PingFails(c) ==
  /\ th[c].pc = "ping" /\ net[th[c].found] = "reset"
  /\ Granted(c)
  /\ UNCHANGED <<maps, wires, cl>>

(* Mutant: the connection found is not compared with this one.             *)
PingGrants(c) ==
  /\ th[c].pc = "ping" /\ net[th[c].found] # "reset"
  /\ PingWrites(th[c].found) /\ Granted(c)
  /\ UNCHANGED <<maps, inbox, outbox, cl>>

(* It takes the byte: granted if it is this very connection.               *)
PingSucceeds(c) ==
  /\ th[c].pc = "ping" /\ net[th[c].found] # "reset"
  /\ PingWrites(th[c].found)
  /\ IF th[c].found = c
       THEN Granted(c)
       ELSE th' = [th EXCEPT ![c].pc = "reply", ![c].verdict = "IPConflict"]
  /\ UNCHANGED <<maps, inbox, outbox, cl>>

(* The IDs that a put of c makes contested: what it loses, and its own     *)
(* name when the login overwrites a connection that it has not found.      *)
Contests(c) ==
  Ids \cap (LostBy(user_list, user_list', th[c].req)
            \cup {t \in {th[c].req} \cap DOMAIN user_list :
                   user_list[t] \notin {th[c].found, c}})

(* Mutant: socket_list.put and the directories are forgotten.              *)
PutUserOnly(c) ==
  /\ th[c].pc = "put"
  /\ user_list' \in AfterPut(user_list, th[c].keys, th[c].req, c, lossy)
  /\ contested' = contested \cup Contests(c)
  /\ th' = [th EXCEPT ![c].pc = "reply", ![c].verdict = "Yes"]
  /\ UNCHANGED <<lossy, socket_list, dirs, wires, cl>>

(* user_list.put, with the name as it was typed; socket_list.put begins.   *)
PutUser(c) ==
  /\ th[c].pc = "put"
  /\ user_list' \in AfterPut(user_list, th[c].keys, th[c].req, c, lossy)
  /\ contested' = contested \cup Contests(c)
  /\ th' = [th EXCEPT ![c].pc = "bind", ![c].keys = DOMAIN socket_list]
  /\ UNCHANGED <<lossy, socket_list, dirs, wires, cl>>

(* Mutant: the key and the value are swapped.                              *)
PutSocketSwapped(c) ==
  /\ th[c].pc = "bind"
  /\ socket_list' = Put(socket_list, th[c].req, c)
  /\ dirs' = dirs \cup {th[c].req}
  /\ th' = [th EXCEPT ![c].pc = "reply", ![c].verdict = "Yes"]
  /\ UNCHANGED <<lossy, user_list, contested, wires, cl>>

(* socket_list.put and the student's directories.                          *)
PutSocket(c) ==
  /\ th[c].pc = "bind"
  /\ socket_list' \in AfterPut(socket_list, th[c].keys, c, th[c].req, lossy)
  /\ dirs' = dirs \cup {th[c].req}
  /\ th' = [th EXCEPT ![c].pc = "reply", ![c].verdict = "Yes"]
  /\ UNCHANGED <<lossy, user_list, contested, wires, cl>>

(* Mutant: a student is offline when the server's thread for him has ended.*)
ListNextByThread(c) ==
  /\ th[c].pc = "list" /\ th[c].keys = DOMAIN user_list
  /\ \E u \in th[c].todo :
       th' = [th EXCEPT ![c].todo = @ \ {u},
         ![c].shown = @ \cup {<<u, IF th[user_list[u]].pc = "dead"
                                  THEN "offline" ELSE "active">>}]
  /\ UNCHANGED <<maps, wires, cl>>

(* The walk over user_list: each student is pinged.  The iterator throws   *)
(* ConcurrentModificationException when a student was added meanwhile.     *)
ListNext(c) ==
  /\ th[c].pc = "list" /\ th[c].keys = DOMAIN user_list
  /\ \E u \in th[c].todo :
       IF net[user_list[u]] = "reset"
         THEN /\ th' = [th EXCEPT ![c].todo = @ \ {u},
                                  ![c].shown = @ \cup {<<u, "offline">>}]
              /\ UNCHANGED <<net, pinged>>
         ELSE /\ th' = [th EXCEPT ![c].todo = @ \ {u},
                                  ![c].shown = @ \cup {<<u, "active">>}]
              /\ PingWrites(user_list[u])
  /\ UNCHANGED <<maps, inbox, outbox, cl>>

ListBroken(c) ==
  /\ th[c].pc = "list" /\ th[c].todo # {} /\ th[c].keys # DOMAIN user_list
  /\ th' = [th EXCEPT ![c] = Thread("dead")]
  /\ UNCHANGED <<maps, wires, cl>>

ListDone(c) ==
  /\ th[c].pc = "list" /\ th[c].todo = {}
  /\ th' = [th EXCEPT ![c].verdict = "uList", ![c].pc = "reply"]
  /\ UNCHANGED <<maps, wires, cl>>

(* println and flush: a PrintWriter does not throw.  The connection stays  *)
(* open whatever the answer is.                                            *)
Reply(c) ==
  /\ th[c].pc = "reply"
  /\ outbox' = IF net[c] = "open"
                 THEN [outbox EXCEPT ![c] = Append(@, <<th[c].verdict, pinged[c]>>)]
                 ELSE outbox
  /\ pinged' = [pinged EXCEPT ![c] = FALSE]
  /\ net' = [net EXCEPT ![c] = AfterWrite(@)]
  /\ th' = [th EXCEPT ![c] = Thread("idle")]
  /\ UNCHANGED <<maps, inbox, cl>>

-----------------------------------------------------------------------------
Server(c) ==
  \/ Take(c) \/ Die(c) \/ Lookup(c) \/ PingFails(c) \/ PingSucceeds(c)
  \/ PutUser(c) \/ PutSocket(c)
  \/ ListNext(c) \/ ListBroken(c) \/ ListDone(c) \/ Reply(c)

User(c) ==
  \/ Connect(c) \/ AskList(c) \/ Leave(c) \/ Vanish(c)
  \/ \E t \in Typed : Ask(c, t)

Program(c) == Wake(c) \/ Listen(c)

Next == \E c \in Conns : Server(c) \/ User(c) \/ Program(c) \/ NetReset(c)

Spec == Init /\ [][Next]_vars

(* The threads run, the kernel ends its retransmissions, and a user at the *)
(* prompt goes on trying an ID.                                            *)
FairSpec ==
  /\ Spec
  /\ \A c \in Conns :
       /\ WF_vars(Server(c)) /\ WF_vars(Wake(c)) /\ WF_vars(Listen(c))
       /\ WF_vars(NetReset(c))
       /\ WF_vars(\E u \in Ids : Ask(c, u))

-----------------------------------------------------------------------------
Lines == {"Yes", "IPConflict", "InvalidUser", "uList"}

Threads ==
  [pc: {"idle", "lookup", "ping", "put", "bind", "list", "reply", "dead"},
   req: Typed \cup {"uList"}, verdict: Lines \cup {"none"},
   found: Conns \cup {NoConn}, todo: SUBSET Typed, keys: SUBSET (Typed \cup Conns),
   shown: SUBSET (Typed \X {"active", "offline"})]

Clients ==
  [at: {"absent", "login", "home", "closed"}, name: Typed \cup {"uList"},
   auth: BOOLEAN, waiting: BOOLEAN, sent: 0..MaxLines]

TypeOK ==
  /\ lossy \in BOOLEAN
  /\ DOMAIN user_list \subseteq Typed
  /\ \A t \in DOMAIN user_list : user_list[t] \in Conns
  /\ DOMAIN socket_list \subseteq Conns
  /\ \A c \in DOMAIN socket_list : socket_list[c] \in Typed
  /\ dirs \subseteq Typed /\ contested \subseteq Typed
  /\ net \in [Conns -> {"none", "open", "fin", "fin_w", "gone", "reset"}]
  /\ inbox \in [Conns -> Seq(Typed \cup {"uList"})]
  /\ outbox \in [Conns -> Seq(Lines \X BOOLEAN)]
  /\ pinged \in [Conns -> BOOLEAN]
  /\ th \in [Conns -> Threads]
  /\ cl \in [Conns -> Clients]

(* A login takes an ID away from a connection only when that connection    *)
(* was found broken, or came into the map behind the login's back, between *)
(* its lookup and its put (Server.authenticateUser, lines 316-323, and the *)
(* put of line 79 are not one step).                                       *)
TakeoverIsEarned ==
  [][\A u \in Ids : \A c, d \in Conns :
       /\ u \in DOMAIN user_list /\ user_list[u] = d
       /\ u \in DOMAIN user_list' /\ user_list'[u] = c
       /\ c # d
       => net[d] = "reset" \/ th[c].found # d]_vars

(* What the proof of it carries along (Inv).  The local variables hold     *)
(* what they are used for;                                                 *)
LocalsReady ==
  \A c \in Conns :
    /\ th[c].pc \in {"lookup", "ping", "put", "bind"} => th[c].req \in Typed
    /\ th[c].pc = "ping" => th[c].found \in Conns
    /\ th[c].pc = "reply" => th[c].verdict \in Lines
    /\ th[c].pc = "list" => th[c].todo \subseteq th[c].keys

(* the server's kernel knows that a client has gone only when it has;      *)
NetFollowsClient ==
  \A c \in Conns :
    /\ cl[c].at = "absent" <=> net[c] = "none"
    /\ cl[c].at \in {"login", "home"} <=> net[c] = "open"

(* a thread that is about to put has found no other connection, or found   *)
(* it broken.                                                              *)
FoundIsBroken ==
  \A c \in Conns :
    /\ th[c].pc = "lookup" => th[c].found = NoConn
    /\ th[c].pc = "put" => th[c].found \in {NoConn, c} \/ net[th[c].found] = "reset"

(* A login in progress and the network agree: whoever is about to be put   *)
(* in user_list has found nobody else, or a connection whose client has    *)
(* left (Server.authenticateUser, lines 316-323).                          *)
Inv == LocalsReady /\ NetFollowsClient /\ FoundIsBroken

(* The list never calls a student offline who is there: whoever is called  *)
(* offline, by an ID as the server spells it, has no open connection that  *)
(* is logged in by this ID, not the one in user_list and not another       *)
(* (checkConnectionStatus, Server lines 331-344, is asked of the one in    *)
(* user_list only).  The exception is a name whose entry was lost, or that *)
(* was put over a connection which had come into the map between the       *)
(* lookup of line 316 and the put of line 79.                              *)
OfflineIsGone ==
  [][\A c \in Conns : \A e \in th'[c].shown \ th[c].shown :
       e[2] = "offline" /\ e[1] \in Ids \ contested =>
         \A d \in DOMAIN socket_list :
           socket_list[d] = e[1] => cl[d].at \notin {"login", "home"}]_vars

(* A student who was granted a login and not answered anything else since  *)
(* is known to the server: it finds him by his connection, he has a        *)
(* directory, and his name is in the list (README.md:8) with a connection, *)
(* unless an overlapping put has lost it.                                  *)
GrantedIsKnown == ~lossy =>
  \A c \in Conns :
    (cl[c].auth \/ \E i \in 1..Len(outbox[c]) : outbox[c][i][1] = "Yes") =>
      /\ c \in DOMAIN socket_list
      /\ socket_list[c] \in dirs
      /\ socket_list[c] \in DOMAIN user_list

(* With unsynchronized maps the name may be lost (README.md:8, "all the    *)
(* students who were connected at least once to the server").              *)
AllEverListed == \A c \in DOMAIN socket_list : socket_list[c] \in DOMAIN user_list

(* "Each student is mapped to a single IP address at any instance"         *)
(* (README.md:5): no two connections that are in use are logged in as the  *)
(* same student.                                                           *)
OneSessionPerStudent ==
  \A c, d \in Conns :
    c # d /\ cl[c].at = "home" /\ cl[d].at = "home"
      => ~(c \in DOMAIN socket_list /\ d \in DOMAIN socket_list
           /\ Parse[socket_list[c]] = Parse[socket_list[d]])

(* ... and a student has one entry in user_list, however he types his ID.   *)
StudentListedOnce ==
  \A t, u \in DOMAIN user_list : Parse[t] = Parse[u] => t = u

(* "If the student ID is already logged in from another IP address, new    *)
(* login is denied" (README.md:5): only then.                              *)
DeniedOnlyIfThere ==
  [][\A c \in Conns : th[c].pc = "ping" /\ th'[c].pc = "reply"
       => cl[th[c].found].at # "closed"]_vars

(* "and the connection is immediately terminated" (README.md:5).           *)
DeniedIsTerminated ==
  [][\A c \in Conns : th[c].verdict = "IPConflict" /\ th[c].pc = "reply"
       => th'[c].pc \in {"reply", "dead"}]_vars

(* "The students who are currently online should be distinguishable in the *)
(* list" (README.md:8): a student called active is there when he is pinged.*)
ActiveIsOnline ==
  [][\A c \in Conns : \A e \in th'[c].shown \ th[c].shown :
       e[2] = "active" /\ user_list[e[1]] # c
         => cl[user_list[e[1]]].at # "closed"]_vars

(* "While connected, a student can" give commands (README.md:7): as long   *)
(* as he is, there is a thread to answer.                                  *)
SessionLives == \A c \in Conns : th[c].pc = "dead" => net[c] # "open"

(* The client that greets a student by an ID is logged in with this ID,    *)
(* once its requests are answered: it was not denied (README.md:5).        *)
WelcomeIsTrue ==
  \A c \in Conns :
    cl[c].at = "home" /\ inbox[c] = <<>> /\ th[c].pc = "idle"
      => c \in DOMAIN socket_list /\ socket_list[c] = cl[c].name

(* "A student can Login (i.e., connect to the server) with his/her student *)
(* ID" (README.md:5).  A student whose competitors have all left and who   *)
(* goes on trying is granted a login, although the server still knows      *)
(* their connections: his own denied attempts break them.                  *)
Alone(c) == cl[c].at = "login" /\ \A d \in Conns \ {c} : cl[d].at = "closed"
Granting(c) == c \in DOMAIN socket_list \/ cl[c].at = "closed"
GrantedAtLast == \A c \in Conns : Alone(c) ~> Granting(c)

(* ... but he may never see it: the "Yes:" that a ping has spoiled is not  *)
(* recognized, and from then on every attempt makes the server ping the    *)
(* student's own connection, which spoils its "Yes:" too.                  *)
ComesIn == \A c \in Conns : Alone(c) ~> (cl[c].auth \/ cl[c].at = "closed")
=============================================================================
