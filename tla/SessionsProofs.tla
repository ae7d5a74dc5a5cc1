--------------------------- MODULE SessionsProofs ---------------------------
(***************************************************************************)
(* What Sessions promises for any number of students, connections and      *)
(* lines, whatever is typed, and whether or not overlapping puts lose      *)
(* entries of the maps.                                                    *)
(***************************************************************************)
EXTENDS Sessions, TLAPS

Pcs == {"idle", "lookup", "ping", "put", "bind", "list", "reply", "dead"}

-----------------------------------------------------------------------------
(* An overlapping put may lose entries, its own too, but it changes none.  *)
LEMMA PutLemma ==
  ASSUME NEW f, NEW before, NEW k, NEW v, NEW racy,
         NEW g \in AfterPut(f, before, k, v, racy)
  PROVE  /\ k \in DOMAIN g => g[k] = v
         /\ DOMAIN g \subseteq DOMAIN f \cup {k}
         /\ \A x \in DOMAIN g : x # k => x \in DOMAIN f /\ g[x] = f[x]
<1>1. CASE g = Put(f, k, v)
  BY <1>1 DEF Put
<1>2. CASE g \in RacyPuts(f, before, k, v)
  <2>1. PICK kept \in SUBSET (DOMAIN f \cup {k}) : g = [x \in kept |-> Put(f, k, v)[x]]
    BY <1>2 DEF RacyPuts
  <2> QED
    BY <2>1 DEF Put
<1> QED
  BY <1>1, <1>2 DEF AfterPut

(* A thread at rest is of its type ...                                    *)
LEMMA ThreadTyping == \A pc \in Pcs : Thread(pc) \in Threads
BY DEF Pcs, Thread, Threads

(* ... and so is a client.                                                *)
LEMMA ClientTyping ==
  \A at \in {"absent", "login", "home", "closed"} : Client(at) \in Clients
<1>1. 0 \in 0..MaxLines
  BY SessionsAssumption
<1> QED
  BY <1>1 DEF Client, Clients

(* Nothing on its way is a sequence of lines.                             *)
LEMMA EmptyQueues == <<>> \in Seq(Typed \cup {"uList"}) /\ <<>> \in Seq(Lines \X BOOLEAN)
OBVIOUS

(* What is left to be read is a queue of lines like the one before.        *)
LEMMA RestTyping ==
  ASSUME NEW S, NEW q \in Seq(S), NEW rest \in Rests(q)
  PROVE  rest \in Seq(S)
<1>1. PICK k \in 1..Len(q) : rest = SubSeq(q, k + 1, Len(q))
  BY DEF Rests
<1> QED
  BY <1>1

(* Nobody is connected at first.                                          *)
LEMMA InitInv == Init => TypeOK /\ Inv
<1> SUFFICES ASSUME Init PROVE TypeOK /\ Inv
  OBVIOUS
<1>1. lossy \in BOOLEAN
  BY SessionsAssumption DEF Init
<1>2. DOMAIN user_list = {} /\ DOMAIN socket_list = {} /\ dirs = {} /\ contested = {}
  BY DEF Init, EmptyMap
<1>3. net \in [Conns -> {"none", "open", "fin", "fin_w", "gone", "reset"}]
  BY DEF Init
<1>4. /\ inbox \in [Conns -> Seq(Typed \cup {"uList"})]
      /\ outbox \in [Conns -> Seq(Lines \X BOOLEAN)]
      /\ pinged \in [Conns -> BOOLEAN]
  BY EmptyQueues DEF Init
<1>5. th \in [Conns -> Threads]
  BY ThreadTyping DEF Init, Pcs
<1>6. cl \in [Conns -> Clients]
  BY ClientTyping DEF Init
<1>7. Inv
  BY DEF Init, Inv, LocalsReady, NetFollowsClient, FoundIsBroken, Thread, Client
<1> QED
  BY <1>1, <1>2, <1>3, <1>4, <1>5, <1>6, <1>7 DEF TypeOK

-----------------------------------------------------------------------------
(* The client and the network.                                             *)

(* A line that is sent joins the queue, and is counted within the bound.   *)
LEMMA SendLemma ==
  ASSUME TypeOK, NEW c \in Conns, NEW line \in Typed \cup {"uList"}, Send(c, line)
  PROVE  /\ inbox' \in [Conns -> Seq(Typed \cup {"uList"})]
         /\ Sent(c) \in 0..MaxLines
<1>1. inbox[c] \in Seq(Typed \cup {"uList"})
  BY DEF TypeOK
<1>2. Append(inbox[c], line) \in Seq(Typed \cup {"uList"})
  BY <1>1
<1>3. inbox' \in [Conns -> Seq(Typed \cup {"uList"})]
  BY <1>2 DEF Send, TypeOK
<1>4. cl[c].sent \in 0..MaxLines
  BY DEF TypeOK, Clients
<1>5. Sent(c) \in 0..MaxLines
  BY <1>4, SessionsAssumption DEF Send, Sent
<1> QED
  BY <1>3, <1>5

(* A client that ends leaves the threads as they are.                      *)
LEMMA EndInv ==
  ASSUME TypeOK, Inv, NEW c \in Conns, NEW n \in {"fin", "gone", "reset"}, End(c, n)
  PROVE  TypeOK' /\ Inv'
<1>1. net' \in [Conns -> {"none", "open", "fin", "fin_w", "gone", "reset"}]
  BY DEF End, TypeOK
<1>2. outbox' \in [Conns -> Seq(Lines \X BOOLEAN)] /\ pinged' \in [Conns -> BOOLEAN]
  BY EmptyQueues DEF End, TypeOK
<1>3. cl' \in [Conns -> Clients]
  BY ClientTyping DEF End, TypeOK
<1>4. TypeOK'
  BY <1>1, <1>2, <1>3 DEF End, TypeOK, maps
<1>5. LocalsReady'
  BY DEF End, Inv, LocalsReady
<1>6. NetFollowsClient'
  BY DEF End, Inv, NetFollowsClient, TypeOK, Client
<1>7. FoundIsBroken'
  <2>1. net[c] = "open"
    BY DEF End, Inv, NetFollowsClient
  <2>2. \A d \in Conns : net[d] = "reset" => net'[d] = "reset"
    BY <2>1 DEF End, TypeOK
  <2>3. \A d \in Conns : th[d].found \in Conns \cup {NoConn}
    BY DEF TypeOK, Threads
  <2> QED
    BY <2>2, <2>3 DEF End, Inv, FoundIsBroken
<1> QED
  BY <1>4, <1>5, <1>6, <1>7 DEF Inv

(* The first write after a FIN is still taken; nothing else changes what   *)
(* the kernel knows.                                                       *)
LEMMA PingLemma ==
  ASSUME TypeOK, NetFollowsClient, NEW d \in Conns, PingWrites(d), cl' = cl
  PROVE  /\ net' \in [Conns -> {"none", "open", "fin", "fin_w", "gone", "reset"}]
         /\ pinged' \in [Conns -> BOOLEAN]
         /\ NetFollowsClient'
         /\ \A e \in Conns : net[e] = "reset" => net'[e] = "reset"
<1>1. net' \in [Conns -> {"none", "open", "fin", "fin_w", "gone", "reset"}]
  BY DEF PingWrites, AfterWrite, TypeOK
<1>2. (net[d] = "open") \in BOOLEAN
  OBVIOUS
<1>3. pinged' \in [Conns -> BOOLEAN]
  BY <1>2 DEF PingWrites, TypeOK
<1>4. \A e \in Conns : net'[e] = IF e = d THEN AfterWrite(net[d]) ELSE net[e]
  BY DEF PingWrites, TypeOK
<1> QED
  BY <1>1, <1>3, <1>4 DEF NetFollowsClient, AfterWrite

(* A step of a client that stays connected.                                *)
LEMMA ClientStepInv ==
  ASSUME TypeOK, Inv, NEW c \in Conns, NEW k \in Clients,
         cl' = [cl EXCEPT ![c] = k], net' = net, th' = th,
         cl[c].at \in {"login", "home"}, k.at \in {"login", "home"}
  PROVE  cl' \in [Conns -> Clients] /\ Inv'
<1>1. cl' \in [Conns -> Clients]
  BY DEF TypeOK
<1>2. cl'[c] = k /\ \A d \in Conns : d # c => cl'[d] = cl[d]
  BY DEF TypeOK
<1>3. NetFollowsClient'
  BY <1>2 DEF Inv, NetFollowsClient
<1> QED
  BY <1>1, <1>3 DEF Inv, LocalsReady, FoundIsBroken

(* The steps of the clients and of the network.                           *)
LEMMA ClientInv ==
  ASSUME TypeOK, Inv, NEW c \in Conns, User(c) \/ Program(c) \/ NetReset(c)
  PROVE  TypeOK' /\ Inv'
<1>1. CASE Connect(c)
  <2>1. /\ cl' \in [Conns -> Clients]
        /\ net' \in [Conns -> {"none", "open", "fin", "fin_w", "gone", "reset"}]
    BY <1>1, ClientTyping DEF Connect, TypeOK
  <2>2. TypeOK'
    BY <1>1, <2>1 DEF Connect, TypeOK, maps
  <2>3. NetFollowsClient' /\ LocalsReady'
    BY <1>1 DEF Connect, Inv, NetFollowsClient, LocalsReady, TypeOK, Client
  <2>4. \A d \in Conns : net[d] = "reset" => net'[d] = "reset"
    BY <1>1 DEF Connect, Inv, NetFollowsClient, TypeOK
  <2>5. FoundIsBroken'
    BY <1>1, <2>4 DEF Connect, Inv, FoundIsBroken, TypeOK, Threads
  <2> QED
    BY <2>2, <2>3, <2>5 DEF Inv
<1>2. CASE AskList(c)
  <2> DEFINE k == [cl[c] EXCEPT !.sent = Sent(c)]
  <2>1. /\ inbox' \in [Conns -> Seq(Typed \cup {"uList"})]
        /\ Sent(c) \in 0..MaxLines
    BY <1>2, SendLemma DEF AskList
  <2>2. cl[c] \in Clients /\ cl[c].at = "home"
    BY <1>2 DEF AskList, TypeOK
  <2>3. k \in Clients /\ k.at = "home"
    BY <2>1, <2>2 DEF Clients
  <2>4. cl' = [cl EXCEPT ![c] = k] /\ net' = net /\ th' = th
    BY <1>2 DEF AskList
  <2> HIDE DEF k
  <2>5. cl' \in [Conns -> Clients] /\ Inv'
    BY <2>2, <2>3, <2>4, ClientStepInv
  <2> QED
    BY <1>2, <2>1, <2>5 DEF AskList, TypeOK, maps
<1>3. CASE Leave(c)
  BY <1>3, EndInv DEF Leave
<1>4. CASE Vanish(c)
  BY <1>4, EndInv DEF Vanish
<1>5. ASSUME NEW t \in Typed, Ask(c, t) PROVE TypeOK' /\ Inv'
  <2> DEFINE k == [cl[c] EXCEPT !.name = t, !.waiting = TRUE, !.sent = Sent(c)]
  <2>1. /\ inbox' \in [Conns -> Seq(Typed \cup {"uList"})]
        /\ Sent(c) \in 0..MaxLines
    BY <1>5, SendLemma DEF Ask
  <2>2. cl[c] \in Clients /\ cl[c].at = "login"
    BY <1>5 DEF Ask, TypeOK
  <2>3. k \in Clients /\ k.at = "login"
    BY <2>1, <2>2 DEF Clients
  <2>4. cl' = [cl EXCEPT ![c] = k] /\ net' = net /\ th' = th
    BY <1>5 DEF Ask
  <2> HIDE DEF k
  <2>5. cl' \in [Conns -> Clients] /\ Inv'
    BY <2>2, <2>3, <2>4, ClientStepInv
  <2> QED
    BY <1>5, <2>1, <2>5 DEF Ask, TypeOK, maps
<1>6. CASE Wake(c)
  <2> DEFINE at == IF cl[c].auth THEN "home" ELSE "login"
             k == [cl[c] EXCEPT !.waiting = FALSE, !.at = at]
  <2>1. at \in {"login", "home"}
    OBVIOUS
  <2>2. cl[c] \in Clients /\ cl[c].at = "login"
    BY <1>6 DEF Wake, TypeOK
  <2>3. cl' = [cl EXCEPT ![c] = k] /\ net' = net /\ th' = th
    BY <1>6 DEF Wake, wires
  <2> HIDE DEF at
  <2>4. k \in Clients /\ k.at = at
    BY <2>1, <2>2 DEF Clients
  <2> HIDE DEF k
  <2>5. cl' \in [Conns -> Clients] /\ Inv'
    BY <2>1, <2>2, <2>3, <2>4, ClientStepInv
  <2> QED
    BY <1>6, <2>5 DEF Wake, TypeOK, maps, wires
<1>7. CASE Listen(c)
  <2> DEFINE heard == cl[c].auth \/ Head(outbox[c]) = <<"Yes", FALSE>>
             k == [cl[c] EXCEPT !.auth = heard]
  <2>1. outbox' \in [Conns -> Seq(Lines \X BOOLEAN)]
    <3>1. PICK rest \in Rests(outbox[c]) : outbox' = [outbox EXCEPT ![c] = rest]
      BY <1>7 DEF Listen
    <3>2. outbox[c] \in Seq(Lines \X BOOLEAN)
      BY DEF TypeOK
    <3>3. rest \in Seq(Lines \X BOOLEAN)
      BY <3>2, RestTyping
    <3> QED
      BY <3>1, <3>3 DEF TypeOK
  <2>2. pinged' \in [Conns -> BOOLEAN]
    BY <1>7 DEF Listen, TypeOK
  <2>3. heard \in BOOLEAN
    BY Zenon
  <2>4. cl[c] \in Clients /\ cl[c].at \in {"login", "home"}
    BY <1>7 DEF Listen, TypeOK
  <2>5. cl' = [cl EXCEPT ![c] = k] /\ net' = net /\ th' = th
    BY <1>7 DEF Listen
  <2> HIDE DEF heard
  <2>6. k \in Clients /\ k.at = cl[c].at
    BY <2>3, <2>4 DEF Clients
  <2> HIDE DEF k
  <2>7. cl' \in [Conns -> Clients] /\ Inv'
    BY <2>4, <2>5, <2>6, ClientStepInv
  <2> QED
    BY <1>7, <2>1, <2>2, <2>7 DEF Listen, TypeOK, maps
<1>8. CASE NetReset(c)
  <2>1. net' \in [Conns -> {"none", "open", "fin", "fin_w", "gone", "reset"}]
    BY <1>8 DEF NetReset, TypeOK
  <2>2. TypeOK'
    BY <1>8, <2>1 DEF NetReset, TypeOK, maps
  <2>3. NetFollowsClient' /\ LocalsReady'
    BY <1>8 DEF NetReset, Inv, NetFollowsClient, LocalsReady, TypeOK
  <2>4. \A d \in Conns : net[d] = "reset" => net'[d] = "reset"
    BY <1>8 DEF NetReset, TypeOK
  <2>5. FoundIsBroken'
    BY <1>8, <2>4 DEF NetReset, Inv, FoundIsBroken, TypeOK, Threads
  <2> QED
    BY <2>2, <2>3, <2>5 DEF Inv
<1> QED
  BY <1>1, <1>2, <1>3, <1>4, <1>5, <1>6, <1>7, <1>8 DEF User, Program

-----------------------------------------------------------------------------
(* The server's threads.                                                   *)

(* A thread's step that touches no shared state: its own variables are     *)
(* typed and ready where it stands now, and when it is about to put it has *)
(* found no connection but a broken one.                                   *)
LEMMA ThreadInv ==
  ASSUME TypeOK, Inv, NEW c \in Conns, NEW t \in Threads,
         th' = [th EXCEPT ![c] = t],
         net' = net, cl' = cl,
         t.pc \in {"lookup", "ping", "put", "bind"} => t.req \in Typed,
         t.pc = "ping" => t.found \in Conns,
         t.pc = "reply" => t.verdict \in Lines,
         t.pc = "list" => t.todo \subseteq t.keys,
         t.pc = "lookup" => t.found = NoConn,
         t.pc = "put" => t.found \in {NoConn, c} \/ net[t.found] = "reset"
  PROVE  th' \in [Conns -> Threads] /\ Inv'
<1>1. th' \in [Conns -> Threads]
  BY DEF TypeOK
<1>2. th'[c] = t /\ \A d \in Conns : d # c => th'[d] = th[d]
  BY DEF TypeOK
<1>3. LocalsReady'
  BY <1>2 DEF Inv, LocalsReady
<1>4. NetFollowsClient'
  BY DEF Inv, NetFollowsClient
<1>5. FoundIsBroken'
  BY <1>2 DEF Inv, FoundIsBroken
<1> QED
  BY <1>1, <1>3, <1>4, <1>5 DEF Inv

(* The thread takes a line from the connection.                           *)
LEMMA TakeInv ==
  ASSUME TypeOK, Inv, NEW c \in Conns, Take(c)
  PROVE  TypeOK' /\ Inv'
<1> DEFINE r == Head(inbox[c])
<1>1. r \in Typed \cup {"uList"}
  BY DEF Take, TypeOK
<1>2. inbox' \in [Conns -> Seq(Typed \cup {"uList"})]
  <2>1. PICK rest \in Rests(inbox[c]) : inbox' = [inbox EXCEPT ![c] = rest]
    BY DEF Take
  <2>2. inbox[c] \in Seq(Typed \cup {"uList"})
    BY DEF TypeOK
  <2>3. rest \in Seq(Typed \cup {"uList"})
    BY <2>2, RestTyping
  <2> QED
    BY <2>1, <2>3 DEF TypeOK
<1> HIDE DEF r
<1>3. th' \in [Conns -> Threads] /\ Inv'
  <2>1. CASE r = "uList"
    <3> DEFINE t == [Thread("list") EXCEPT !.todo = DOMAIN user_list, !.keys = DOMAIN user_list]
    <3>1. th' = [th EXCEPT ![c] = t]
      BY <2>1 DEF Take, r
    <3>2. t \in Threads
      BY ThreadTyping DEF Pcs, Threads, TypeOK
    <3>3. t.pc = "list" /\ t.todo = t.keys
      BY DEF Thread
    <3> HIDE DEF t
    <3> QED
      BY <3>1, <3>2, <3>3, ThreadInv DEF Take
  <2>2. CASE r # "uList" /\ Parse[r] = "empty"
    <3>1. th' = [th EXCEPT ![c] = Thread("dead")]
      BY <2>2 DEF Take, r
    <3>2. Thread("dead") \in Threads /\ Thread("dead").pc = "dead"
      BY ThreadTyping DEF Pcs, Thread
    <3> QED
      BY <3>1, <3>2, ThreadInv DEF Take
  <2>3. CASE r # "uList" /\ Parse[r] = "invalid"
    <3> DEFINE t == [Thread("reply") EXCEPT !.verdict = "InvalidUser"]
    <3>1. th' = [th EXCEPT ![c] = t]
      BY <2>3 DEF Take, r
    <3>2. t \in Threads
      BY ThreadTyping DEF Pcs, Threads, Lines
    <3>3. t.pc = "reply" /\ t.verdict \in Lines
      BY DEF Thread, Lines
    <3> HIDE DEF t
    <3> QED
      BY <3>1, <3>2, <3>3, ThreadInv DEF Take
  <2>4. CASE r # "uList" /\ Parse[r] # "empty" /\ Parse[r] # "invalid"
    <3> DEFINE t == [Thread("lookup") EXCEPT !.req = r]
    <3>1. th' = [th EXCEPT ![c] = t]
      BY <2>4 DEF Take, r
    <3>2. t \in Threads
      BY <1>1, ThreadTyping DEF Pcs, Threads
    <3>3. t.pc = "lookup" /\ t.req \in Typed /\ t.found = NoConn
      BY <1>1, <2>4 DEF Thread
    <3> HIDE DEF t
    <3> QED
      BY <3>1, <3>2, <3>3, ThreadInv DEF Take
  <2> QED
    BY <2>1, <2>2, <2>3, <2>4
<1> QED
  BY <1>2, <1>3 DEF Take, TypeOK, maps

(* The thread leaves the loop's turn: it waits for a line, or it ends.     *)
LEMMA RestartInv ==
  ASSUME TypeOK, Inv, NEW c \in Conns, NEW pc \in {"idle", "dead"},
         th' = [th EXCEPT ![c] = Thread(pc)], net' = net, cl' = cl
  PROVE  th' \in [Conns -> Threads] /\ Inv'
<1> DEFINE t == Thread(pc)
<1>1. t \in Threads /\ t.pc = pc
  BY ThreadTyping DEF Pcs, Thread
<1>2. th' = [th EXCEPT ![c] = t]
  OBVIOUS
<1> HIDE DEF t
<1> QED
  BY <1>1, <1>2, ThreadInv

(* A login is granted to a thread that has found nobody, its own           *)
(* connection, or a broken one.                                            *)
LEMMA GrantedInv ==
  ASSUME TypeOK, Inv, NEW c \in Conns, Granted(c), net' = net, cl' = cl,
         th[c].pc \in {"lookup", "ping"},
         th[c].found \in {NoConn, c} \/ net[th[c].found] = "reset"
  PROVE  th' \in [Conns -> Threads] /\ Inv'
<1> DEFINE t == [th[c] EXCEPT !.pc = "put", !.keys = DOMAIN user_list]
<1>1. th[c] \in Threads
  BY DEF TypeOK
<1>2. t \in Threads
  BY <1>1 DEF TypeOK, Threads
<1>3. th' = [th EXCEPT ![c] = t]
  BY DEF Granted
<1>4. t.pc = "put" /\ t.req = th[c].req /\ t.found = th[c].found
  BY <1>1 DEF Threads
<1>5. t.req \in Typed
  BY <1>4 DEF Inv, LocalsReady
<1> HIDE DEF t
<1> QED
  BY <1>2, <1>3, <1>4, <1>5, ThreadInv

(* The answer of a login is decided.                                       *)
LEMMA AnsweredInv ==
  ASSUME TypeOK, Inv, NEW c \in Conns, NEW v \in Lines, net' = net, cl' = cl,
         th' = [th EXCEPT ![c].pc = "reply", ![c].verdict = v]
  PROVE  th' \in [Conns -> Threads] /\ Inv'
<1> DEFINE t == [th[c] EXCEPT !.pc = "reply", !.verdict = v]
<1>1. th[c] \in Threads
  BY DEF TypeOK
<1>2. t \in Threads
  BY <1>1 DEF Threads
<1>3. th' = [th EXCEPT ![c] = t]
  OBVIOUS
<1>4. t.pc = "reply" /\ t.verdict = v
  BY <1>1 DEF Threads
<1> HIDE DEF t
<1> QED
  BY <1>2, <1>3, <1>4, ThreadInv

(* The lookup in user_list (Server 316), and the ping of whom it finds.   *)
LEMMA LookupInv ==
  ASSUME TypeOK, Inv, NEW c \in Conns, Lookup(c)
  PROVE  TypeOK' /\ Inv'
<1> DEFINE u == Parse[th[c].req]
<1>1. th[c].pc = "lookup" /\ th[c].req \in Typed /\ th[c].found = NoConn
  BY DEF Lookup, Inv, LocalsReady, FoundIsBroken
<1>2. net' = net /\ cl' = cl
  BY DEF Lookup, wires
<1>3. CASE u \in DOMAIN user_list /\ th' = [th EXCEPT ![c].found = user_list[u], ![c].pc = "ping"]
  <2> DEFINE t == [th[c] EXCEPT !.found = user_list[u], !.pc = "ping"]
  <2>1. th[c] \in Threads /\ user_list[u] \in Conns
    BY <1>3 DEF TypeOK
  <2>2. th' = [th EXCEPT ![c] = t]
    BY <1>3 DEF Lookup
  <2> HIDE DEF u
  <2>3. t \in Threads
    BY <2>1 DEF Threads
  <2>4. t.pc = "ping" /\ t.req = th[c].req /\ t.found = user_list[u]
    BY <2>1 DEF Threads
  <2> HIDE DEF t
  <2>5. th' \in [Conns -> Threads] /\ Inv'
    BY <1>1, <1>2, <2>1, <2>2, <2>3, <2>4, ThreadInv
  <2> QED
    BY <2>5 DEF Lookup, TypeOK, maps, wires
<1>4. CASE Granted(c)
  <2>2. th' \in [Conns -> Threads] /\ Inv'
    BY <1>1, <1>2, <1>4, GrantedInv
  <2> QED
    BY <2>2 DEF Lookup, TypeOK, maps, wires
<1> QED
  BY <1>3, <1>4 DEF Lookup

(* The connection found takes the byte: it is this one, or the login is    *)
(* denied.                                                                 *)
LEMMA PingSucceedsInv ==
  ASSUME TypeOK, Inv, NEW c \in Conns, PingSucceeds(c)
  PROVE  TypeOK' /\ Inv'
<1> DEFINE t == IF th[c].found = c
                  THEN [th[c] EXCEPT !.pc = "put", !.keys = DOMAIN user_list]
                  ELSE [th[c] EXCEPT !.pc = "reply", !.verdict = "IPConflict"]
<1>1. th[c].found \in Conns /\ th[c].req \in Typed /\ th[c] \in Threads
  BY DEF PingSucceeds, Inv, LocalsReady, TypeOK
<1>2. cl' = cl /\ PingWrites(th[c].found)
  BY DEF PingSucceeds
<1>3. /\ net' \in [Conns -> {"none", "open", "fin", "fin_w", "gone", "reset"}]
      /\ pinged' \in [Conns -> BOOLEAN]
      /\ NetFollowsClient'
      /\ \A e \in Conns : net[e] = "reset" => net'[e] = "reset"
  BY <1>1, <1>2, PingLemma DEF Inv
<1>4. th' = [th EXCEPT ![c] = t]
  BY DEF PingSucceeds, Granted
<1>5. t \in Threads
  BY <1>1 DEF Threads, Lines, TypeOK
<1>6. \/ t.pc = "put" /\ t.found = c /\ t.req \in Typed
      \/ t.pc = "reply" /\ t.verdict \in Lines
  BY <1>1 DEF Threads, Lines
<1> HIDE DEF t
<1>7. th' \in [Conns -> Threads]
  BY <1>4, <1>5 DEF TypeOK
<1>8. th'[c] = t /\ \A d \in Conns : d # c => th'[d] = th[d]
  BY <1>4 DEF TypeOK
<1>9. LocalsReady'
  BY <1>6, <1>8 DEF Inv, LocalsReady
<1>10. FoundIsBroken'
  <2> SUFFICES ASSUME NEW d \in Conns
               PROVE  /\ th'[d].pc = "lookup" => th'[d].found = NoConn
                      /\ th'[d].pc = "put" => \/ th'[d].found \in {NoConn, d}
                                              \/ net'[th'[d].found] = "reset"
    BY DEF FoundIsBroken
  <2>1. CASE d = c
    BY <1>6, <1>8, <2>1
  <2>2. CASE d # c
    <3>1. th'[d] = th[d] /\ th[d].found \in Conns \cup {NoConn}
      BY <1>8, <2>2 DEF TypeOK, Threads
    <3> QED
      BY <1>3, <3>1 DEF Inv, FoundIsBroken
  <2> QED
    BY <2>1, <2>2
<1> QED
  BY <1>3, <1>7, <1>9, <1>10 DEF PingSucceeds, TypeOK, Inv, maps

(* The puts into user_list and socket_list (Server 79-87).                *)
LEMMA PutInv ==
  ASSUME TypeOK, Inv, NEW c \in Conns, PutUser(c) \/ PutSocket(c)
  PROVE  TypeOK' /\ Inv'
<1>1. th[c].req \in Typed /\ th[c] \in Threads
  BY DEF PutUser, PutSocket, Inv, LocalsReady, TypeOK
<1>2. CASE PutUser(c)
  <2> DEFINE t == [th[c] EXCEPT !.pc = "bind", !.keys = DOMAIN socket_list]
  <2>1. t \in Threads /\ t.pc = "bind" /\ t.req = th[c].req
    BY <1>1 DEF TypeOK, Threads
  <2>2. th' = [th EXCEPT ![c] = t] /\ net' = net /\ cl' = cl
    BY <1>2 DEF PutUser, wires
  <2> HIDE DEF t
  <2>3. th' \in [Conns -> Threads] /\ Inv'
    BY <1>1, <2>1, <2>2, ThreadInv
  <2>4. user_list' \in AfterPut(user_list, th[c].keys, th[c].req, c, lossy)
    BY <1>2 DEF PutUser
  <2>5. /\ DOMAIN user_list' \subseteq DOMAIN user_list \cup {th[c].req}
        /\ th[c].req \in DOMAIN user_list' => user_list'[th[c].req] = c
        /\ \A x \in DOMAIN user_list' :
             x # th[c].req => x \in DOMAIN user_list /\ user_list'[x] = user_list[x]
    BY <2>4, PutLemma
  <2>6. /\ DOMAIN user_list' \subseteq Typed
        /\ \A x \in DOMAIN user_list' : user_list'[x] \in Conns
    BY <1>1, <2>5 DEF TypeOK
  <2>7. contested' \subseteq Typed
    BY <1>1, <1>2 DEF PutUser, Contests, LostBy, TypeOK
  <2> QED
    BY <1>2, <2>3, <2>6, <2>7 DEF PutUser, TypeOK, wires
<1>3. CASE PutSocket(c)
  <2> DEFINE t == [th[c] EXCEPT !.pc = "reply", !.verdict = "Yes"]
  <2>1. t \in Threads /\ t.pc = "reply" /\ t.verdict \in Lines
    BY <1>1 DEF Threads, Lines
  <2>2. th' = [th EXCEPT ![c] = t] /\ net' = net /\ cl' = cl
    BY <1>3 DEF PutSocket, wires
  <2> HIDE DEF t
  <2>3. th' \in [Conns -> Threads] /\ Inv'
    BY <2>1, <2>2, ThreadInv
  <2>4. socket_list' \in AfterPut(socket_list, th[c].keys, c, th[c].req, lossy)
    BY <1>3 DEF PutSocket
  <2>5. /\ DOMAIN socket_list' \subseteq DOMAIN socket_list \cup {c}
        /\ c \in DOMAIN socket_list' => socket_list'[c] = th[c].req
        /\ \A x \in DOMAIN socket_list' :
             x # c => x \in DOMAIN socket_list /\ socket_list'[x] = socket_list[x]
    BY <2>4, PutLemma
  <2>6. /\ DOMAIN socket_list' \subseteq Conns
        /\ \A x \in DOMAIN socket_list' : socket_list'[x] \in Typed
    BY <1>1, <2>5 DEF TypeOK
  <2>7. dirs' \subseteq Typed
    BY <1>1, <1>3 DEF PutSocket, TypeOK
  <2> QED
    BY <1>3, <2>3, <2>6, <2>7 DEF PutSocket, TypeOK, wires
<1> QED
  BY <1>2, <1>3

(* The list tells of one more student.                                     *)
ListTells(c, u, state) ==
  [th[c] EXCEPT !.todo = @ \ {u}, !.shown = @ \cup {<<u, state>>}]

(* What the list told of an ID before, it told truly.                     *)
LEMMA ListTelling ==
  ASSUME TypeOK, Inv, NEW c \in Conns, th[c].pc = "list",
         NEW u \in th[c].todo, NEW state \in {"active", "offline"}
  PROVE  LET t == ListTells(c, u, state) IN
           /\ t \in Threads /\ t.pc = "list" /\ t.todo \subseteq t.keys
           /\ t.shown = th[c].shown \cup {<<u, state>>}
<1>1. th[c] \in Threads /\ th[c].todo \subseteq th[c].keys /\ u \in Typed
  BY DEF TypeOK, Inv, LocalsReady, Threads
<1>2. <<u, state>> \in Typed \X {"active", "offline"}
  BY <1>1
<1> QED
  BY <1>1, <1>2 DEF ListTells, Threads

(* Each step of the walk pings one student and writes down what it found.  *)
LEMMA ListNextStep ==
  ASSUME TypeOK, Inv, NEW c \in Conns, ListNext(c)
  PROVE  \E u \in th[c].todo :
           /\ u \in Typed /\ user_list[u] \in Conns
           /\ \/ /\ net[user_list[u]] = "reset"
                 /\ th' = [th EXCEPT ![c] = ListTells(c, u, "offline")]
                 /\ UNCHANGED <<net, pinged>>
              \/ /\ th' = [th EXCEPT ![c] = ListTells(c, u, "active")]
                 /\ PingWrites(user_list[u])
<1>1. PICK u \in th[c].todo :
        IF net[user_list[u]] = "reset"
          THEN /\ th' = [th EXCEPT ![c].todo = @ \ {u},
                                   ![c].shown = @ \cup {<<u, "offline">>}]
               /\ UNCHANGED <<net, pinged>>
          ELSE /\ th' = [th EXCEPT ![c].todo = @ \ {u},
                                   ![c].shown = @ \cup {<<u, "active">>}]
               /\ PingWrites(user_list[u])
  BY DEF ListNext
<1>2. u \in DOMAIN user_list
  BY DEF ListNext, Inv, LocalsReady
<1>3. u \in Typed /\ user_list[u] \in Conns
  BY <1>2 DEF TypeOK
<1> QED
  BY <1>1, <1>3 DEF ListTells

(* One student of the list (Server 93-102).                               *)
LEMMA ListNextInv ==
  ASSUME TypeOK, Inv, NEW c \in Conns, ListNext(c)
  PROVE  TypeOK' /\ Inv'
<1>1. th[c].pc = "list" /\ cl' = cl
  BY DEF ListNext
<1>2. PICK u \in th[c].todo :
        /\ u \in Typed /\ user_list[u] \in Conns
        /\ \/ /\ net[user_list[u]] = "reset"
              /\ th' = [th EXCEPT ![c] = ListTells(c, u, "offline")]
              /\ UNCHANGED <<net, pinged>>
           \/ /\ th' = [th EXCEPT ![c] = ListTells(c, u, "active")]
              /\ PingWrites(user_list[u])
  BY ListNextStep
<1>3. CASE th' = [th EXCEPT ![c] = ListTells(c, u, "offline")] /\ UNCHANGED <<net, pinged>>
  <2> DEFINE t == ListTells(c, u, "offline")
  <2>1. t \in Threads /\ t.pc = "list" /\ t.todo \subseteq t.keys
    BY <1>1, ListTelling
  <2> HIDE DEF t
  <2>2. th' \in [Conns -> Threads] /\ Inv'
    BY <1>1, <1>3, <2>1, ThreadInv DEF t
  <2> QED
    BY <1>3, <2>2 DEF ListNext, TypeOK, maps
<1>4. CASE th' = [th EXCEPT ![c] = ListTells(c, u, "active")] /\ PingWrites(user_list[u])
  <2> DEFINE t == ListTells(c, u, "active")
  <2>1. t \in Threads /\ t.pc = "list" /\ t.todo \subseteq t.keys
    BY <1>1, ListTelling
  <2>2. th' = [th EXCEPT ![c] = t]
    BY <1>4
  <2> HIDE DEF t
  <2>3. /\ net' \in [Conns -> {"none", "open", "fin", "fin_w", "gone", "reset"}]
        /\ pinged' \in [Conns -> BOOLEAN]
        /\ NetFollowsClient'
        /\ \A e \in Conns : net[e] = "reset" => net'[e] = "reset"
    BY <1>1, <1>2, <1>4, PingLemma DEF Inv
  <2>4. th' \in [Conns -> Threads]
    BY <2>1, <2>2 DEF TypeOK
  <2>5. th'[c] = t /\ \A d \in Conns : d # c => th'[d] = th[d]
    BY <2>2 DEF TypeOK
  <2>6. LocalsReady'
    BY <2>1, <2>5 DEF Inv, LocalsReady
  <2>7. FoundIsBroken'
    <3>1. \A d \in Conns : th[d].found \in Conns \cup {NoConn}
      BY DEF TypeOK, Threads
    <3> QED
      BY <2>1, <2>3, <2>5, <3>1 DEF Inv, FoundIsBroken
  <2> QED
    BY <2>3, <2>4, <2>6, <2>7 DEF ListNext, TypeOK, Inv, maps
<1> QED
  BY <1>2, <1>3, <1>4

(* The answer to a login (Server 293-296).                                *)
LEMMA ReplyInv ==
  ASSUME TypeOK, Inv, NEW c \in Conns, Reply(c)
  PROVE  TypeOK' /\ Inv'
<1>1. th[c].verdict \in Lines /\ cl' = cl
  BY DEF Reply, Inv, LocalsReady
<1>2. outbox' \in [Conns -> Seq(Lines \X BOOLEAN)]
  <2>1. outbox[c] \in Seq(Lines \X BOOLEAN) /\ pinged[c] \in BOOLEAN
    BY DEF TypeOK
  <2>2. Append(outbox[c], <<th[c].verdict, pinged[c]>>) \in Seq(Lines \X BOOLEAN)
    BY <1>1, <2>1
  <2> QED
    BY <2>2 DEF Reply, TypeOK
<1>3. pinged' \in [Conns -> BOOLEAN]
  BY DEF Reply, TypeOK
<1>4. net' \in [Conns -> {"none", "open", "fin", "fin_w", "gone", "reset"}]
  BY DEF Reply, AfterWrite, TypeOK
<1>5. \A d \in Conns : net'[d] = IF d = c THEN AfterWrite(net[c]) ELSE net[d]
  BY DEF Reply, TypeOK
<1>6. NetFollowsClient'
  BY <1>1, <1>5 DEF Inv, NetFollowsClient, AfterWrite
<1>7. /\ th' \in [Conns -> Threads]
      /\ th'[c].pc = "idle"
      /\ \A d \in Conns : d # c => th'[d] = th[d]
  BY ThreadTyping DEF Reply, TypeOK, Pcs, Thread
<1>8. LocalsReady'
  BY <1>7 DEF Inv, LocalsReady
<1>9. FoundIsBroken'
  <2>1. \A d \in Conns : net[d] = "reset" => net'[d] = "reset"
    BY <1>5 DEF AfterWrite
  <2>2. \A d \in Conns : th[d].found \in Conns \cup {NoConn}
    BY DEF TypeOK, Threads
  <2> QED
    BY <1>7, <2>1, <2>2 DEF Inv, FoundIsBroken
<1> QED
  BY <1>2, <1>3, <1>4, <1>6, <1>7, <1>8, <1>9 DEF Reply, TypeOK, Inv, maps

(* The steps of a connection's thread.                                    *)
LEMMA ServerInv ==
  ASSUME TypeOK, Inv, NEW c \in Conns, Server(c)
  PROVE  TypeOK' /\ Inv'
<1>1. CASE Take(c)
  BY <1>1, TakeInv
<1>2. CASE Die(c)
  <2>1. th' \in [Conns -> Threads] /\ Inv'
    BY <1>2, RestartInv DEF Die, wires
  <2> QED
    BY <1>2, <2>1 DEF Die, TypeOK, maps, wires
<1>3. CASE Lookup(c)
  BY <1>3, LookupInv
<1>4. CASE PingFails(c)
  <2>1. th' \in [Conns -> Threads] /\ Inv'
    BY <1>4, GrantedInv DEF PingFails, wires
  <2> QED
    BY <1>4, <2>1 DEF PingFails, TypeOK, maps, wires
<1>5. CASE PingSucceeds(c)
  BY <1>5, PingSucceedsInv
<1>6. CASE PutUser(c) \/ PutSocket(c)
  BY <1>6, PutInv
<1>7. CASE ListNext(c)
  BY <1>7, ListNextInv
<1>8. CASE ListBroken(c)
  <2>1. th' \in [Conns -> Threads] /\ Inv'
    BY <1>8, RestartInv DEF ListBroken, wires
  <2> QED
    BY <1>8, <2>1 DEF ListBroken, TypeOK, maps, wires
<1>9. CASE ListDone(c)
  <2>1. /\ net' = net /\ cl' = cl
        /\ th' = [th EXCEPT ![c].pc = "reply", ![c].verdict = "uList"]
    BY <1>9 DEF ListDone, wires
  <2>2. th' \in [Conns -> Threads] /\ Inv'
    BY <2>1, AnsweredInv DEF Lines
  <2> QED
    BY <1>9, <2>2 DEF ListDone, TypeOK, maps, wires
<1>10. CASE Reply(c)
  BY <1>10, ReplyInv
<1> QED
  BY <1>1, <1>2, <1>3, <1>4, <1>5, <1>6, <1>7, <1>8, <1>9, <1>10 DEF Server

(* Every step keeps types and invariant.                                  *)
LEMMA NextInv == TypeOK /\ Inv /\ [Next]_vars => TypeOK' /\ Inv'
<1> SUFFICES ASSUME TypeOK, Inv, [Next]_vars PROVE TypeOK' /\ Inv'
  OBVIOUS
<1>1. ASSUME NEW c \in Conns, Server(c) PROVE TypeOK' /\ Inv'
  BY <1>1, ServerInv
<1>2. ASSUME NEW c \in Conns, User(c) \/ Program(c) \/ NetReset(c)
      PROVE  TypeOK' /\ Inv'
  BY <1>2, ClientInv
<1>3. CASE UNCHANGED vars
  BY <1>3 DEF vars, maps, wires, TypeOK, Inv, LocalsReady, NetFollowsClient,
              FoundIsBroken
<1> QED
  BY <1>1, <1>2, <1>3 DEF Next

(* The threads' variables hold what the code uses them for; the kernel     *)
(* knows that a client has gone only when it has; and who is about to be   *)
(* put in user_list has found nobody else, or a broken connection          *)
(* (Server.authenticateUser, lines 316-323).                               *)
THEOREM SessionsInvariant == Spec => [](TypeOK /\ Inv)
<1> QED
  BY InitInv, NextInv, PTL DEF Spec

(* Both maps, the queues and the threads' variables stay of their types:   *)
(* no ping or put ever works on a connection that is none.                 *)
THEOREM SessionsTypes == Spec => []TypeOK
<1>1. TypeOK /\ Inv => TypeOK
  OBVIOUS
<1> QED
  BY <1>1, SessionsInvariant, PTL

-----------------------------------------------------------------------------
(* user_list changes only where a login is put in it.                      *)
LEMMA UserListChanges ==
  ASSUME TypeOK, Inv, [Next]_vars, user_list' # user_list
  PROVE  \E c \in Conns : PutUser(c)
<1>1. CASE UNCHANGED vars
  BY <1>1 DEF vars, maps
<1>2. ASSUME NEW c \in Conns, Server(c) PROVE PutUser(c)
  BY <1>2 DEF Server, Take, Die, Lookup, PingFails, PingSucceeds, PutSocket,
              ListNext, ListBroken, ListDone, Reply, maps
<1>3. ASSUME NEW c \in Conns, User(c) \/ Program(c) \/ NetReset(c)
      PROVE  user_list' = user_list
  BY <1>3 DEF User, Program, Connect, AskList, Leave, Vanish, End, Ask, Wake,
              Listen, NetReset, maps
<1> QED
  BY <1>1, <1>2, <1>3 DEF Next

(* A student's ID goes from one connection to another only when the first  *)
(* was found broken, or came into user_list between the lookup and the put *)
(* (Server lines 316-323 and 79 are not one step).                         *)
THEOREM SessionsTakeover == Spec => TakeoverIsEarned
<1> DEFINE Earned ==
      \A u \in Ids : \A c, d \in Conns :
        /\ u \in DOMAIN user_list /\ user_list[u] = d
        /\ u \in DOMAIN user_list' /\ user_list'[u] = c
        /\ c # d
        => net[d] = "reset" \/ th[c].found # d
<1>1. TypeOK /\ Inv /\ [Next]_vars => Earned
  <2> SUFFICES ASSUME TypeOK, Inv, [Next]_vars,
                      NEW u \in Ids, NEW c \in Conns, NEW d \in Conns,
                      u \in DOMAIN user_list, user_list[u] = d,
                      u \in DOMAIN user_list', user_list'[u] = c, c # d
               PROVE  net[d] = "reset" \/ th[c].found # d
    OBVIOUS
  <2>1. PICK e \in Conns : PutUser(e)
    BY UserListChanges
  <2>2. /\ th[e].req \in DOMAIN user_list' => user_list'[th[e].req] = e
        /\ \A x \in DOMAIN user_list' :
             x # th[e].req => user_list'[x] = user_list[x]
    BY <2>1, PutLemma DEF PutUser
  <2>3. e = c
    BY <2>2
  <2>4. th[c].found \in {NoConn, c} \/ net[th[c].found] = "reset"
    BY <2>1, <2>3 DEF PutUser, Inv, FoundIsBroken
  <2> QED
    BY <2>4, SessionsAssumption
<1>2. TypeOK /\ Inv /\ [Next]_vars => [Earned]_vars
  BY <1>1
<1> QED
  BY <1>2, SessionsInvariant, PTL DEF Spec, TakeoverIsEarned

-----------------------------------------------------------------------------
(* Only the walk writes in the list that is shown.                         *)
LEMMA ShownGrows ==
  ASSUME TypeOK, Inv, [Next]_vars, NEW d \in Conns,
         NEW e \in th'[d].shown \ th[d].shown
  PROVE  ListNext(d)
<1>1. CASE UNCHANGED vars
  BY <1>1 DEF vars
<1>2. ASSUME NEW c \in Conns, User(c) \/ Program(c) \/ NetReset(c)
      PROVE  th' = th
  BY <1>2 DEF User, Program, Connect, AskList, Leave, Vanish, End, Ask, Wake,
              Listen, NetReset
<1>3. ASSUME NEW c \in Conns, Server(c) PROVE ListNext(d)
  <2>1. th \in [Conns -> Threads]
    BY DEF TypeOK
  <2>2. CASE ListNext(c)
    <3>1. \A x \in Conns : x # c => th'[x] = th[x]
      BY <2>1, <2>2 DEF ListNext
    <3> QED
      BY <2>2, <3>1
  <2>3. \A pc \in Pcs : Thread(pc).shown = {}
    BY DEF Thread
  <2>4. CASE Die(c) \/ ListBroken(c) \/ Reply(c)
    BY <2>1, <2>3, <2>4 DEF Die, ListBroken, Reply, Pcs
  <2>5. CASE Lookup(c) \/ PingFails(c) \/ PingSucceeds(c)
    <3>1. ASSUME Granted(c) PROVE th'[d].shown = th[d].shown
      BY <2>1, <3>1 DEF Granted, Threads
    <3>2. CASE Lookup(c) /\ ~Granted(c)
      BY <2>1, <3>2 DEF Lookup, Threads
    <3>3. CASE PingSucceeds(c) /\ ~Granted(c)
      BY <2>1, <3>3 DEF PingSucceeds, Threads
    <3> QED
      BY <2>5, <3>1, <3>2, <3>3 DEF PingFails
  <2>6. CASE PutUser(c) \/ PutSocket(c) \/ ListDone(c)
    <3>1. CASE PutUser(c)
      BY <2>1, <3>1 DEF PutUser, Threads
    <3>2. CASE PutSocket(c)
      BY <2>1, <3>2 DEF PutSocket, Threads
    <3>3. CASE ListDone(c)
      BY <2>1, <3>3 DEF ListDone, Threads
    <3> QED
      BY <2>6, <3>1, <3>2, <3>3
  <2>7. CASE Take(c)
    BY <2>1, <2>3, <2>7 DEF Take, Thread, Pcs
  <2> QED
    BY <1>3, <2>2, <2>4, <2>5, <2>6, <2>7 DEF Server
<1> QED
  BY <1>1, <1>2, <1>3 DEF Next

-----------------------------------------------------------------------------
(* With maps that lose nothing, an answer "Yes" stands for a login that is *)
(* complete, from the moment the thread has it in hand to the moment the   *)
(* client has heard it, and whatever the student asks afterwards.          *)
Heard(c) ==
  \/ cl[c].auth \/ th[c].verdict = "Yes"
  \/ \E i \in 1..Len(outbox[c]) : outbox[c][i][1] = "Yes"

Complete(c) ==
  /\ c \in DOMAIN socket_list
  /\ socket_list[c] \in dirs
  /\ socket_list[c] \in DOMAIN user_list

Kept == ~lossy =>
  \A c \in Conns :
    /\ Heard(c) => Complete(c)
    /\ th[c].pc = "bind" => th[c].req \in DOMAIN user_list

(* What maps that lose nothing do: they grow, and only a connection's own  *)
(* thread gives it another name (Server 79-87).                            *)
LEMMA MapsGrow ==
  ASSUME ~lossy, NEW c \in Conns, Server(c) \/ User(c) \/ Program(c) \/ NetReset(c)
  PROVE  /\ lossy' = lossy
         /\ DOMAIN user_list \subseteq DOMAIN user_list'
         /\ dirs \subseteq dirs'
         /\ \A d \in Conns : d # c /\ d \in DOMAIN socket_list =>
              d \in DOMAIN socket_list' /\ socket_list'[d] = socket_list[d]
         /\ ~PutSocket(c) => socket_list' = socket_list
<1>1. CASE PutUser(c)
  <2>1. user_list' = Put(user_list, th[c].req, c)
    BY <1>1 DEF PutUser, AfterPut
  <2> QED
    BY <1>1, <2>1 DEF PutUser, Put
<1>2. CASE PutSocket(c)
  <2>1. socket_list' = Put(socket_list, c, th[c].req)
    BY <1>2 DEF PutSocket, AfterPut
  <2> QED
    BY <1>2, <2>1 DEF PutSocket, Put
<1>3. CASE ~PutUser(c) /\ ~PutSocket(c)
  BY <1>3 DEF Server, Take, Die, Lookup, PingFails, PingSucceeds, ListNext,
              ListBroken, ListDone, Reply, User, Program, Connect, AskList,
              Leave, Vanish, End, Ask, Wake, Listen, NetReset, maps
<1> QED
  BY <1>1, <1>2, <1>3

(* A step of one connection leaves what the others have heard and what     *)
(* their threads hold.                                                     *)
LEMMA OthersHear ==
  ASSUME TypeOK, Inv, NEW c \in Conns,
         Server(c) \/ User(c) \/ Program(c) \/ NetReset(c),
         NEW d \in Conns, d # c
  PROVE  cl'[d] = cl[d] /\ th'[d] = th[d] /\ outbox'[d] = outbox[d]
<1>1. ASSUME Server(c) PROVE cl' = cl /\ th'[d] = th[d] /\ outbox'[d] = outbox[d]
  <2>1. cl' = cl
    BY <1>1 DEF Server, Take, Die, Lookup, PingFails, PingSucceeds, PutUser,
                PutSocket, ListNext, ListBroken, ListDone, Reply
  <2>2. outbox'[d] = outbox[d]
    BY <1>1 DEF Server, Take, Die, Lookup, PingFails, PingSucceeds, PutUser,
                PutSocket, ListNext, ListBroken, ListDone, Reply, wires, TypeOK
  <2>3. th'[d] = th[d]
    BY <1>1 DEF Server, Take, Die, Lookup, Granted, PingFails, PingSucceeds,
                PutUser, PutSocket, ListNext, ListBroken, ListDone, Reply, TypeOK
  <2> QED
    BY <2>1, <2>2, <2>3
<1>2. ASSUME User(c) \/ Program(c) \/ NetReset(c)
      PROVE  cl'[d] = cl[d] /\ th' = th /\ outbox'[d] = outbox[d]
  BY <1>2 DEF User, Program, Connect, AskList, Leave, Vanish, End, Ask, Wake,
              Listen, NetReset, wires, TypeOK
<1> QED
  BY <1>1, <1>2

(* In a thread's step, only user_list.put goes on to the binding, and only *)
(* the binding makes the verdict "Yes".                                    *)
LEMMA VerdictChanges ==
  ASSUME TypeOK, NEW c \in Conns, Server(c)
  PROVE  /\ th'[c].pc = "bind" => PutUser(c)
         /\ th'[c].verdict = "Yes" => PutSocket(c) \/ th[c].verdict = "Yes"
<1>1. th \in [Conns -> Threads] /\ th[c] \in Threads
  BY DEF TypeOK
<1>2. CASE Take(c)
  <2> DEFINE r == Head(inbox[c])
  <2>1. \/ th' = [th EXCEPT ![c] = [Thread("list") EXCEPT !.todo = DOMAIN user_list,
                                                        !.keys = DOMAIN user_list]]
        \/ th' = [th EXCEPT ![c] = Thread("dead")]
        \/ th' = [th EXCEPT ![c] = [Thread("reply") EXCEPT !.verdict = "InvalidUser"]]
        \/ th' = [th EXCEPT ![c] = [Thread("lookup") EXCEPT !.req = r]]
    BY <1>2 DEF Take
  <2>2. /\ Thread("list").verdict = "none" /\ Thread("dead").verdict = "none"
        /\ Thread("lookup").verdict = "none"
        /\ \A pc \in Pcs : Thread(pc).pc = pc /\ Thread(pc) \in Threads
    BY ThreadTyping DEF Thread, Pcs
  <2>3. th'[c].pc # "bind" /\ th'[c].verdict # "Yes"
    <3>1. CASE th' = [th EXCEPT ![c] = [Thread("list") EXCEPT !.todo = DOMAIN user_list,
                                                             !.keys = DOMAIN user_list]]
      BY <1>1, <2>2, <3>1 DEF Pcs, Threads
    <3>2. CASE th' = [th EXCEPT ![c] = Thread("dead")]
      BY <1>1, <2>2, <3>2 DEF Pcs
    <3>3. CASE th' = [th EXCEPT ![c] = [Thread("reply") EXCEPT !.verdict = "InvalidUser"]]
      BY <1>1, <2>2, <3>3 DEF Pcs, Threads
    <3>4. CASE th' = [th EXCEPT ![c] = [Thread("lookup") EXCEPT !.req = r]]
      BY <1>1, <2>2, <3>4 DEF Pcs, Threads
    <3> QED
      BY <2>1, <3>1, <3>2, <3>3, <3>4
  <2> QED
    BY <2>3
<1>3. CASE Die(c) \/ ListBroken(c) \/ Reply(c)
  BY <1>1, <1>3 DEF Die, ListBroken, Reply, Thread
<1>4. CASE Lookup(c) \/ PingFails(c) \/ PingSucceeds(c)
  <2>1. CASE Granted(c)
    BY <1>1, <2>1 DEF Granted, Threads
  <2>2. CASE Lookup(c) /\ ~Granted(c)
    BY <1>1, <2>2 DEF Lookup, Threads
  <2>3. CASE PingSucceeds(c) /\ ~Granted(c)
    BY <1>1, <2>3 DEF PingSucceeds, Threads
  <2> QED
    BY <1>4, <2>1, <2>2, <2>3 DEF PingFails
<1>5. CASE ListNext(c)
  <2>1. th[c].pc = "list" /\ \E u \in th[c].todo, x \in {"active", "offline"} :
          th' = [th EXCEPT ![c] = ListTells(c, u, x)]
    BY <1>5 DEF ListNext, ListTells
  <2> QED
    BY <1>1, <2>1 DEF ListTells, Threads
<1>6. CASE ListDone(c)
  BY <1>1, <1>6 DEF ListDone, Threads
<1>7. CASE PutUser(c)
  <2>1. th'[c].verdict = th[c].verdict
    BY <1>1, <1>7 DEF PutUser, Threads
  <2> QED
    BY <1>7, <2>1
<1>8. CASE PutSocket(c)
  BY <1>1, <1>8 DEF PutSocket, Threads
<1> QED
  BY <1>2, <1>3, <1>4, <1>5, <1>6, <1>7, <1>8 DEF Server

(* Only the thread that binds has a "Yes" to give, only its answer puts it *)
(* on the wire, and the client hears only what was on the wire.            *)
LEMMA HeardBefore ==
  ASSUME TypeOK, Inv, NEW c \in Conns,
         Server(c) \/ User(c) \/ Program(c) \/ NetReset(c),
         ~PutSocket(c), Heard(c)'
  PROVE  Heard(c)
<1>1. /\ outbox \in [Conns -> Seq(Lines \X BOOLEAN)]
      /\ th \in [Conns -> Threads] /\ cl \in [Conns -> Clients]
  BY DEF TypeOK
<1>2. CASE Listen(c)
  <2>1. PICK rest \in Rests(outbox[c]) : outbox' = [outbox EXCEPT ![c] = rest]
    BY <1>2 DEF Listen
  <2>2. PICK k \in 1..Len(outbox[c]) : rest = SubSeq(outbox[c], k + 1, Len(outbox[c]))
    BY <2>1 DEF Rests
  <2>3. outbox'[c] = rest /\ outbox[c] \in Seq(Lines \X BOOLEAN)
    BY <1>1, <2>1
  <2>4. \A i \in 1..Len(rest) : k + i \in 1..Len(outbox[c]) /\ rest[i] = outbox[c][k + i]
    BY <2>2, <2>3
  <2>5. Head(outbox[c]) = outbox[c][1] /\ 1 \in 1..Len(outbox[c])
    BY <1>2, <2>3 DEF Listen
  <2>6. /\ th' = th
        /\ cl'[c].auth = (cl[c].auth \/ Head(outbox[c]) = <<"Yes", FALSE>>)
    BY <1>1, <1>2 DEF Listen, Clients
  <2>7. CASE cl'[c].auth
    <3>1. cl[c].auth \/ outbox[c][1] = <<"Yes", FALSE>>
      BY <2>5, <2>6, <2>7, Zenon
    <3>2. <<"Yes", FALSE>>[1] = "Yes"
      OBVIOUS
    <3>3. cl[c].auth \/ outbox[c][1][1] = "Yes"
      BY <3>1, <3>2, Zenon
    <3> QED
      BY <2>5, <3>3 DEF Heard
  <2>8. CASE th'[c].verdict = "Yes"
    BY <2>6, <2>8 DEF Heard
  <2>9. CASE \E i \in 1..Len(outbox'[c]) : outbox'[c][i][1] = "Yes"
    <3>1. PICK i \in 1..Len(rest) : rest[i][1] = "Yes"
      BY <2>3, <2>9
    <3>2. k + i \in 1..Len(outbox[c]) /\ outbox[c][k + i][1] = "Yes"
      BY <2>4, <3>1
    <3> QED
      BY <3>2 DEF Heard
  <2> QED
    BY <2>7, <2>8, <2>9 DEF Heard
<1>3. CASE (User(c) \/ Program(c) \/ NetReset(c)) /\ ~Listen(c)
  <2>1. th' = th /\ (cl'[c].auth => cl[c].auth) /\ outbox'[c] \in {outbox[c], <<>>}
    <3>1. CASE Connect(c) \/ Leave(c) \/ Vanish(c)
      BY <1>1, <3>1 DEF Connect, Leave, Vanish, End, Client
    <3>2. CASE AskList(c) \/ Wake(c) \/ NetReset(c)
      BY <1>1, <3>2 DEF AskList, Wake, NetReset, wires, Clients
    <3>3. CASE \E t \in Typed : Ask(c, t)
      BY <1>1, <3>3 DEF Ask, Clients
    <3> QED
      BY <1>3, <3>1, <3>2, <3>3 DEF User, Program
  <2> QED
    BY <2>1 DEF Heard
<1>4. CASE Reply(c)
  <2> DEFINE line == <<th[c].verdict, pinged[c]>>
  <2>1. cl' = cl /\ th'[c] = Thread("idle")
    BY <1>1, <1>4 DEF Reply
  <2>2. outbox'[c] = outbox[c] \/ outbox'[c] = Append(outbox[c], line)
    BY <1>1, <1>4 DEF Reply
  <2>3. th'[c].verdict = "none"
    BY <2>1 DEF Thread
  <2>4. CASE outbox'[c] = outbox[c]
    BY <2>1, <2>3, <2>4 DEF Heard
  <2>5. CASE outbox'[c] = Append(outbox[c], line) /\ ~cl'[c].auth
    <3> HIDE DEF line
    <3>1. PICK i \in 1..Len(outbox'[c]) : outbox'[c][i][1] = "Yes"
      BY <2>3, <2>5 DEF Heard
    <3>2. CASE i \in 1..Len(outbox[c])
      BY <1>1, <2>5, <3>1, <3>2 DEF Heard
    <3>3. CASE i \notin 1..Len(outbox[c])
      <4>1. outbox[c] \in Seq(Lines \X BOOLEAN)
        BY <1>1
      <4>2. outbox'[c][i] = line
        BY <2>5, <3>1, <3>3, <4>1
      <4> QED
        BY <3>1, <4>2 DEF Heard, line
    <3> QED
      BY <3>2, <3>3
  <2> QED
    BY <2>1, <2>2, <2>4, <2>5 DEF Heard
<1>5. CASE Server(c) /\ ~Reply(c)
  <2>1. cl' = cl /\ outbox' = outbox
    BY <1>5 DEF Server, Take, Die, Lookup, PingFails, PingSucceeds, PutUser,
                PutSocket, ListNext, ListBroken, ListDone, wires
  <2>2. th'[c].verdict = "Yes" => th[c].verdict = "Yes"
    BY <1>5, VerdictChanges
  <2> QED
    BY <2>1, <2>2 DEF Heard
<1> QED
  BY <1>2, <1>3, <1>4, <1>5

(* Every step keeps what granted logins stand for.                         *)
LEMMA KeptStep ==
  ASSUME TypeOK, Inv, Kept, [Next]_vars
  PROVE  Kept'
<1>1. CASE UNCHANGED vars
  BY <1>1 DEF vars, maps, wires, Kept, Heard, Complete
<1>2. ASSUME NEW c \in Conns, Server(c) \/ User(c) \/ Program(c) \/ NetReset(c)
      PROVE  Kept'
  <2>1. lossy' = lossy
    BY <1>2 DEF Server, Take, Die, Lookup, PingFails, PingSucceeds, PutUser,
                PutSocket, ListNext, ListBroken, ListDone, Reply, User, Program,
                Connect, AskList, Leave, Vanish, End, Ask, Wake, Listen, NetReset,
                maps
  <2> SUFFICES ASSUME ~lossy, NEW d \in Conns
               PROVE  /\ Heard(d)' => Complete(d)'
                      /\ th'[d].pc = "bind" => th'[d].req \in DOMAIN user_list'
    BY <2>1 DEF Kept
  <2>2. /\ DOMAIN user_list \subseteq DOMAIN user_list'
        /\ dirs \subseteq dirs'
        /\ \A e \in Conns : e # c /\ e \in DOMAIN socket_list =>
             e \in DOMAIN socket_list' /\ socket_list'[e] = socket_list[e]
        /\ ~PutSocket(c) => socket_list' = socket_list
    BY <1>2, MapsGrow
  <2>3. /\ Heard(d) => Complete(d)
        /\ th[d].pc = "bind" => th[d].req \in DOMAIN user_list
    BY DEF Kept
  <2>4. CASE d # c
    <3>1. cl'[d] = cl[d] /\ th'[d] = th[d] /\ outbox'[d] = outbox[d]
      BY <1>2, <2>4, OthersHear
    <3> QED
      BY <2>2, <2>3, <2>4, <3>1 DEF Heard, Complete
  <2>5. CASE d = c /\ PutSocket(c)
    <3>1. socket_list' = Put(socket_list, c, th[c].req)
      BY <2>5 DEF PutSocket, AfterPut
    <3>2. c \in DOMAIN socket_list' /\ socket_list'[c] = th[c].req
      BY <3>1 DEF Put
    <3>3. th[c].req \in dirs' /\ th[c].req \in DOMAIN user_list' /\ th'[c].pc = "reply"
      BY <2>2, <2>3, <2>5 DEF PutSocket, TypeOK, Threads
    <3> QED
      BY <2>5, <3>2, <3>3 DEF Complete
  <2>6. CASE d = c /\ ~PutSocket(c)
    <3>1. Heard(c)' => Heard(c)
      BY <1>2, <2>6, HeardBefore
    <3>2. Heard(d)' => Complete(d)'
      BY <2>2, <2>3, <2>6, <3>1 DEF Complete
    <3>3. ASSUME th'[c].pc = "bind" PROVE th'[c].req \in DOMAIN user_list'
      <4>1. th \in [Conns -> Threads]
        BY DEF TypeOK
      <4>2. CASE PutUser(c)
        <5>1. user_list' = Put(user_list, th[c].req, c)
          BY <4>2 DEF PutUser, AfterPut
        <5>2. th'[c].req = th[c].req
          BY <4>1, <4>2 DEF PutUser, Threads
        <5> QED
          BY <5>1, <5>2 DEF Put
      <4>3. CASE User(c) \/ Program(c) \/ NetReset(c)
        <5>1. th' = th
          BY <4>3 DEF User, Program, Connect, AskList, Leave, Vanish, End, Ask,
                      Wake, Listen, NetReset
        <5> QED
          BY <2>2, <2>3, <2>6, <3>3, <5>1
      <4>4. CASE Server(c) /\ ~PutUser(c)
        BY <3>3, <4>4, VerdictChanges
      <4> QED
        BY <1>2, <4>2, <4>3, <4>4
    <3> QED
      BY <2>6, <3>2, <3>3
  <2> QED
    BY <2>4, <2>5, <2>6
<1> QED
  BY <1>1, <1>2 DEF Next

(* "Yes:" is only ever heard of a complete login: the server finds the     *)
(* student by the connection, his directory is there and his name is in    *)
(* the list, unless an overlapping put has lost it (Server 79-87, 293).    *)
THEOREM SessionsGranted == Spec => []GrantedIsKnown
<1>1. Init => Kept
  BY DEF Init, Kept, Heard, Thread, Client
<1>2. TypeOK /\ Inv /\ Kept /\ [Next]_vars => Kept'
  BY KeptStep
<1>3. Kept => GrantedIsKnown
  BY DEF Kept, GrantedIsKnown, Heard, Complete
<1> QED
  BY <1>1, <1>2, <1>3, SessionsInvariant, PTL DEF Spec

-----------------------------------------------------------------------------
(* The connections that are logged in by a name, or are being.             *)
Bears(c, t) ==
  \/ c \in DOMAIN socket_list /\ socket_list[c] = t
  \/ th[c].pc = "bind" /\ th[c].req = t

(* The server knows nothing of a connection before there is one.           *)
AbsentIsIdle ==
  \A c \in Conns : net[c] = "none" =>
    th[c].pc = "idle" /\ inbox[c] = <<>> /\ c \notin DOMAIN socket_list

(* Of the open connections that bear an ID which is not contested there is *)
(* one, and it is the one in user_list.                                    *)
BearerIsListed ==
  \A t \in Ids \ contested, c \in Conns :
    Bears(c, t) /\ net[c] = "open" => t \in DOMAIN user_list /\ user_list[t] = c

Entries == AbsentIsIdle /\ BearerIsListed

(* The steps of clients and network change neither maps nor threads, and   *)
(* open only a connection of which nothing is known.                       *)
LEMMA ClientEntries ==
  ASSUME TypeOK, Inv, Entries, NEW c \in Conns, User(c) \/ Program(c) \/ NetReset(c)
  PROVE  Entries'
<1>1. th' = th /\ maps' = maps
  BY DEF User, Program, Connect, AskList, Leave, Vanish, End, Ask, Wake, Listen,
         NetReset, wires
<1>2. \A d \in Conns :
        /\ net'[d] = "none" => net[d] = "none" /\ inbox'[d] = inbox[d]
        /\ net'[d] = "open" => net[d] \in {"open", "none"}
  <2>1. CASE Connect(c)
    BY <2>1 DEF Connect, TypeOK, Inv, NetFollowsClient
  <2>2. CASE Leave(c) \/ Vanish(c) \/ NetReset(c)
    BY <2>2 DEF Leave, Vanish, End, NetReset, TypeOK
  <2>3. CASE AskList(c) \/ \E t \in Typed : Ask(c, t)
    <3>1. net' = net /\ net[c] = "open"
      BY <2>3 DEF AskList, Ask, Inv, NetFollowsClient
    <3>2. \A d \in Conns : d # c => inbox'[d] = inbox[d]
      BY <2>3 DEF AskList, Ask, Send, TypeOK
    <3> QED
      BY <3>1, <3>2
  <2>4. CASE Program(c)
    BY <2>4 DEF Program, Wake, Listen, wires
  <2> QED
    BY <2>1, <2>2, <2>3, <2>4 DEF User
<1>3. /\ user_list' = user_list /\ socket_list' = socket_list /\ contested' = contested
  BY <1>1 DEF maps
<1>4. AbsentIsIdle'
  BY <1>1, <1>2, <1>3 DEF Entries, AbsentIsIdle
<1>5. BearerIsListed'
  <2>1. \A d \in Conns, t \in Ids : Bears(d, t)' <=> Bears(d, t)
    BY <1>1, <1>3 DEF Bears
  <2>2. \A d \in Conns, t \in Ids : Bears(d, t) => net[d] # "none"
    BY DEF Entries, AbsentIsIdle, Bears
  <2> QED
    BY <1>2, <1>3, <2>1, <2>2 DEF Entries, BearerIsListed
<1> QED
  BY <1>4, <1>5 DEF Entries

(* The network as a thread's step leaves it: nothing opens, and nothing is *)
(* begun for a connection that is not there.                               *)
LEMMA ServerNet ==
  ASSUME TypeOK, Inv, AbsentIsIdle, NEW c \in Conns, Server(c)
  PROVE  /\ net[c] # "none"
         /\ \A d \in Conns : (net'[d] = "open" <=> net[d] = "open")
                             /\ (net'[d] = "none" <=> net[d] = "none")
         /\ \A d \in Conns : d # c => inbox'[d] = inbox[d]
<1>1. net[c] # "none"
  BY DEF AbsentIsIdle, Server, Take, Die, Lookup, PingFails, PingSucceeds, PutUser,
         PutSocket, ListNext, ListBroken, ListDone, Reply
<1>2. \A d \in Conns : d # c => inbox'[d] = inbox[d]
  BY DEF Server, Take, Die, Lookup, PingFails, PingSucceeds, PutUser,
         PutSocket, ListNext, ListBroken, ListDone, Reply, wires, TypeOK
<1>3. net' = net \/ \E e \in Conns : net' = [net EXCEPT ![e] = AfterWrite(@)]
  <2>1. CASE PingSucceeds(c)
    BY <2>1 DEF PingSucceeds, PingWrites, Inv, LocalsReady
  <2>2. CASE ListNext(c)
    BY <2>2, ListNextStep DEF PingWrites
  <2>3. CASE Reply(c)
    BY <2>3 DEF Reply
  <2> QED
    BY <2>1, <2>2, <2>3 DEF Server, Take, Die, Lookup, PingFails, PutUser, PutSocket,
                            ListBroken, ListDone, wires
<1> QED
  BY <1>1, <1>2, <1>3 DEF AfterWrite, TypeOK

(* A thread's step.  A login that overwrites the entry of an open bearer   *)
(* has not found it, for what it found is broken: the name is contested.   *)
LEMMA ServerEntries ==
  ASSUME TypeOK, Inv, Entries, NEW c \in Conns, Server(c)
  PROVE  Entries'
<1>1. /\ net[c] # "none"
      /\ \A d \in Conns : (net'[d] = "open" <=> net[d] = "open")
                          /\ (net'[d] = "none" <=> net[d] = "none")
      /\ \A d \in Conns : d # c => inbox'[d] = inbox[d]
  BY ServerNet DEF Entries
<1>2. \A d \in Conns : d # c => th'[d] = th[d]
  BY OthersHear
<1>3. th \in [Conns -> Threads] /\ th[c] \in Threads
  BY DEF TypeOK
<1>4. CASE PutUser(c)
  <2> DEFINE r == th[c].req
  <2>1. user_list' \in AfterPut(user_list, th[c].keys, r, c, lossy)
    BY <1>4 DEF PutUser
  <2>2. /\ r \in DOMAIN user_list' => user_list'[r] = c
        /\ DOMAIN user_list' \subseteq DOMAIN user_list \cup {r}
        /\ \A x \in DOMAIN user_list' :
             x # r => x \in DOMAIN user_list /\ user_list'[x] = user_list[x]
    BY <2>1, PutLemma
  <2>3. socket_list' = socket_list /\ contested' = contested \cup Contests(c)
    BY <1>4 DEF PutUser
  <2>4. th'[c].pc = "bind" /\ th'[c].req = r
    BY <1>3, <1>4 DEF PutUser, Threads
  <2>5. th[c].found \in {NoConn, c} \/ net[th[c].found] = "reset"
    BY <1>4 DEF PutUser, Inv, FoundIsBroken
  <2>6. AbsentIsIdle'
    BY <1>1, <1>2, <2>3 DEF Entries, AbsentIsIdle
  <2>7. ASSUME NEW t \in Ids, t \notin contested', NEW d \in Conns,
               Bears(d, t)', net'[d] = "open"
        PROVE  t \in DOMAIN user_list' /\ user_list'[t] = d
    <3>1. t \notin contested /\ t \notin LostBy(user_list, user_list', r)
      BY <2>3, <2>7 DEF Contests
    <3>2. t = r /\ t \in DOMAIN user_list => user_list[t] \in {th[c].found, c}
      BY <2>3, <2>7 DEF Contests
    <3>3. Bears(d, t) \/ (d = c /\ t = r)
      BY <1>2, <2>3, <2>4, <2>7 DEF Bears
    <3>4. CASE d = c /\ t = r
      BY <2>2, <3>1, <3>4 DEF LostBy
    <3>5. CASE Bears(d, t) /\ ~(d = c /\ t = r)
      <4>1. net[d] = "open" /\ t \in DOMAIN user_list /\ user_list[t] = d
        BY <1>1, <2>7, <3>1, <3>5 DEF Entries, BearerIsListed
      <4>2. t \in DOMAIN user_list'
        BY <3>1, <4>1 DEF LostBy
      <4>3. t # r
        <5> SUFFICES ASSUME t = r PROVE FALSE
          OBVIOUS
        <5>1. d \in {th[c].found, c}
          BY <3>2, <4>1
        <5>2. d = th[c].found /\ d # c
          BY <3>5, <5>1
        <5> QED
          BY <2>5, <4>1, <5>2, SessionsAssumption
      <4> QED
        BY <2>2, <4>1, <4>2, <4>3
    <3> QED
      BY <3>3, <3>4, <3>5
  <2>8. BearerIsListed'
    BY <2>7 DEF BearerIsListed
  <2> QED
    BY <2>6, <2>8 DEF Entries
<1>5. CASE PutSocket(c)
  <2> DEFINE r == th[c].req
  <2>1. socket_list' \in AfterPut(socket_list, th[c].keys, c, r, lossy)
    BY <1>5 DEF PutSocket
  <2>2. /\ c \in DOMAIN socket_list' => socket_list'[c] = r
        /\ \A x \in DOMAIN socket_list' :
             x # c => x \in DOMAIN socket_list /\ socket_list'[x] = socket_list[x]
    BY <2>1, PutLemma
  <2>3. user_list' = user_list /\ contested' = contested /\ th[c].pc = "bind"
    BY <1>5 DEF PutSocket
  <2>4. th'[c].pc = "reply"
    BY <1>3, <1>5 DEF PutSocket, Threads
  <2>5. AbsentIsIdle'
    <3> SUFFICES ASSUME NEW d \in Conns, net'[d] = "none"
                 PROVE  th'[d].pc = "idle" /\ inbox'[d] = <<>> /\ d \notin DOMAIN socket_list'
      BY DEF AbsentIsIdle
    <3>1. d # c /\ net[d] = "none"
      BY <1>1
    <3> QED
      BY <1>1, <1>2, <2>2, <3>1 DEF Entries, AbsentIsIdle
  <2>6. \A d \in Conns, t \in Ids : Bears(d, t)' => Bears(d, t)
    BY <1>2, <2>2, <2>3, <2>4 DEF Bears
  <2> QED
    BY <1>1, <2>3, <2>5, <2>6 DEF Entries, BearerIsListed
<1>6. CASE ~PutUser(c) /\ ~PutSocket(c)
  <2>1. maps' = maps
    BY <1>6 DEF Server, Take, Die, Lookup, PingFails, PingSucceeds, ListNext,
                ListBroken, ListDone, Reply
  <2>2. /\ user_list' = user_list /\ socket_list' = socket_list
        /\ contested' = contested
    BY <2>1 DEF maps
  <2>3. th'[c].pc # "bind"
    BY <1>6, VerdictChanges
  <2>4. AbsentIsIdle'
    BY <1>1, <1>2, <2>2 DEF Entries, AbsentIsIdle
  <2>5. \A d \in Conns, t \in Ids : Bears(d, t)' => Bears(d, t)
    BY <1>2, <2>2, <2>3 DEF Bears
  <2> QED
    BY <1>1, <2>2, <2>4, <2>5 DEF Entries, BearerIsListed
<1> QED
  BY <1>4, <1>5, <1>6

(* Whom the list calls offline, by an ID that is not contested, has no     *)
(* open connection at all that is logged in by it: the ping fails only on  *)
(* a connection the kernel knows to be broken (Server.checkConnectionStatus,*)
(* lines 331-344), and whoever is there is the one in user_list.           *)
THEOREM SessionsOffline == Spec => OfflineIsGone
<1> DEFINE Gone ==
      \A c \in Conns : \A e \in th'[c].shown \ th[c].shown :
        e[2] = "offline" /\ e[1] \in Ids \ contested =>
          \A d \in DOMAIN socket_list :
            socket_list[d] = e[1] => cl[d].at \notin {"login", "home"}
<1>1. Init => Entries
  <2> SUFFICES ASSUME Init PROVE Entries
    OBVIOUS
  <2>1. \A c \in Conns : th[c].pc = "idle" /\ inbox[c] = <<>>
    BY DEF Init, Thread
  <2>2. DOMAIN socket_list = {}
    BY DEF Init, EmptyMap
  <2> QED
    BY <2>1, <2>2 DEF Entries, AbsentIsIdle, BearerIsListed, Bears
<1>2. TypeOK /\ Inv /\ Entries /\ [Next]_vars => Entries'
  <2>1. ASSUME Entries, UNCHANGED vars PROVE Entries'
    BY <2>1 DEF vars, maps, wires, Entries, AbsentIsIdle, BearerIsListed, Bears
  <2> QED
    BY <2>1, ClientEntries, ServerEntries DEF Next
<1>3. TypeOK /\ Inv /\ Entries /\ [Next]_vars => Gone
  <2> SUFFICES ASSUME TypeOK, Inv, Entries, [Next]_vars, NEW c \in Conns,
                      NEW e \in th'[c].shown \ th[c].shown, e[2] = "offline",
                      e[1] \in Ids \ contested, NEW d \in DOMAIN socket_list,
                      socket_list[d] = e[1]
               PROVE  cl[d].at \notin {"login", "home"}
    OBVIOUS
  <2>1. ListNext(c)
    BY ShownGrows
  <2>2. PICK u \in th[c].todo :
          /\ u \in Typed /\ user_list[u] \in Conns
          /\ \/ /\ net[user_list[u]] = "reset"
                /\ th' = [th EXCEPT ![c] = ListTells(c, u, "offline")]
                /\ UNCHANGED <<net, pinged>>
             \/ /\ th' = [th EXCEPT ![c] = ListTells(c, u, "active")]
                /\ PingWrites(user_list[u])
    BY <2>1, ListNextStep
  <2>3. /\ ListTells(c, u, "offline").shown = th[c].shown \cup {<<u, "offline">>}
        /\ ListTells(c, u, "active").shown = th[c].shown \cup {<<u, "active">>}
    BY <2>1, ListTelling DEF ListNext
  <2>4. CASE th' = [th EXCEPT ![c] = ListTells(c, u, "active")]
    <3>1. th'[c] = ListTells(c, u, "active")
      BY <2>4 DEF TypeOK
    <3>2. e = <<u, "active">>
      BY <2>3, <3>1
    <3> QED
      BY <3>2
  <2>5. CASE /\ net[user_list[u]] = "reset"
             /\ th' = [th EXCEPT ![c] = ListTells(c, u, "offline")]
    <3>1. th'[c] = ListTells(c, u, "offline")
      BY <2>5 DEF TypeOK
    <3>2. e = <<u, "offline">>
      BY <2>3, <3>1
    <3>3. d \in Conns /\ Bears(d, u)
      BY <3>2 DEF TypeOK, Bears
    <3>4. ASSUME net[d] = "open" PROVE user_list[u] = d
      BY <3>2, <3>3, <3>4 DEF Entries, BearerIsListed
    <3> QED
      BY <2>5, <3>3, <3>4 DEF Inv, NetFollowsClient
  <2> QED
    BY <2>2, <2>4, <2>5
<1>4. TypeOK /\ Inv /\ Entries /\ [Next]_vars => [Gone]_vars
  BY <1>3
<1> QED
  BY <1>1, <1>2, <1>4, SessionsInvariant, PTL DEF Spec, OfflineIsGone
=============================================================================
