-------------------------- MODULE FileStoreProofs --------------------------
(***************************************************************************)
(* What uploads that go on at the same time leave on the disk and in the   *)
(* two indexes, for any number of uploads, sizes, names and ports, and     *)
(* that the store does what AbstractStore promises of it.                  *)
(***************************************************************************)
EXTENDS FileStore, FiniteSetTheorems, TLAPS

Pcs ==
  {"idle", "refused", "bind", "unbound", "listen", "reserve", "reserve2",
   "put", "putid", "open", "recv", "check", "exists", "delete", "unlist",
   "unlistid", "release", "release2", "close", "ended"}

Ups ==
  [pc: Pcs, port: Ports \cup {NoPort}, peer: Uploads \cup {NoUpload},
   read: -(MaxInt + 1)..MaxInt, got: 0..MaxInt, inode: Uploads \cup {NoUpload},
   result: {"none", "stored", "corrupt", "failed", "lost"}]

Early == {"idle", "refused", "bind", "unbound", "listen"}
Unopened == Early \cup {"reserve", "reserve2", "put", "putid", "open"}
Undone == {"exists", "delete", "unlist", "unlistid"}
Finishing == Undone \cup {"release", "release2", "close"}

(* What upload u has at each of its steps.                                 *)
Ready(u, t) ==
  /\ t.pc \in {"idle", "refused", "bind"} => t.port = NoPort
  /\ t.pc \notin {"idle", "refused", "bind", "unbound", "ended"} => t.port \in Ports
  /\ t.pc \in Early => t.peer = NoUpload
  /\ t.pc \notin Early \cup {"ended"} => t.peer \in Uploads
  /\ t.inode # NoUpload => path[t.inode] = path[u]
  /\ t.pc \in {"recv", "check"} => t.inode \in Uploads
  /\ t.pc \in Unopened \cup {"recv", "check"} => t.result = "none"
  /\ t.pc \in Undone => t.result \in {"corrupt", "failed"}
  /\ t.pc \in Finishing => t.result \in {"stored", "corrupt", "failed"}
  /\ t.pc \in Unopened => t.inode = NoUpload
  /\ t.result \in {"stored", "corrupt"} => t.inode \in Uploads
AllReady == \A u \in Uploads : Ready(u, up[u])

(* As long as no two threads were in one of the indexes at once, an entry  *)
(* of file_ID_list belongs to an upload of this path, which is found in    *)
(* file_list, or is between its two removals; a file always belongs to an  *)
(* upload of its path.                                                     *)
Listed(u) == u \in DOMAIN file_list /\ file_list[u] = path[u]
Indexed == torn = FALSE =>
  /\ \A u \in Uploads : up[u].pc = "putid" => Listed(u)
  /\ \A p \in DOMAIN file_ID_list : \A u \in Uploads :
       file_ID_list[p] = u => path[u] = p /\ (Listed(u) \/ up[u].pc = "unlistid")
Files == \A p \in DOMAIN dir : path[dir[p]] = p

Inv == TypeOK /\ AllReady /\ Indexed /\ Files

(* An upload that has still to check or to delete the file of its path.    *)
Pending(t) ==
  \/ t.pc \in {"recv", "check", "exists", "delete"}
  \/ t.result = "failed" /\ t.pc \in {"release", "release2", "unlist", "unlistid"}

(* A file is pending, or was verified by one of its uploads and has kept   *)
(* its length.                                                             *)
Vouches(u) ==
  \/ Pending(up[u])
  \/ up[u].result = "stored" /\ Length(path[u]) = Size[u]
Kept == \A p \in DOMAIN dir : \E u \in Uploads : path[u] = p /\ Vouches(u)

(* When the file of an upload that is alone at its path exists, and when   *)
(* its two index entries do.                                               *)
HasFile(t) == t.result = "stored" \/ (Pending(t) /\ t.inode # NoUpload)
HasEntry(t) ==
  \/ t.result = "stored" \/ t.pc \in {"putid", "open", "recv", "check"}
  \/ t.result = "failed" /\ t.pc \in {"release", "release2", "unlist"}
  \/ t.result = "corrupt" /\ t.pc \in {"exists", "delete", "unlist"}
HasID(t) ==
  \/ t.result = "stored" \/ t.pc \in {"open", "recv", "check"}
  \/ t.result = "failed" /\ t.pc \in {"release", "release2", "unlist", "unlistid"}
  \/ t.result = "corrupt" /\ t.pc \in Undone

Alone(u) ==
  /\ IF HasFile(up[u])
     THEN /\ path[u] \in DOMAIN dir /\ dir[path[u]] = u
          /\ data[u] = [i \in 1..up[u].got |-> u] /\ up[u].got <= Size[u]
     ELSE path[u] \notin DOMAIN dir
  /\ IF HasEntry(up[u]) THEN Listed(u) ELSE u \notin DOMAIN file_list
  /\ IF HasID(up[u])
     THEN path[u] \in DOMAIN file_ID_list /\ file_ID_list[path[u]] = u
     ELSE path[u] \notin DOMAIN file_ID_list
  /\ up[u].result = "stored" => up[u].got = Size[u]
  /\ up[u].pc \in Unopened => data[u] = <<>> /\ up[u].got = 0
  /\ up[u].pc = "ended" => up[u].result \in {"stored", "corrupt", "failed"}
LoneInv ==
  torn = FALSE /\ crashes = 0 =>
    \A u \in Lone : up[u].peer \in {u, NoUpload} => Alone(u)

(* A step of an upload begins or goes on with threads in one index.        *)
Tears == torn' \in BOOLEAN /\ (torn' = FALSE => torn = FALSE)
Steps(u) == Tears /\ (Request(u) \/ Bind(u) \/ Connect(u) \/ Thread(u))

-----------------------------------------------------------------------------
(* A sum of ints is an int.                                                *)
LEMMA AddType ==
  ASSUME NEW a \in Int, NEW b \in Int
  PROVE  Add(a, b) \in -(MaxInt + 1)..MaxInt
<1> DEFINE n == MaxInt + 1
           s == a + b + n
<1>1. MaxInt \in Nat /\ n \in Nat /\ n > 0 /\ s \in Int
  BY StoreAssumption
<1>2. Add(a, b) = (s % (2 * n)) - n
  BY DEF Add
<1>3. 2 * n \in Nat /\ 2 * n > 0
  BY <1>1
<1> HIDE DEF s
<1>4. s % (2 * n) \in 0..(2 * n - 1)
  BY <1>1, <1>3
<1> QED
  BY <1>1, <1>2, <1>4

(* The types of the variables that only count, queue or tell.              *)
Others ==
  /\ FILE_BUFFER \in -(MaxInt + 1)..MaxInt
  /\ client \in [Uploads -> {"idle", "told", "connected", "refused"}]
  /\ queue \in [Ports -> Seq(Uploads)]
  /\ crashes \in 0..MaxCrashes
  /\ lost \subseteq Adds /\ missed \in [Uploads -> SUBSET Adds]
  /\ torn \in BOOLEAN
Indexes ==
  /\ DOMAIN file_list \subseteq Uploads
  /\ \A u \in DOMAIN file_list : file_list[u] \in Paths
  /\ DOMAIN file_ID_list \subseteq Paths
  /\ \A p \in DOMAIN file_ID_list : file_ID_list[p] \in Uploads
Disk ==
  /\ DOMAIN dir \subseteq Paths
  /\ \A p \in DOMAIN dir : dir[p] \in Uploads
  /\ data \in [Uploads -> Seq(Uploads)]

(* TypeOK in these parts.                                                  *)
LEMMA TypeParts ==
  TypeOK <=> /\ path \in PathChoices /\ up \in [Uploads -> Ups]
             /\ Others /\ Indexes /\ Disk
BY DEF TypeOK, Ups, Pcs, Others, Indexes, Disk

(* What an instance has, and what a state that satisfies the invariant has *)
(* for single uploads.                                                     *)
LEMMA Facts ==
  /\ MaxInt \in Nat /\ NoPort \notin Ports /\ NoUpload \notin Uploads
  /\ \A u \in Uploads : Size[u] \in 0..MaxInt
  /\ TypeOK => path \in [Uploads -> Paths]
BY StoreAssumption DEF TypeOK

(* A step that gives upload u the record t.                                *)
LEMMA OneUpload ==
  ASSUME up \in [Uploads -> Ups], AllReady, path' = path,
         NEW u \in Uploads, NEW t \in Ups, up' = [up EXCEPT ![u] = t], Ready(u, t)
  PROVE  /\ up' \in [Uploads -> Ups] /\ AllReady'
         /\ up'[u] = t /\ \A v \in Uploads \ {u} : up'[v] = up[v]
<1>1. up'[u] = t /\ \A v \in Uploads \ {u} : up'[v] = up[v]
  OBVIOUS
<1>2. up' \in [Uploads -> Ups]
  OBVIOUS
<1>3. ASSUME NEW v \in Uploads PROVE Ready(v, up[v])' 
  <2>1. CASE v = u
    BY <1>1, <2>1 DEF Ready
  <2>2. CASE v # u
    <3>1. Ready(v, up[v]) /\ up'[v] = up[v]
      BY <1>1, <2>2 DEF AllReady
    <3> QED
      BY <3>1 DEF Ready
  <2> QED
    BY <2>1, <2>2
<1> QED
  BY <1>1, <1>2, <1>3 DEF AllReady

(* ... and leaves the indexes and the disk.                                *)
LEMMA QuietInv ==
  ASSUME Inv, Tears, UNCHANGED <<path, index, disk>>, Others',
         NEW u \in Uploads, NEW t \in Ups, up' = [up EXCEPT ![u] = t], Ready(u, t),
         up[u].pc # "unlistid", t.pc # "putid"
  PROVE  Inv'
<1>1. /\ path \in PathChoices /\ up \in [Uploads -> Ups] /\ AllReady
      /\ Indexes /\ Disk
  BY TypeParts DEF Inv
<1>2. /\ up' \in [Uploads -> Ups] /\ AllReady'
      /\ up'[u] = t /\ \A v \in Uploads \ {u} : up'[v] = up[v]
  BY <1>1, OneUpload
<1>3. TypeOK'
  <2>1. path' \in PathChoices /\ Indexes' /\ Disk'
    BY <1>1 DEF Indexes, Disk, index, disk
  <2> QED
    BY <1>2, <2>1, TypeParts DEF TypeOK, Ups, Pcs, Others, Indexes, Disk
<1>4. Indexed'
  <2> SUFFICES ASSUME torn' = FALSE PROVE Indexed'
    BY DEF Indexed
  <2>0. torn = FALSE
    BY DEF Tears
  <2>1. \A v : Listed(v) => Listed(v)'
    BY DEF Listed, index
  <2>2. ASSUME NEW v \in Uploads, up'[v].pc = "putid" PROVE Listed(v)'
    BY <1>2, <2>0, <2>1, <2>2 DEF Inv, Indexed
  <2>3. ASSUME NEW p \in DOMAIN file_ID_list', NEW v \in Uploads, file_ID_list'[p] = v
        PROVE  path'[v] = p /\ (Listed(v)' \/ up'[v].pc = "unlistid")
    <3>1. path[v] = p /\ (Listed(v) \/ up[v].pc = "unlistid")
      BY <2>0, <2>3 DEF Inv, Indexed, index
    <3>2. up[v].pc = "unlistid" => up'[v].pc = "unlistid"
      BY <1>2
    <3> QED
      BY <2>1, <3>1, <3>2
  <2> QED
    BY <2>2, <2>3 DEF Indexed
<1>5. Files'
  BY DEF Inv, Files, disk
<1> QED
  BY <1>2, <1>3, <1>4, <1>5 DEF Inv


-----------------------------------------------------------------------------
(* The steps that leave the indexes and the disk.                          *)

(* A record that goes to another step, and is otherwise the same.          *)
LEMMA GotoFacts ==
  ASSUME NEW r \in Ups, NEW q \in Pcs
  PROVE  LET t == [r EXCEPT !.pc = q] IN
           /\ t \in Ups /\ t.pc = q /\ t.port = r.port /\ t.peer = r.peer
           /\ t.inode = r.inode /\ t.result = r.result /\ t.got = r.got
BY DEF Ups

(* A thread that goes on and does no more than that.                       *)
LEMMA GotoInv ==
  ASSUME Inv, Tears, UNCHANGED <<path, index, disk>>, Others', NEW u \in Uploads,
         NEW q \in Pcs, Goto(u, q), Ready(u, [up[u] EXCEPT !.pc = q]),
         up[u].pc # "unlistid", q # "putid"
  PROVE  Inv'
<1> DEFINE t == [up[u] EXCEPT !.pc = q]
<1>1. up \in [Uploads -> Ups]
  BY TypeParts DEF Inv
<1>2. t \in Ups /\ t.pc = q
  BY <1>1, GotoFacts
<1>3. up' = [up EXCEPT ![u] = t]
  BY DEF Goto
<1> HIDE DEF t
<1>4. Ready(u, t)
  BY DEF t
<1> QED
  BY <1>2, <1>3, <1>4, QuietInv

(* What is queued, told, reserved and counted has its type.                *)
LEMMA OthersKept ==
  ASSUME Others, UNCHANGED <<buffer, client, queue, crashes>>, Tears
  PROVE  Others'
BY DEF Others, buffer, Tears

(* The crashes are counted.                                                *)
LEMMA CrashFacts == Inv /\ Restart => crashes' # 0
<1> SUFFICES ASSUME Inv, Restart PROVE crashes' # 0
  OBVIOUS
<1>1. crashes \in Nat
  BY TypeParts, StoreAssumption DEF Inv, Others
<1>2. crashes' = crashes + 1
  BY DEF Restart
<1> QED
  BY <1>1, <1>2

(* What the invariant says of an upload, in the form the steps use.        *)
LEMMA UploadFacts ==
  ASSUME Inv, NEW u \in Uploads
  PROVE  /\ up[u] \in Ups /\ Ready(u, up[u]) /\ Others /\ Indexes /\ Disk
         /\ up \in [Uploads -> Ups] /\ path \in [Uploads -> Paths] /\ AllReady
         /\ path[u] \in Paths /\ Size[u] \in 0..MaxInt
BY TypeParts, Facts DEF Inv, AllReady

(* The check for an overflow (Server 186).                                 *)
LEMMA RequestInv ==
  ASSUME Inv, Tears, NEW u \in Uploads, Request(u)
  PROVE  Inv'
<1>1. PICK q \in {"refused", "bind"} : Goto(u, q)
  BY DEF Request
<1>2. up[u].pc = "idle" /\ UNCHANGED <<path, buffer, index, disk, client, queue, crashes>>
  BY DEF Request
<1> DEFINE t == [up[u] EXCEPT !.pc = q]
<1>3. /\ t.pc = q /\ t.port = up[u].port /\ t.peer = up[u].peer
      /\ t.inode = up[u].inode /\ t.result = up[u].result
  BY UploadFacts, GotoFacts DEF Pcs
<1> HIDE DEF t
<1>4. Ready(u, t) /\ q \in Pcs
  BY <1>2, <1>3, UploadFacts DEF Ready, Pcs, Early, Unopened, Undone, Finishing
<1> QED
  BY <1>1, <1>2, <1>4, UploadFacts, OthersKept, GotoInv DEF t

(* The listening socket and the answer (Server 189-197).                   *)
LEMMA BindInv ==
  ASSUME Inv, Tears, NEW u \in Uploads, Bind(u)
  PROVE  Inv'
<1>1. PICK p \in Ports, q \in {"unbound", "listen"} :
        up' = [up EXCEPT ![u].port = p, ![u].pc = q]
  BY DEF Bind
<1> DEFINE t == [up[u] EXCEPT !.port = p, !.pc = q]
<1>2. up[u].pc = "bind" /\ UNCHANGED <<path, index, disk>>
  BY DEF Bind
<1>3. /\ t \in Ups /\ t.pc = q /\ t.port = p /\ t.peer = up[u].peer
      /\ t.inode = up[u].inode /\ t.result = up[u].result
  BY UploadFacts DEF Ups, Pcs
<1>4. up' = [up EXCEPT ![u] = t]
  BY <1>1
<1>5. Others'
  BY UploadFacts DEF Bind, Others, buffer, Tears
<1> HIDE DEF t
<1>6. Ready(u, t)
  BY <1>2, <1>3, UploadFacts DEF Ready, Early, Unopened, Undone, Finishing
<1> QED
  BY <1>2, <1>3, <1>4, <1>5, <1>6, QuietInv

(* The client connects.                                                    *)
LEMMA ConnectInv ==
  ASSUME Inv, Tears, NEW u \in Uploads, Connect(u)
  PROVE  Inv'
<1>1. UNCHANGED <<path, index, disk, up>>
  BY DEF Connect
<1>2. Others'
  <2>1. CASE \E v \in Uploads : Listens(v, up[u].port)
    <3>1. up[u].port \in Ports \/ up[u].port = NoPort
      BY UploadFacts DEF Ups
    <3>2. up[u].port \in Ports =>
            [queue EXCEPT ![up[u].port] = Append(@, u)] \in [Ports -> Seq(Uploads)]
      BY UploadFacts DEF Others
    <3>3. up[u].port \notin Ports =>
            [queue EXCEPT ![up[u].port] = Append(@, u)] \in [Ports -> Seq(Uploads)]
      BY UploadFacts DEF Others
    <3> QED
      BY <2>1, <3>2, <3>3, UploadFacts DEF Connect, Others, buffer, Tears
  <2>2. CASE ~ \E v \in Uploads : Listens(v, up[u].port)
    BY <2>2, UploadFacts DEF Connect, Others, buffer, Tears
  <2> QED
    BY <2>1, <2>2
<1>3. TypeOK'
  <2>1. /\ path' \in PathChoices /\ up' \in [Uploads -> Ups] /\ Indexes' /\ Disk'
    BY <1>1, TypeParts DEF Inv, Indexes, Disk, index, disk
  <2> QED
    BY <1>2, <2>1 DEF TypeOK, Ups, Pcs, Others, Indexes, Disk
<1>4. AllReady' /\ Indexed' /\ Files'
  BY <1>1 DEF Inv, AllReady, Ready, Indexed, Listed, Files, index, disk, Tears
<1> QED
  BY <1>3, <1>4 DEF Inv

(* The thread accepts a client (ServerUploadHandler 35).                   *)
LEMMA AcceptInv ==
  ASSUME Inv, Tears, NEW u \in Uploads, Accept(u)
  PROVE  Inv'
<1> DEFINE p == up[u].port
           c == Head(queue[p])
           t == [up[u] EXCEPT !.peer = c, !.pc = "reserve"]
<1>1. up[u].pc = "listen" /\ queue[p] # <<>> /\ UNCHANGED <<path, index, disk>>
  BY DEF Accept
<1>2. p \in Ports /\ queue[p] \in Seq(Uploads)
  BY <1>1, UploadFacts DEF Ready, Others
<1>3. c \in Uploads /\ Tail(queue[p]) \in Seq(Uploads)
  BY <1>1, <1>2
<1> HIDE DEF c
<1>4. /\ t \in Ups /\ t.pc = "reserve" /\ t.port = p /\ t.peer = c
      /\ t.inode = up[u].inode /\ t.result = up[u].result
  BY <1>3, UploadFacts DEF Ups, Pcs
<1>5. up' = [up EXCEPT ![u] = t]
  BY DEF Accept, c
<1>6. Others'
  BY <1>2, <1>3, UploadFacts DEF Accept, Others, buffer, Tears
<1> HIDE DEF t
<1>7. Ready(u, t)
  BY <1>1, <1>2, <1>3, <1>4, UploadFacts DEF Ready, Early, Unopened, Undone, Finishing
<1> QED
  BY <1>1, <1>4, <1>5, <1>6, <1>7, QuietInv

(* FILE_BUFFER is read to be changed.                                      *)
LEMMA ReadInv ==
  ASSUME Inv, Tears, NEW u \in Uploads, ReserveRead(u) \/ ReleaseRead(u)
  PROVE  Inv'
<1>1. PICK q \in {"reserve2", "release2"} :
        /\ ReadBuffer(u, q)
        /\ q = "reserve2" => up[u].pc = "reserve"
        /\ q = "release2" => up[u].pc = "release"
  BY DEF ReserveRead, ReleaseRead
<1> DEFINE t == [up[u] EXCEPT !.read = FILE_BUFFER, !.pc = q]
<1>2. UNCHANGED <<path, index, disk, client, queue, crashes>>
  BY DEF ReserveRead, ReleaseRead
<1>3. up' = [up EXCEPT ![u] = t] /\ missed' = [missed EXCEPT ![u] = lost]
      /\ UNCHANGED <<FILE_BUFFER, lost>>
  BY <1>1 DEF ReadBuffer
<1>4. /\ t \in Ups /\ t.pc = q /\ t.port = up[u].port /\ t.peer = up[u].peer
      /\ t.inode = up[u].inode /\ t.result = up[u].result
  BY UploadFacts DEF Ups, Pcs, Others
<1> HIDE DEF t
<1>5. Others'
  BY <1>2, <1>3, UploadFacts DEF Others, Tears
<1>6. Ready(u, t)
  BY <1>1, <1>4, UploadFacts DEF Ready, Early, Unopened, Undone, Finishing
<1> QED
  BY <1>1, <1>2, <1>3, <1>4, <1>5, <1>6, QuietInv


(* FILE_BUFFER is written back (ServerUploadHandler 54, 106 and 120).      *)
LEMMA WriteInv ==
  ASSUME Inv, Tears, NEW u \in Uploads, Reserve(u) \/ Release(u)
  PROVE  Inv'
<1>1. PICK q \in {"put", "unlist", "close"}, sign \in {"+", "-"} :
        /\ WriteBuffer(u, sign, q)
        /\ q = "put" => up[u].pc = "reserve2"
        /\ q = "unlist" => up[u].pc = "release2" /\ up[u].result = "failed"
        /\ q = "close" => up[u].pc = "release2"
  BY DEF Reserve, Release
<1>2. UNCHANGED <<path, index, disk, client, queue, crashes>>
  BY DEF Reserve, Release
<1> DEFINE t == [up[u] EXCEPT !.read = 0, !.pc = q]
<1>3. FILE_BUFFER' \in -(MaxInt + 1)..MaxInt
  <2>1. up[u].read \in Int /\ Size[u] \in Int /\ -Size[u] \in Int
    BY UploadFacts, Facts DEF Ups
  <2> QED
    BY <1>1, <2>1, AddType DEF WriteBuffer
<1>4. lost' \subseteq Adds /\ missed' \in [Uploads -> SUBSET Adds]
  <2>1. <<u, sign>> \in Adds /\ missed \in [Uploads -> SUBSET Adds]
    BY UploadFacts DEF Adds, Others
  <2> QED
    BY <1>1, <2>1 DEF WriteBuffer
<1>5. Others'
  BY <1>2, <1>3, <1>4, UploadFacts DEF Others, Tears
<1>6. /\ up' = [up EXCEPT ![u] = t]
      /\ t \in Ups /\ t.pc = q /\ t.port = up[u].port /\ t.peer = up[u].peer
      /\ t.inode = up[u].inode /\ t.result = up[u].result
  <2>1. 0 \in -(MaxInt + 1)..MaxInt
    BY Facts
  <2> QED
    BY <1>1, <2>1, UploadFacts DEF WriteBuffer, Ups, Pcs
<1> HIDE DEF t
<1>7. Ready(u, t) /\ up[u].pc # "unlistid"
  BY <1>1, <1>6, UploadFacts DEF Ready, Early, Unopened, Undone, Finishing
<1> QED
  BY <1>1, <1>2, <1>5, <1>6, <1>7, QuietInv

(* The end of the stream.                                                  *)
LEMMA EofInv ==
  ASSUME Inv, Tears, NEW u \in Uploads, Eof(u)
  PROVE  Inv'
<1>1. /\ up[u].pc = "recv" /\ Goto(u, "check")
      /\ UNCHANGED <<path, buffer, index, disk, client, queue, crashes>>
  BY DEF Eof
<1> DEFINE t == [up[u] EXCEPT !.pc = "check"]
<1>2. /\ t.pc = "check" /\ t.port = up[u].port /\ t.peer = up[u].peer
      /\ t.inode = up[u].inode /\ t.result = up[u].result
  BY UploadFacts, GotoFacts DEF Pcs
<1> HIDE DEF t
<1>3. Ready(u, t) /\ "check" \in Pcs
  BY <1>1, <1>2, UploadFacts DEF Ready, Pcs, Early, Unopened, Undone, Finishing
<1> QED
  BY <1>1, <1>3, UploadFacts, OthersKept, GotoInv DEF t

(* No file or no client, a reset, or the check of the length               *)
(* (ServerUploadHandler 57-60, 83-104, 118).                               *)
LEMMA VerdictInv ==
  ASSUME Inv, Tears, NEW u \in Uploads, OpenFails(u) \/ ReadFails(u) \/ Check(u) \/ NotifyFails(u)
  PROVE  Inv'
<1>1. PICK q \in {"release", "exists"}, r \in {"stored", "corrupt", "failed"} :
        /\ up' = [up EXCEPT ![u].result = r, ![u].pc = q]
        /\ q = "exists" => r = "corrupt"
        /\ r # "failed" => up[u].pc = "check"
  BY DEF OpenFails, ReadFails, Check, NotifyFails
<1> DEFINE t == [up[u] EXCEPT !.result = r, !.pc = q]
<1>2. /\ UNCHANGED <<path, buffer, index, disk, client, queue, crashes>>
      /\ up[u].pc \in {"open", "recv", "check"}
  BY DEF OpenFails, ReadFails, Check, NotifyFails
<1>3. /\ t \in Ups /\ t.pc = q /\ t.port = up[u].port /\ t.peer = up[u].peer
      /\ t.inode = up[u].inode /\ t.result = r
  BY UploadFacts DEF Ups, Pcs
<1>4. up' = [up EXCEPT ![u] = t]
  BY <1>1
<1> HIDE DEF t
<1>5. Ready(u, t) /\ Others'
  BY <1>1, <1>2, <1>3, UploadFacts, OthersKept DEF Ready, Early, Unopened, Undone, Finishing
<1> QED
  BY <1>1, <1>2, <1>3, <1>4, <1>5, QuietInv

(* The listening socket is closed (ServerUploadHandler 110, 144).          *)
LEMMA CloseInv ==
  ASSUME Inv, Tears, NEW u \in Uploads, Close(u)
  PROVE  Inv'
<1>1. /\ up[u].pc = "close" /\ Goto(u, "ended")
      /\ UNCHANGED <<path, buffer, index, disk, client, crashes>>
  BY DEF Close
<1> DEFINE t == [up[u] EXCEPT !.pc = "ended"]
<1>2. /\ t.pc = "ended" /\ t.port = up[u].port /\ t.peer = up[u].peer
      /\ t.inode = up[u].inode /\ t.result = up[u].result
  BY UploadFacts, GotoFacts DEF Pcs
<1> HIDE DEF t
<1>3. Ready(u, t) /\ "ended" \in Pcs
  BY <1>1, <1>2, UploadFacts DEF Ready, Pcs, Early, Unopened, Undone, Finishing
<1>4. Others'
  <2>1. <<>> \in Seq(Uploads)
    OBVIOUS
  <2>2. queue' = [queue EXCEPT ![up[u].port] = <<>>]
    BY DEF Close
  <2>3. queue' \in [Ports -> Seq(Uploads)]
    BY <2>1, <2>2, UploadFacts DEF Others
  <2> QED
    BY <1>1, <2>3, UploadFacts DEF Others, buffer, Tears
<1> QED
  BY <1>1, <1>3, <1>4, GotoInv DEF t

(* The thread asks whether there is a file (ServerUploadHandler 98, 131).  *)
LEMMA ExistsInv ==
  ASSUME Inv, Tears, NEW u \in Uploads, Exists(u)
  PROVE  Inv'
<1>1. PICK q \in {"delete", "close", "release"} : Goto(u, q)
  BY DEF Exists
<1>2. up[u].pc = "exists" /\ UNCHANGED <<path, buffer, index, disk, client, queue, crashes>>
  BY DEF Exists
<1> DEFINE t == [up[u] EXCEPT !.pc = q]
<1>3. /\ t.pc = q /\ t.port = up[u].port /\ t.peer = up[u].peer
      /\ t.inode = up[u].inode /\ t.result = up[u].result
  BY UploadFacts, GotoFacts DEF Pcs
<1> HIDE DEF t
<1>4. Ready(u, t) /\ q \in Pcs
  BY <1>2, <1>3, UploadFacts DEF Ready, Pcs, Early, Unopened, Undone, Finishing
<1> QED
  BY <1>1, <1>2, <1>4, UploadFacts, OthersKept, GotoInv DEF t

-----------------------------------------------------------------------------
(* The steps that change the indexes or the disk.                          *)

(* The types after a step, part by part.                                   *)
LEMMA TypesAfter ==
  ASSUME Inv, path' = path, up' \in [Uploads -> Ups], Others', Indexes', Disk'
  PROVE  TypeOK'
BY DEF Inv, TypeOK, Ups, Pcs, Others, Indexes, Disk

(* The thread goes on, whatever else it does.                              *)
LEMMA GotoUp ==
  ASSUME Inv, path' = path, NEW u \in Uploads, NEW q \in Pcs, Goto(u, q),
         Ready(u, up[u]) => Ready(u, [up[u] EXCEPT !.pc = q])
  PROVE  /\ up' \in [Uploads -> Ups] /\ AllReady'
         /\ up'[u].pc = q /\ \A v \in Uploads \ {u} : up'[v] = up[v]
<1> DEFINE t == [up[u] EXCEPT !.pc = q]
<1>1. t \in Ups /\ t.pc = q
  BY UploadFacts, GotoFacts
<1>2. up' = [up EXCEPT ![u] = t]
  BY DEF Goto
<1> HIDE DEF t
<1>3. Ready(u, t)
  BY UploadFacts DEF t
<1> QED
  BY <1>1, <1>2, <1>3, UploadFacts, OneUpload

(* What a change of an index leaves where threads are there at once: no    *)
(* entry that was not there and is not put.                                *)
LEMMA SpoiltAt ==
  ASSUME NEW f, NEW g, NEW h \in Spoilt(f, g)
  PROVE  /\ DOMAIN h \subseteq DOMAIN f \cup DOMAIN g
         /\ \A x \in DOMAIN h : \/ x \in DOMAIN f /\ h[x] = f[x]
                                \/ x \in DOMAIN g /\ h[x] = g[x]
<1>1. PICK gone \in SUBSET (DOMAIN f \cup DOMAIN g) :
        \/ h = [x \in DOMAIN f \ gone |-> f[x]]
        \/ h = [x \in DOMAIN g \ gone |-> g[x]]
  BY DEF Spoilt
<1> QED
  BY <1>1

(* file_list (ServerUploadHandler 55).                                     *)
LEMMA PutFileInv ==
  ASSUME Inv, Tears, NEW u \in Uploads, PutFile(u)
  PROVE  Inv'
<1>1. /\ up[u].pc = "put" /\ Goto(u, "putid")
      /\ file_list' \in Changed(file_list, Put(file_list, u, path[u]))
      /\ UNCHANGED <<path, buffer, file_ID_list, disk, client, queue, crashes>>
  BY DEF PutFile
<1> DEFINE t == [up[u] EXCEPT !.pc = "putid"]
<1>2. /\ t.pc = "putid" /\ t.port = up[u].port /\ t.peer = up[u].peer
      /\ t.inode = up[u].inode /\ t.result = up[u].result
  BY UploadFacts, GotoFacts DEF Pcs
<1> HIDE DEF t
<1>3. Ready(u, t) /\ "putid" \in Pcs
  BY <1>1, <1>2, UploadFacts DEF Ready, Pcs, Early, Unopened, Undone, Finishing
<1>4. /\ up' \in [Uploads -> Ups] /\ AllReady'
      /\ up'[u].pc = "putid" /\ \A v \in Uploads \ {u} : up'[v] = up[v]
  BY <1>1, <1>3, GotoUp DEF t
<1>5. Others' /\ Disk' /\ Files'
  BY <1>1, UploadFacts, OthersKept DEF Disk, disk, Inv, Files
<1> DEFINE f == Put(file_list, u, path[u])
<1>6. /\ DOMAIN f = DOMAIN file_list \cup {u} /\ f[u] = path[u]
      /\ \A v \in DOMAIN file_list : v # u => f[v] = file_list[v]
  BY DEF Put
<1> HIDE DEF f
<1>7. Indexes' /\ (torn = FALSE => file_list' = f)
  <2>1. /\ torn = FALSE => file_list' = f
        /\ torn # FALSE => file_list' \in Spoilt(file_list, f)
    BY <1>1, UploadFacts DEF f, Others, Changed
  <2>2. /\ DOMAIN file_list' \subseteq DOMAIN file_list \cup DOMAIN f
        /\ \A x \in DOMAIN file_list' :
             \/ x \in DOMAIN file_list /\ file_list'[x] = file_list[x]
             \/ x \in DOMAIN f /\ file_list'[x] = f[x]
    BY <2>1, SpoiltAt
  <2>3. /\ DOMAIN file_list \subseteq Uploads /\ DOMAIN f \subseteq Uploads
        /\ \A x \in DOMAIN file_list : file_list[x] \in Paths
        /\ \A x \in DOMAIN f : f[x] \in Paths
    BY <1>6, UploadFacts DEF Indexes
  <2>4. DOMAIN file_list' \subseteq Uploads /\ \A x \in DOMAIN file_list' : file_list'[x] \in Paths
    BY <2>2, <2>3
  <2> QED
    BY <1>1, <2>1, <2>4, UploadFacts DEF Indexes
<1>8. torn = FALSE => \A v \in Uploads : Listed(v) => Listed(v)'
  BY <1>1, <1>6, <1>7 DEF Listed
<1>9. Indexed'
  <2> SUFFICES ASSUME torn' = FALSE PROVE Indexed'
    BY DEF Indexed
  <2>0. torn = FALSE
    BY DEF Tears
  <2>1. Listed(u)'
    BY <1>1, <1>6, <1>7, <2>0 DEF Listed
  <2>2. ASSUME NEW v \in Uploads, up'[v].pc = "putid" PROVE Listed(v)'
    BY <1>4, <1>8, <2>0, <2>1, <2>2 DEF Inv, Indexed
  <2>3. ASSUME NEW p \in DOMAIN file_ID_list', NEW v \in Uploads, file_ID_list'[p] = v
        PROVE  path'[v] = p /\ (Listed(v)' \/ up'[v].pc = "unlistid")
    <3>1. path[v] = p /\ (Listed(v) \/ up[v].pc = "unlistid")
      BY <1>1, <2>0, <2>3 DEF Inv, Indexed
    <3> QED
      BY <1>1, <1>4, <1>8, <2>0, <3>1
  <2> QED
    BY <2>2, <2>3 DEF Indexed
<1> QED
  BY <1>1, <1>4, <1>5, <1>7, <1>9, TypesAfter DEF Inv


(* file_ID_list (ServerUploadHandler 56).                                  *)
LEMMA PutIDInv ==
  ASSUME Inv, Tears, NEW u \in Uploads, PutID(u)
  PROVE  Inv'
<1>1. /\ up[u].pc = "putid" /\ Goto(u, "open")
      /\ file_ID_list' \in Changed(file_ID_list, Put(file_ID_list, path[u], u))
      /\ UNCHANGED <<path, buffer, file_list, disk, client, queue, crashes>>
  BY DEF PutID
<1> DEFINE t == [up[u] EXCEPT !.pc = "open"]
<1>2. /\ t.pc = "open" /\ t.port = up[u].port /\ t.peer = up[u].peer
      /\ t.inode = up[u].inode /\ t.result = up[u].result
  BY UploadFacts, GotoFacts DEF Pcs
<1> HIDE DEF t
<1>3. Ready(u, t) /\ "open" \in Pcs
  BY <1>1, <1>2, UploadFacts DEF Ready, Pcs, Early, Unopened, Undone, Finishing
<1>4. /\ up' \in [Uploads -> Ups] /\ AllReady'
      /\ up'[u].pc = "open" /\ \A v \in Uploads \ {u} : up'[v] = up[v]
  BY <1>1, <1>3, GotoUp DEF t
<1>5. Others' /\ Disk' /\ Files'
  BY <1>1, UploadFacts, OthersKept DEF Disk, disk, Inv, Files
<1> DEFINE f == Put(file_ID_list, path[u], u)
<1>6. /\ DOMAIN f = DOMAIN file_ID_list \cup {path[u]} /\ f[path[u]] = u
      /\ \A p \in DOMAIN file_ID_list : p # path[u] => f[p] = file_ID_list[p]
  BY DEF Put
<1> HIDE DEF f
<1>7. Indexes' /\ (torn = FALSE => file_ID_list' = f)
  <2>1. /\ torn = FALSE => file_ID_list' = f
        /\ torn # FALSE => file_ID_list' \in Spoilt(file_ID_list, f)
    BY <1>1, UploadFacts DEF f, Others, Changed
  <2>2. /\ DOMAIN file_ID_list' \subseteq DOMAIN file_ID_list \cup DOMAIN f
        /\ \A x \in DOMAIN file_ID_list' :
             \/ x \in DOMAIN file_ID_list /\ file_ID_list'[x] = file_ID_list[x]
             \/ x \in DOMAIN f /\ file_ID_list'[x] = f[x]
    BY <2>1, SpoiltAt
  <2>3. /\ DOMAIN file_ID_list \subseteq Paths /\ DOMAIN f \subseteq Paths
        /\ \A x \in DOMAIN file_ID_list : file_ID_list[x] \in Uploads
        /\ \A x \in DOMAIN f : f[x] \in Uploads
    BY <1>6, UploadFacts DEF Indexes
  <2>4. /\ DOMAIN file_ID_list' \subseteq Paths
        /\ \A x \in DOMAIN file_ID_list' : file_ID_list'[x] \in Uploads
    BY <2>2, <2>3
  <2> QED
    BY <1>1, <2>1, <2>4, UploadFacts DEF Indexes
<1>8. \A v \in Uploads : Listed(v) => Listed(v)'
  BY <1>1 DEF Listed
<1>9. Indexed'
  <2> SUFFICES ASSUME torn' = FALSE PROVE Indexed'
    BY DEF Indexed
  <2>0. torn = FALSE /\ file_ID_list' = f
    BY <1>7 DEF Tears
  <2>1. Listed(u)'
    BY <1>1, <1>8, <2>0 DEF Inv, Indexed
  <2>2. ASSUME NEW v \in Uploads, up'[v].pc = "putid" PROVE Listed(v)'
    BY <1>4, <1>8, <2>0, <2>1, <2>2 DEF Inv, Indexed
  <2>3. ASSUME NEW p \in DOMAIN file_ID_list', NEW v \in Uploads, file_ID_list'[p] = v
        PROVE  path'[v] = p /\ (Listed(v)' \/ up'[v].pc = "unlistid")
    <3>1. CASE p = path[u]
      BY <1>1, <1>6, <2>0, <2>1, <2>3, <3>1
    <3>2. CASE p # path[u]
      <4>1. p \in DOMAIN file_ID_list /\ file_ID_list[p] = v
        BY <1>6, <2>0, <2>3, <3>2
      <4>2. path[v] = p /\ (Listed(v) \/ up[v].pc = "unlistid")
        BY <2>0, <4>1 DEF Inv, Indexed
      <4> QED
        BY <1>1, <1>4, <1>8, <3>2, <4>2
    <3> QED
      BY <3>1, <3>2
  <2> QED
    BY <2>2, <2>3 DEF Indexed
<1> QED
  BY <1>1, <1>4, <1>5, <1>7, <1>9, TypesAfter DEF Inv

(* The entry of file_list is removed (ServerUploadHandler 99, 121).        *)
LEMMA RemoveFileInv ==
  ASSUME Inv, Tears, NEW u \in Uploads, RemoveFile(u)
  PROVE  Inv'
<1>1. /\ up[u].pc = "unlist" /\ Goto(u, "unlistid")
      /\ file_list' \in Changed(file_list, Without(file_list, u))
      /\ UNCHANGED <<path, buffer, file_ID_list, disk, client, queue, crashes>>
  BY DEF RemoveFile
<1> DEFINE t == [up[u] EXCEPT !.pc = "unlistid"]
<1>2. /\ t.pc = "unlistid" /\ t.port = up[u].port /\ t.peer = up[u].peer
      /\ t.inode = up[u].inode /\ t.result = up[u].result
  BY UploadFacts, GotoFacts DEF Pcs
<1> HIDE DEF t
<1>3. Ready(u, t) /\ "unlistid" \in Pcs
  BY <1>1, <1>2, UploadFacts DEF Ready, Pcs, Early, Unopened, Undone, Finishing
<1>4. /\ up' \in [Uploads -> Ups] /\ AllReady'
      /\ up'[u].pc = "unlistid" /\ \A v \in Uploads \ {u} : up'[v] = up[v]
  BY <1>1, <1>3, GotoUp DEF t
<1>5. Others' /\ Disk' /\ Files'
  BY <1>1, UploadFacts, OthersKept DEF Disk, disk, Inv, Files
<1> DEFINE f == Without(file_list, u)
<1>6. /\ DOMAIN f = DOMAIN file_list \ {u} /\ \A v \in DOMAIN f : f[v] = file_list[v]
  BY DEF Without
<1> HIDE DEF f
<1>7. Indexes' /\ (torn = FALSE => file_list' = f)
  <2>1. /\ torn = FALSE => file_list' = f
        /\ torn # FALSE => file_list' \in Spoilt(file_list, f)
    BY <1>1, UploadFacts DEF f, Others, Changed
  <2>2. /\ DOMAIN file_list' \subseteq DOMAIN file_list \cup DOMAIN f
        /\ \A x \in DOMAIN file_list' :
             \/ x \in DOMAIN file_list /\ file_list'[x] = file_list[x]
             \/ x \in DOMAIN f /\ file_list'[x] = f[x]
    BY <2>1, SpoiltAt
  <2>3. /\ DOMAIN file_list \subseteq Uploads /\ DOMAIN f \subseteq Uploads
        /\ \A x \in DOMAIN file_list : file_list[x] \in Paths
        /\ \A x \in DOMAIN f : f[x] \in Paths
    BY <1>6, UploadFacts DEF Indexes
  <2>4. DOMAIN file_list' \subseteq Uploads /\ \A x \in DOMAIN file_list' : file_list'[x] \in Paths
    BY <2>2, <2>3
  <2> QED
    BY <1>1, <2>1, <2>4, UploadFacts DEF Indexes
<1>8. torn = FALSE => \A v \in Uploads \ {u} : Listed(v) => Listed(v)'
  BY <1>1, <1>6, <1>7 DEF Listed
<1>9. Indexed'
  <2> SUFFICES ASSUME torn' = FALSE PROVE Indexed'
    BY DEF Indexed
  <2>0. torn = FALSE
    BY DEF Tears
  <2>1. ASSUME NEW v \in Uploads, up'[v].pc = "putid" PROVE Listed(v)'
    BY <1>4, <1>8, <2>0, <2>1 DEF Inv, Indexed
  <2>2. ASSUME NEW p \in DOMAIN file_ID_list', NEW v \in Uploads, file_ID_list'[p] = v
        PROVE  path'[v] = p /\ (Listed(v)' \/ up'[v].pc = "unlistid")
    <3>1. path[v] = p /\ (Listed(v) \/ up[v].pc = "unlistid")
      BY <1>1, <2>0, <2>2 DEF Inv, Indexed
    <3> QED
      BY <1>1, <1>4, <1>8, <2>0, <3>1
  <2> QED
    BY <2>1, <2>2 DEF Indexed
<1> QED
  BY <1>1, <1>4, <1>5, <1>7, <1>9, TypesAfter DEF Inv

(* The entry of file_ID_list is removed (ServerUploadHandler 100, 122).    *)
LEMMA RemoveIDInv ==
  ASSUME Inv, Tears, NEW u \in Uploads, RemoveID(u)
  PROVE  Inv'
<1>1. PICK q \in {"exists", "release"} : Goto(u, q) /\ (q = "exists" => up[u].result = "failed")
  BY DEF RemoveID
<1>2. /\ up[u].pc = "unlistid"
      /\ file_ID_list' \in Changed(file_ID_list, Without(file_ID_list, path[u]))
      /\ UNCHANGED <<path, buffer, file_list, disk, client, queue, crashes>>
  BY DEF RemoveID
<1> DEFINE t == [up[u] EXCEPT !.pc = q]
<1>3. /\ t.pc = q /\ t.port = up[u].port /\ t.peer = up[u].peer
      /\ t.inode = up[u].inode /\ t.result = up[u].result
  BY UploadFacts, GotoFacts DEF Pcs
<1> HIDE DEF t
<1>4. Ready(u, t) /\ q \in Pcs
  BY <1>2, <1>3, UploadFacts DEF Ready, Pcs, Early, Unopened, Undone, Finishing
<1>5. /\ up' \in [Uploads -> Ups] /\ AllReady'
      /\ up'[u].pc = q /\ \A v \in Uploads \ {u} : up'[v] = up[v]
  BY <1>1, <1>2, <1>4, GotoUp DEF t
<1>6. Others' /\ Disk' /\ Files'
  BY <1>2, UploadFacts, OthersKept DEF Disk, disk, Inv, Files
<1> DEFINE f == Without(file_ID_list, path[u])
<1>7. DOMAIN f = DOMAIN file_ID_list \ {path[u]} /\ \A p \in DOMAIN f : f[p] = file_ID_list[p]
  BY DEF Without
<1> HIDE DEF f
<1>8. Indexes' /\ (torn = FALSE => file_ID_list' = f)
  <2>1. /\ torn = FALSE => file_ID_list' = f
        /\ torn # FALSE => file_ID_list' \in Spoilt(file_ID_list, f)
    BY <1>2, UploadFacts DEF f, Others, Changed
  <2>2. /\ DOMAIN file_ID_list' \subseteq DOMAIN file_ID_list \cup DOMAIN f
        /\ \A x \in DOMAIN file_ID_list' :
             \/ x \in DOMAIN file_ID_list /\ file_ID_list'[x] = file_ID_list[x]
             \/ x \in DOMAIN f /\ file_ID_list'[x] = f[x]
    BY <2>1, SpoiltAt
  <2>3. /\ DOMAIN file_ID_list \subseteq Paths /\ DOMAIN f \subseteq Paths
        /\ \A x \in DOMAIN file_ID_list : file_ID_list[x] \in Uploads
        /\ \A x \in DOMAIN f : f[x] \in Uploads
    BY <1>7, UploadFacts DEF Indexes
  <2>4. /\ DOMAIN file_ID_list' \subseteq Paths
        /\ \A x \in DOMAIN file_ID_list' : file_ID_list'[x] \in Uploads
    BY <2>2, <2>3
  <2> QED
    BY <1>2, <2>1, <2>4, UploadFacts DEF Indexes
<1>9. \A v \in Uploads : Listed(v) => Listed(v)'
  BY <1>2 DEF Listed
<1>10. Indexed'
  <2> SUFFICES ASSUME torn' = FALSE PROVE Indexed'
    BY DEF Indexed
  <2>0. torn = FALSE /\ file_ID_list' = f
    BY <1>8 DEF Tears
  <2>1. ASSUME NEW v \in Uploads, up'[v].pc = "putid" PROVE Listed(v)'
    BY <1>5, <1>9, <2>0, <2>1 DEF Inv, Indexed
  <2>2. ASSUME NEW p \in DOMAIN file_ID_list', NEW v \in Uploads, file_ID_list'[p] = v
        PROVE  path'[v] = p /\ (Listed(v)' \/ up'[v].pc = "unlistid")
    <3>1. p \in DOMAIN file_ID_list /\ p # path[u] /\ file_ID_list[p] = v
      BY <1>7, <2>0, <2>2
    <3>2. path[v] = p /\ (Listed(v) \/ up[v].pc = "unlistid")
      BY <2>0, <3>1 DEF Inv, Indexed
    <3> QED
      BY <1>2, <1>5, <1>9, <3>1, <3>2
  <2> QED
    BY <2>1, <2>2 DEF Indexed
<1> QED
  BY <1>2, <1>5, <1>6, <1>8, <1>10, TypesAfter DEF Inv

(* The indexes while the disk changes.                                     *)
LEMMA IndexKept ==
  ASSUME Inv, Tears, UNCHANGED <<path, index>>, NEW u \in Uploads, up[u].pc # "unlistid",
         up'[u].pc # "putid", \A v \in Uploads \ {u} : up'[v] = up[v]
  PROVE  Indexes' /\ Indexed'
<1>1. Indexes'
  BY UploadFacts DEF Indexes, index
<1> SUFFICES ASSUME torn' = FALSE PROVE Indexed'
  BY <1>1 DEF Indexed
<1>0. torn = FALSE
  BY DEF Tears
<1>2. \A v \in Uploads : Listed(v) => Listed(v)'
  BY DEF Listed, index
<1>3. ASSUME NEW v \in Uploads, up'[v].pc = "putid" PROVE Listed(v)'
  BY <1>0, <1>2, <1>3 DEF Inv, Indexed
<1>4. ASSUME NEW p \in DOMAIN file_ID_list', NEW v \in Uploads, file_ID_list'[p] = v
      PROVE  path'[v] = p /\ (Listed(v)' \/ up'[v].pc = "unlistid")
  <2>1. path[v] = p /\ (Listed(v) \/ up[v].pc = "unlistid")
    BY <1>0, <1>4 DEF Inv, Indexed, index
  <2> QED
    BY <1>2, <2>1
<1> QED
  BY <1>3, <1>4 DEF Indexed

(* The file is opened to append to it (ServerUploadHandler 60).            *)
LEMMA OpenInv ==
  ASSUME Inv, Tears, NEW u \in Uploads, Open(u)
  PROVE  Inv'
<1> DEFINE i == IF path[u] \in DOMAIN dir THEN dir[path[u]] ELSE u
           t == [up[u] EXCEPT !.inode = i, !.pc = "recv"]
<1>1. /\ up[u].pc = "open" /\ dir' = Put(dir, path[u], i) /\ up' = [up EXCEPT ![u] = t]
      /\ UNCHANGED <<path, buffer, index, data, client, queue, crashes>>
  BY DEF Open
<1>2. i \in Uploads /\ path[i] = path[u]
  BY UploadFacts DEF Disk, Inv, Files
<1> HIDE DEF i
<1>3. /\ t \in Ups /\ t.pc = "recv" /\ t.port = up[u].port /\ t.peer = up[u].peer
      /\ t.inode = i /\ t.result = up[u].result
  BY <1>2, UploadFacts DEF Ups, Pcs
<1> HIDE DEF t
<1>4. Ready(u, t)
  BY <1>1, <1>2, <1>3, UploadFacts DEF Ready, Early, Unopened, Undone, Finishing
<1>5. /\ up' \in [Uploads -> Ups] /\ AllReady'
      /\ up'[u] = t /\ \A v \in Uploads \ {u} : up'[v] = up[v]
  BY <1>1, <1>3, <1>4, UploadFacts, OneUpload
<1>6. /\ DOMAIN dir' = DOMAIN dir \cup {path[u]} /\ dir'[path[u]] = i
      /\ \A p \in DOMAIN dir : p # path[u] => dir'[p] = dir[p]
  BY <1>1 DEF Put
<1>7. Others' /\ Indexes' /\ Indexed'
  BY <1>1, <1>3, <1>5, UploadFacts, OthersKept, IndexKept
<1>8. Disk'
  BY <1>1, <1>2, <1>6, UploadFacts DEF Disk
<1>9. Files'
  BY <1>1, <1>2, <1>6 DEF Inv, Files
<1> QED
  BY <1>1, <1>5, <1>7, <1>8, <1>9, TypesAfter DEF Inv

(* A chunk is appended (ServerUploadHandler 65-81).                        *)
LEMMA ReceiveInv ==
  ASSUME Inv, Tears, NEW u \in Uploads, Receive(u)
  PROVE  Inv'
<1>1. PICK q \in {"check", "recv"} : up' = [up EXCEPT ![u].got = @ + 1, ![u].pc = q]
  BY DEF Receive
<1> DEFINE t == [up[u] EXCEPT !.got = up[u].got + 1, !.pc = q]
<1>2. /\ up[u].pc = "recv" /\ up[u].got < Size[u] /\ up' = [up EXCEPT ![u] = t]
      /\ data' = [data EXCEPT ![up[u].inode] = Append(@, up[u].peer)]
      /\ UNCHANGED <<path, buffer, index, dir, client, queue, crashes>>
  BY <1>1 DEF Receive
<1>3. up[u].inode \in Uploads /\ up[u].peer \in Uploads
  BY <1>2, UploadFacts DEF Ready, Early
<1>4. up[u].got + 1 \in 0..MaxInt
  BY <1>2, UploadFacts, Facts DEF Ups
<1>5. /\ t \in Ups /\ t.pc = q /\ t.port = up[u].port /\ t.peer = up[u].peer
      /\ t.inode = up[u].inode /\ t.result = up[u].result
  BY <1>4, UploadFacts DEF Ups, Pcs
<1> HIDE DEF t
<1>6. Ready(u, t)
  BY <1>2, <1>5, UploadFacts DEF Ready, Early, Unopened, Undone, Finishing
<1>7. /\ up' \in [Uploads -> Ups] /\ AllReady'
      /\ up'[u] = t /\ \A v \in Uploads \ {u} : up'[v] = up[v]
  BY <1>2, <1>5, <1>6, UploadFacts, OneUpload
<1>8. Others' /\ Indexes' /\ Indexed'
  BY <1>2, <1>5, <1>7, UploadFacts, OthersKept, IndexKept
<1>9. Disk'
  <2>1. Append(data[up[u].inode], up[u].peer) \in Seq(Uploads)
    BY <1>3, UploadFacts DEF Disk
  <2> QED
    BY <1>2, <2>1, UploadFacts DEF Disk
<1>10. Files'
  BY <1>2 DEF Inv, Files
<1> QED
  BY <1>2, <1>7, <1>8, <1>9, <1>10, TypesAfter DEF Inv

(* The file that has the path is deleted (ServerUploadHandler 99, 132).    *)
LEMMA DeleteInv ==
  ASSUME Inv, Tears, NEW u \in Uploads, Delete(u)
  PROVE  Inv'
<1>1. PICK q \in {"close", "unlist"} : Goto(u, q)
  BY DEF Delete
<1>2. /\ up[u].pc = "delete" /\ dir' = Without(dir, path[u])
      /\ UNCHANGED <<path, buffer, index, data, client, queue, crashes>>
  BY DEF Delete
<1> DEFINE t == [up[u] EXCEPT !.pc = q]
<1>3. /\ t.pc = q /\ t.port = up[u].port /\ t.peer = up[u].peer
      /\ t.inode = up[u].inode /\ t.result = up[u].result
  BY UploadFacts, GotoFacts DEF Pcs
<1> HIDE DEF t
<1>4. Ready(u, t) /\ q \in Pcs
  BY <1>2, <1>3, UploadFacts DEF Ready, Pcs, Early, Unopened, Undone, Finishing
<1>5. /\ up' \in [Uploads -> Ups] /\ AllReady'
      /\ up'[u].pc = q /\ \A v \in Uploads \ {u} : up'[v] = up[v]
  BY <1>1, <1>2, <1>4, GotoUp DEF t
<1>6. /\ DOMAIN dir' = DOMAIN dir \ {path[u]}
      /\ \A p \in DOMAIN dir' : dir'[p] = dir[p]
  BY <1>2 DEF Without
<1>7. Others' /\ Indexes' /\ Indexed'
  BY <1>2, <1>5, UploadFacts, OthersKept, IndexKept
<1>8. Disk' /\ Files'
  BY <1>2, <1>6, UploadFacts DEF Disk, Inv, Files
<1> QED
  BY <1>2, <1>5, <1>7, <1>8, TypesAfter DEF Inv

(* The server is started again: no index entry and no thread is left.      *)
LEMMA RestartInv ==
  ASSUME Inv, Restart
  PROVE  Inv'
<1>1. /\ UNCHANGED <<path, dir, data>> /\ crashes' = crashes + 1 /\ crashes < MaxCrashes
      /\ FILE_BUFFER' = 0 /\ file_list' = EmptyMap /\ file_ID_list' = EmptyMap
      /\ client' = [u \in Uploads |-> IF client[u] = "told" THEN "refused" ELSE client[u]]
      /\ queue' = [p \in Ports |-> <<>>]
      /\ lost' = {} /\ missed' = [u \in Uploads |-> {}] /\ torn' = FALSE
  BY DEF Restart, disk
<1>2. ASSUME NEW u \in Uploads PROVE up'[u] \in Ups /\ Ready(u, up[u])' /\ up'[u].pc # "putid"
  <2> DEFINE t == [up[u] EXCEPT !.pc = "ended", !.result = "lost"]
  <2>1. /\ t \in Ups /\ t.pc = "ended" /\ t.port = up[u].port /\ t.peer = up[u].peer
        /\ t.inode = up[u].inode /\ t.result = "lost"
    BY UploadFacts DEF Ups, Pcs
  <2>2. up'[u] = IF up[u].pc \in {"idle", "refused", "unbound", "ended"} THEN up[u] ELSE t
    BY DEF Restart
  <2> HIDE DEF t
  <2>3. Ready(u, t)
    BY <2>1, UploadFacts DEF Ready, Early, Unopened, Undone, Finishing
  <2>4. Ready(u, up'[u]) /\ up'[u] \in Ups /\ up'[u].pc # "putid"
    BY <2>1, <2>2, <2>3, UploadFacts
  <2> QED
    BY <1>1, <2>4 DEF Ready
<1>3. up' \in [Uploads -> Ups] /\ AllReady'
  <2>1. up' = [u \in Uploads |-> up'[u]]
    BY DEF Restart
  <2> QED
    BY <1>2, <2>1 DEF AllReady
<1>4. Others'
  <2>1. <<>> \in Seq(Uploads) /\ 0 \in -(MaxInt + 1)..MaxInt
    BY Facts
  <2>2. FILE_BUFFER' \in -(MaxInt + 1)..MaxInt /\ queue' \in [Ports -> Seq(Uploads)]
    BY <1>1, <2>1
  <2>3. client' \in [Uploads -> {"idle", "told", "connected", "refused"}]
    BY <1>1, TypeParts DEF Inv, Others
  <2>4. crashes' \in 0..MaxCrashes
    BY <1>1, TypeParts, StoreAssumption DEF Inv, Others
  <2>5. lost' \subseteq Adds /\ missed' \in [Uploads -> SUBSET Adds] /\ torn' \in BOOLEAN
    BY <1>1
  <2> QED
    BY <2>2, <2>3, <2>4, <2>5 DEF Others
<1>5. Indexes' /\ Indexed'
  BY <1>1, <1>2 DEF Indexes, Indexed, EmptyMap
<1>6. Disk' /\ Files'
  BY <1>1, TypeParts DEF Disk, Inv, Files
<1> QED
  BY <1>1, <1>3, <1>4, <1>5, <1>6, TypesAfter DEF Inv

(* Nothing is uploaded, listed or stored at first.                         *)
LEMMA InitInv == Init => Inv
<1> SUFFICES ASSUME Init PROVE Inv
  OBVIOUS
<1> DEFINE t == Upload("idle")
<1>1. /\ t \in Ups /\ t.pc = "idle" /\ t.port = NoPort /\ t.peer = NoUpload
      /\ t.inode = NoUpload /\ t.result = "none"
  BY Facts DEF Upload, Ups, Pcs
<1>2. up = [u \in Uploads |-> t]
  BY DEF Init
<1> HIDE DEF t
<1>3. up \in [Uploads -> Ups] /\ AllReady
  BY <1>1, <1>2 DEF AllReady, Ready, Early, Unopened, Undone, Finishing
<1>4. Others
  <2>1. <<>> \in Seq(Uploads) /\ 0 \in -(MaxInt + 1)..MaxInt /\ 0 \in 0..MaxCrashes
    BY Facts, StoreAssumption
  <2> QED
    BY <2>1 DEF Init, Others
<1>5. Indexes /\ Disk /\ path \in PathChoices
  <2>1. <<>> \in Seq(Uploads)
    OBVIOUS
  <2> QED
    BY <2>1 DEF Init, EmptyMap, Indexes, Disk
<1>6. Indexed /\ Files
  BY <1>1, <1>2 DEF Init, EmptyMap, Indexed, Files
<1> QED
  BY <1>3, <1>4, <1>5, <1>6, TypeParts DEF Inv

(* A step is that of an upload, or a restart.                              *)
LEMMA NextSteps ==
  ASSUME TypeOK, [Next]_vars
  PROVE  (\E u \in Uploads : Steps(u)) \/ Restart \/ UNCHANGED vars
<1>1. ASSUME NEW u \in Uploads, Request(u) \/ Bind(u) \/ Connect(u) \/ Thread(u),
             torn' = (torn \/ Overlap')
      PROVE  Steps(u)
  <2>1. torn \in BOOLEAN
    BY DEF TypeOK
  <2>2. CASE torn \/ Overlap'
    <3>1. torn' = TRUE
      BY <1>1, <2>2, Zenon
    <3> QED
      BY <1>1, <3>1 DEF Steps, Tears
  <2>3. CASE ~(torn \/ Overlap')
    <3>1. torn' = FALSE
      BY <1>1, <2>3, Zenon
    <3>2. torn = FALSE
      BY <2>1, <2>3, Zenon
    <3> QED
      BY <1>1, <3>1, <3>2 DEF Steps, Tears
  <2> QED
    BY <2>2, <2>3
<1> QED
  BY <1>1 DEF Next

(* Every step keeps the invariant.                                         *)
LEMMA NextInv == Inv /\ [Next]_vars => Inv'
<1> SUFFICES ASSUME Inv, [Next]_vars PROVE Inv'
  OBVIOUS
<1>1. ASSUME NEW u \in Uploads, Steps(u) PROVE Inv'
  BY <1>1, RequestInv, BindInv, ConnectInv, AcceptInv, ReadInv, WriteInv, PutFileInv,
     PutIDInv, OpenInv, ReceiveInv, EofInv, VerdictInv, ExistsInv, DeleteInv, RemoveFileInv,
     RemoveIDInv, CloseInv DEF Steps, Thread
<1>2. CASE UNCHANGED vars
  <2>1. UNCHANGED <<path, FILE_BUFFER, file_list, file_ID_list, dir, data, up, client,
                    queue, crashes, lost, missed, torn>>
    BY <1>2 DEF vars, index, disk, buffer
  <2> QED
    BY <2>1 DEF Inv, TypeOK, AllReady, Ready, Indexed, Listed, Files
<1> QED
  BY <1>1, <1>2, RestartInv, NextSteps DEF Inv

(* The invariant that the theorems below rest on.                          *)
THEOREM StoreInvariant == Spec => []Inv
<1> QED
  BY InitInv, NextInv, PTL DEF Spec

(* Every state is of its type: a sum that wraps is still an int, and what  *)
(* a thread writes to is a file, whatever others did to its path.          *)
THEOREM StoreTypes == Spec => []TypeOK
<1>1. Inv => TypeOK
  BY DEF Inv
<1> QED
  BY <1>1, StoreInvariant, PTL

(* However uploads and restarts overlap, if only no two threads change one *)
(* of the indexes at once, the file ID listed for a path is one that a     *)
(* download by ID finds, and it finds this path, except between the two    *)
(* removals (ServerUploadHandler 55-56, 99-100 and 121-122).               *)
THEOREM StoreListedResolve == Spec => []ListedIdsResolve
<1>1. Inv => ListedIdsResolve
  <2> SUFFICES ASSUME Inv, torn = FALSE, NEW p \in DOMAIN file_ID_list, NEW u \in Uploads,
                      file_ID_list[p] = u
               PROVE  \/ u \in DOMAIN file_list /\ file_list[u] = p
                      \/ up[u].pc = "unlistid" /\ path[u] = p
    <3>1. Inv => torn \in BOOLEAN /\ \A p \in DOMAIN file_ID_list : file_ID_list[p] \in Uploads
      BY TypeParts DEF Inv, Indexes, Others
    <3> QED
      BY <3>1, Zenon DEF ListedIdsResolve
  <2> QED
    BY DEF Inv, Indexed, Listed
<1> QED
  BY <1>1, StoreInvariant, PTL


-----------------------------------------------------------------------------
(* What the steps of an upload leave to the others: no entry, file or      *)
(* inode of another path, nor the entry of another upload, is touched, of  *)
(* the index entries as long as no two threads are in one index at once.   *)
SameAt(f, g, k) == (k \in DOMAIN g <=> k \in DOMAIN f) /\ (k \in DOMAIN f => g[k] = f[k])

Spares(u) ==
  /\ UNCHANGED <<path, crashes>>
  /\ \A v \in Uploads \ {u} : up'[v] = up[v]
  /\ torn = FALSE =>
       /\ \A v \in Uploads \ {u} : SameAt(file_list, file_list', v)
       /\ \A p \in Paths \ {path[u]} : SameAt(file_ID_list, file_ID_list', p)
  /\ \A p \in Paths \ {path[u]} : SameAt(dir, dir', p)
  /\ \A i \in Uploads : path[i] # path[u] => data'[i] = data[i]

(* Every step of an upload spares the others in this way.                  *)
LEMMA Footprint ==
  ASSUME Inv, NEW u \in Uploads, Steps(u)
  PROVE  Spares(u)
<1>1. path' = path /\ crashes' = crashes
  BY DEF Steps, Request, Bind, Connect, Thread, Accept, ReserveRead, Reserve, PutFile, PutID,
     Open, OpenFails, Receive, Eof, ReadFails, Check, NotifyFails, Exists, Delete,
     RemoveFile, RemoveID, ReleaseRead, Release, Close
<1>2. \A v \in Uploads \ {u} : up'[v] = up[v]
  BY UploadFacts DEF Steps, Request, Bind, Connect, Thread, Accept, ReserveRead, Reserve,
     PutFile, PutID, Open, OpenFails, Receive, Eof, ReadFails, Check, NotifyFails, Exists,
     Delete, RemoveFile, RemoveID, ReleaseRead, Release, Close, Goto, ReadBuffer, WriteBuffer
<1>3. ASSUME torn = FALSE PROVE \A v \in Uploads \ {u} : SameAt(file_list, file_list', v)
  <2>1. CASE file_list' = file_list
    BY <2>1 DEF SameAt
  <2>2. CASE file_list' = Put(file_list, u, path[u])
    BY <2>2 DEF SameAt, Put
  <2>3. CASE file_list' = Without(file_list, u)
    BY <2>3 DEF SameAt, Without
  <2>4. file_list' \in {file_list, Put(file_list, u, path[u]), Without(file_list, u)}
    BY <1>3 DEF Steps, Request, Bind, Connect, Thread, Accept, ReserveRead, Reserve, PutFile,
       PutID, Open, OpenFails, Receive, Eof, ReadFails, Check, NotifyFails, Exists, Delete,
       RemoveFile, RemoveID, ReleaseRead, Release, Close, index, Changed
  <2> QED
    BY <2>1, <2>2, <2>3, <2>4
<1>4. ASSUME torn = FALSE
      PROVE  \A p \in Paths \ {path[u]} : SameAt(file_ID_list, file_ID_list', p)
  <2>1. CASE file_ID_list' = file_ID_list
    BY <2>1 DEF SameAt
  <2>2. CASE file_ID_list' = Put(file_ID_list, path[u], u)
    BY <2>2 DEF SameAt, Put
  <2>3. CASE file_ID_list' = Without(file_ID_list, path[u])
    BY <2>3 DEF SameAt, Without
  <2>4. file_ID_list' \in {file_ID_list, Put(file_ID_list, path[u], u),
                           Without(file_ID_list, path[u])}
    BY <1>4 DEF Steps, Request, Bind, Connect, Thread, Accept, ReserveRead, Reserve, PutFile,
       PutID, Open, OpenFails, Receive, Eof, ReadFails, Check, NotifyFails, Exists, Delete,
       RemoveFile, RemoveID, ReleaseRead, Release, Close, index, Changed
  <2> QED
    BY <2>1, <2>2, <2>3, <2>4
<1>5. \A p \in Paths \ {path[u]} : SameAt(dir, dir', p)
  <2>1. CASE dir' = dir
    BY <2>1 DEF SameAt
  <2>2. CASE \E i : dir' = Put(dir, path[u], i)
    BY <2>2 DEF SameAt, Put
  <2>3. CASE dir' = Without(dir, path[u])
    BY <2>3 DEF SameAt, Without
  <2>4. dir' = dir \/ (\E i : dir' = Put(dir, path[u], i)) \/ dir' = Without(dir, path[u])
    BY DEF Steps, Request, Bind, Connect, Thread, Accept, ReserveRead, Reserve, PutFile, PutID,
       Open, OpenFails, Receive, Eof, ReadFails, Check, NotifyFails, Exists, Delete, RemoveFile, RemoveID,
       ReleaseRead, Release, Close, disk
  <2> QED
    BY <2>1, <2>2, <2>3, <2>4
<1>6. ASSUME NEW i \in Uploads, path[i] # path[u] PROVE data'[i] = data[i]
  <2>1. CASE Receive(u)
    <3>1. data' = [data EXCEPT ![up[u].inode] = Append(@, up[u].peer)] /\ up[u].pc = "recv"
      BY <2>1 DEF Receive
    <3>2. up[u].inode \in Uploads /\ path[up[u].inode] = path[u]
      BY <3>1, UploadFacts, Facts DEF Ready
    <3> QED
      BY <1>6, <3>1, <3>2, UploadFacts DEF Disk
  <2>2. CASE ~Receive(u)
    BY <2>2 DEF Steps, Request, Bind, Connect, Thread, Accept, ReserveRead, Reserve, PutFile,
       PutID, Open, OpenFails, Eof, ReadFails, Check, NotifyFails, Exists, Delete, RemoveFile, RemoveID,
       ReleaseRead, Release, Close, disk
  <2> QED
    BY <2>1, <2>2
<1> QED
  BY <1>1, <1>2, <1>3, <1>4, <1>5, <1>6 DEF Spares

-----------------------------------------------------------------------------
(* The share of FILE_BUFFER that the uploads in progress hold.             *)

(* Division with remainder.                                                *)
LEMMA DivMod ==
  ASSUME NEW x \in Int, NEW m \in Nat, m > 0
  PROVE  x % m \in 0..(m - 1) /\ x \div m \in Int /\ x = m * (x \div m) + (x % m)
OBVIOUS

(* Two remainders that differ by a multiple are the same.                  *)
LEMMA SameRemainder ==
  ASSUME NEW m \in Nat, m > 0, NEW r \in 0..(m - 1), NEW s \in 0..(m - 1),
         NEW k \in Int, r = s + m * k
  PROVE  r = s
<1>1. CASE k = 0
  BY <1>1
<1>2. CASE k >= 1
  <2>1. m * k >= m * 1
    BY <1>2
  <2> QED
    BY <2>1
<1>3. CASE k <= -1
  <2>1. m * k <= m * (-1)
    BY <1>3
  <2> QED
    BY <2>1
<1> QED
  BY <1>1, <1>2, <1>3

(* A remainder may be taken before a sum or after it.                      *)
LEMMA ModPlus ==
  ASSUME NEW x \in Int, NEW y \in Int, NEW m \in Nat, m > 0
  PROVE  ((x % m) + y) % m = (x + y) % m
<1> DEFINE a == (x % m) + y
           b == x + y
           k == (x \div m) + (a \div m) - (b \div m)
<1>1. x % m \in 0..(m - 1) /\ x \div m \in Int /\ x = m * (x \div m) + (x % m)
  BY DivMod
<1>2. a \in Int /\ b \in Int
  BY <1>1
<1> HIDE DEF a, b, k
<1>3. a % m \in 0..(m - 1) /\ a \div m \in Int /\ a = m * (a \div m) + (a % m)
  BY <1>2, DivMod
<1>4. b % m \in 0..(m - 1) /\ b \div m \in Int /\ b = m * (b \div m) + (b % m)
  BY <1>2, DivMod
<1>5. b = a + m * (x \div m)
  BY <1>1 DEF a, b
<1>6. k \in Int
  BY <1>1, <1>3, <1>4 DEF k
<1>7. b % m = (a % m) + m * k
  <2>1. PICK p \in Int, q \in Int, r \in Int : p = x \div m /\ q = a \div m /\ r = b \div m
    BY <1>1, <1>3, <1>4
  <2>2. m * (p + q - r) = m * p + m * q - m * r
    OBVIOUS
  <2>3. b = a + m * p /\ a = m * q + (a % m) /\ b = m * r + (b % m)
    BY <1>3, <1>4, <1>5, <2>1
  <2>4. PICK c \in Int, d \in Int : c = a % m /\ d = b % m
    BY <1>3, <1>4
  <2> QED
    BY <1>2, <2>1, <2>2, <2>3, <2>4 DEF k
<1>8. b % m = a % m
  <2>1. \A r, s \in 0..(m - 1), i \in Int : r = s + m * i => r = s
    BY SameRemainder
  <2>2. PICK r \in 0..(m - 1), s \in 0..(m - 1) : r = b % m /\ s = a % m
    BY <1>3, <1>4
  <2>3. r = s + m * k
    BY <1>7, <2>2
  <2> QED
    BY <1>6, <2>1, <2>2, <2>3, Zenon
<1> QED
  BY <1>8 DEF a, b

(* Sums of ints may be taken one by one: that each of them wraps changes   *)
(* nothing in the end.                                                     *)
LEMMA AddAgain ==
  ASSUME NEW a \in Int, NEW b \in Int, NEW c \in Int
  PROVE  Add(Add(a, b), c) = Add(a, b + c)
<1> DEFINE n == MaxInt + 1
           m == 2 * n
           x == a + b + n
<1>1. MaxInt \in Nat /\ n \in Nat /\ m \in Nat /\ m > 0 /\ x \in Int
  BY Facts
<1>2. Add(a, b) = (x % m) - n /\ Add(a, b + c) = ((a + (b + c) + n) % m) - n
  BY DEF Add
<1>3. a + (b + c) + n = x + c
  BY <1>1
<1>4. x % m \in Int
  BY <1>1, DivMod
<1>5. Add(Add(a, b), c) = ((((x % m) - n) + c + n) % m) - n
  BY <1>2 DEF Add
<1> HIDE DEF n, m, x
<1>6. ((x % m) - n) + c + n = (x % m) + c
  BY <1>1, <1>4
<1>7. ((x % m) + c) % m = (x + c) % m
  BY <1>1, ModPlus
<1> QED
  BY <1>2, <1>3, <1>5, <1>6, <1>7

(* What is in FILE_BUFFER is an int as it is.                              *)
LEMMA AddZero == Add(0, 0) = 0
<1> DEFINE n == MaxInt + 1
<1>1. n \in Nat /\ n > 0
  BY Facts
<1>2. Add(0, 0) = ((0 + 0 + n) % (2 * n)) - n
  BY DEF Add
<1> HIDE DEF n
<1>3. n % (2 * n) = n
  <2>1. 2 * n \in Nat /\ 2 * n > 0 /\ n \in 0..(2 * n - 1)
    BY <1>1
  <2>2. n % (2 * n) \in 0..(2 * n - 1) /\ n \div (2 * n) \in Int
        /\ n = (2 * n) * (n \div (2 * n)) + (n % (2 * n))
    BY <1>1, <2>1, DivMod
  <2> QED
    BY <1>1, <2>1, <2>2, SameRemainder
<1> QED
  BY <1>1, <1>2, <1>3

(* A number of chunks is reserved.                                         *)
LEMMA ReservedFinite ==
  ASSUME NEW S \in SUBSET Uploads
  PROVE  /\ IsFiniteSet(ReservedBy(S)) /\ Cardinality(ReservedBy(S)) \in Nat
         /\ Chunks(S) \in Nat
<1>1. IsFiniteSet(1..MaxInt) /\ IsFiniteSet(Uploads)
  BY Facts, StoreAssumption, FS_Interval
<1>2. IsFiniteSet(Uploads \X (1..MaxInt))
  BY <1>1, FS_Product
<1>3. ReservedBy(S) \subseteq Uploads \X (1..MaxInt)
  BY Facts DEF ReservedBy
<1>4. IsFiniteSet(ReservedBy(S))
  BY <1>2, <1>3, FS_Subset
<1> QED
  BY <1>4, FS_CardinalityType DEF Chunks

(* One more upload reserves its size more.                                 *)
LEMMA ReservedPlus ==
  ASSUME NEW S \in SUBSET Uploads, NEW u \in Uploads \ S
  PROVE  Chunks(S \cup {u}) = Chunks(S) + Size[u]
<1> DEFINE C == {u} \X (1..Size[u])
<1>1. ReservedBy(S \cup {u}) = ReservedBy(S) \cup C
  BY DEF ReservedBy
<1>2. ReservedBy(S) \cap C = {}
  BY DEF ReservedBy
<1>3. IsFiniteSet(ReservedBy(S)) /\ Cardinality(ReservedBy(S)) \in Nat
  BY ReservedFinite
<1>4. IsFiniteSet(C) /\ Cardinality(C) = Size[u]
  <2>1. Size[u] \in Nat
    BY Facts
  <2>2. IsFiniteSet(1..Size[u]) /\ Cardinality(1..Size[u]) = Size[u]
    BY <2>1, FS_Interval
  <2>3. IsFiniteSet({u}) /\ Cardinality({u}) = 1
    BY FS_Singleton
  <2>4. IsFiniteSet(C) /\ Cardinality(C) = Cardinality({u}) * Cardinality(1..Size[u])
    BY <2>2, <2>3, FS_Product
  <2>5. Cardinality(C) = 1 * Size[u]
    BY <2>2, <2>3, <2>4
  <2> QED
    BY <2>1, <2>4, <2>5
<1>5. Cardinality({}) = 0
  BY FS_EmptySet
<1>6. Size[u] \in Nat
  BY Facts
<1>7. Cardinality(ReservedBy(S) \cup C)
        = Cardinality(ReservedBy(S)) + Cardinality(C) - Cardinality(ReservedBy(S) \cap C)
  BY <1>3, <1>4, FS_Union
<1> HIDE DEF C
<1>8. Cardinality(ReservedBy(S) \cup C) = Cardinality(ReservedBy(S)) + Size[u] - 0
  BY <1>2, <1>4, <1>5, <1>7
<1>9. PICK k \in Nat, n \in Nat : k = Cardinality(ReservedBy(S)) /\ n = Size[u]
  BY <1>3, <1>6
<1>10. Cardinality(ReservedBy(S) \cup C) = k + n
  BY <1>8, <1>9
<1>11. Cardinality(ReservedBy(S \cup {u})) = Cardinality(ReservedBy(S)) + Size[u]
  BY <1>1, <1>9, <1>10, Zenon
<1> QED
  BY <1>11 DEF Chunks

(* Who holds a share, by its own state.                                    *)
Holds(t) ==
  \/ t.pc \in {"put", "putid", "open", "recv", "check", "release", "release2"}
  \/ t.pc \in Undone /\ t.result = "corrupt"

(* A step of an upload in which its share does not change.                 *)
LEMMA HoldersKept ==
  ASSUME Inv, NEW u \in Uploads, Steps(u), Holds(up'[u]) <=> Holds(up[u])
  PROVE  Holders' = Holders
<1>1. \A v \in Uploads \ {u} : up'[v] = up[v]
  BY Footprint DEF Spares
<1>2. Holders = {v \in Uploads : Holds(up[v])} /\ Holders' = {v \in Uploads : Holds(up'[v])}
  BY DEF Holders, Holds, Undone
<1> QED
  BY <1>1, <1>2

(* What FILE_BUFFER is if the adds L are missing, and which adds have been *)
(* made: an upload that has added does not add again.                      *)
Value(L) == Add(0, Reserved - Chunks(Of(L, "+")) + Chunks(Of(L, "-")))
Added(t, sign) ==
  IF sign = "+" THEN t.pc \notin Early \cup {"reserve", "reserve2"}
  ELSE t.pc \in {"close", "ended"} \/ (t.pc \in Undone /\ t.result = "failed")
Over(L) ==
  L \subseteq Adds /\ \A v \in Uploads, sign \in {"+", "-"} :
                        <<v, sign>> \in L => Added(up[v], sign)

(* FILE_BUFFER and what each thread has read of it, to write it back, are  *)
(* the shares that are held but for the adds that they do not contain.     *)
Accounted ==
  /\ FILE_BUFFER = Value(lost) /\ Over(lost)
  /\ \A u \in Uploads : Over(missed[u]) /\ (Adding(u) => up[u].read = Value(missed[u]))

(* The reservation and the release are the only steps in which an upload   *)
(* gets a share or gives it back, or writes FILE_BUFFER; what is added     *)
(* stays added.                                                            *)
LEMMA OthersHold ==
  ASSUME Inv, NEW u \in Uploads, Steps(u)
  PROVE  /\ \A sign \in {"+", "-"} : Added(up[u], sign) => Added(up'[u], sign)
         /\ ~Reserve(u) /\ ~Release(u) => Holders' = Holders
         /\ ~Reserve(u) /\ ~Release(u) /\ ~ReserveRead(u) /\ ~ReleaseRead(u) =>
              UNCHANGED buffer /\ (Adding(u)' => Adding(u) /\ up'[u].read = up[u].read)
<1>1. ~Reserve(u) /\ ~Release(u) /\ ~ReserveRead(u) /\ ~ReleaseRead(u) => UNCHANGED buffer
  BY DEF Steps, Request, Bind, Connect, Thread, Accept, PutFile, PutID,
     Open, OpenFails, Receive, Eof, ReadFails, Check, NotifyFails, Exists, Delete,
     RemoveFile, RemoveID, Close
<1>2. up[u] \in Ups /\ Ready(u, up[u]) /\ up \in [Uploads -> Ups]
  BY UploadFacts
<1>3. CASE Request(u) \/ Bind(u) \/ Connect(u) \/ Accept(u)
  <2>1. CASE Connect(u)
    BY <1>1, <2>1, HoldersKept DEF Connect, Adding, Goto
  <2>2. CASE Request(u) \/ Bind(u) \/ Accept(u)
    <3>1. up[u].pc \in Early /\ up'[u].pc \in Early \cup {"reserve"}
      <4>1. CASE Request(u)
        BY <1>2, <4>1 DEF Request, Goto, Ups, Early
      <4>2. CASE Bind(u)
        <5>1. up'[u].pc \in {"unbound", "listen"}
          BY <1>2, <4>2 DEF Bind, Ups
        <5> QED
          BY <4>2, <5>1 DEF Bind, Early
      <4>3. CASE Accept(u)
        BY <1>2, <4>3 DEF Accept, Ups, Early
      <4> QED
        BY <2>2, <4>1, <4>2, <4>3
    <3> QED
      BY <1>1, <2>2, <3>1, HoldersKept DEF Holds, Adding, Added, Early, Undone
  <2> QED
    BY <1>3, <2>1, <2>2
<1>4. CASE ReserveRead(u) \/ ReleaseRead(u)
  <2>1. \/ up[u].pc = "reserve" /\ up'[u].pc = "reserve2"
        \/ up[u].pc = "release" /\ up'[u].pc = "release2"
    BY <1>2, <1>4 DEF ReserveRead, ReleaseRead, ReadBuffer, Ups
  <2>2. up'[u].result = up[u].result
    BY <1>2, <1>4 DEF ReserveRead, ReleaseRead, ReadBuffer, Ups
  <2> QED
    BY <1>4, <2>1, <2>2, HoldersKept DEF Holds, Added, Early, Undone
<1>5. CASE Reserve(u) \/ Release(u)
  <2>1. \/ up[u].pc = "reserve2"
        \/ up[u].pc = "release2" /\ up'[u].pc \in {"close", "unlist"}
    BY <1>2, <1>5 DEF Reserve, Release, WriteBuffer, Ups
  <2> QED
    BY <1>5, <2>1 DEF Added, Early, Undone
<1>6. CASE PutFile(u) \/ PutID(u) \/ Open(u) \/ OpenFails(u) \/ Receive(u) \/ Eof(u)
           \/ ReadFails(u) \/ Check(u) \/ NotifyFails(u)
  <2>1. /\ up[u].pc \in {"put", "putid", "open", "recv", "check"}
        /\ \/ up'[u].pc \in {"putid", "open", "recv", "check", "release"}
           \/ up'[u].pc = "exists" /\ up'[u].result = "corrupt"
    <3>1. CASE PutFile(u) \/ PutID(u) \/ Eof(u)
      BY <1>2, <3>1 DEF PutFile, PutID, Eof, Goto, Ups
    <3>2. CASE Open(u) \/ OpenFails(u) \/ ReadFails(u) \/ NotifyFails(u)
      BY <1>2, <3>2 DEF Open, OpenFails, ReadFails, NotifyFails, Ups
    <3>3. CASE Receive(u)
      BY <1>2, <3>3 DEF Receive, Ups
    <3>4. CASE Check(u)
      BY <1>2, <3>4 DEF Check, Ups
    <3> QED
      BY <1>6, <3>1, <3>2, <3>3, <3>4
  <2>2. Holds(up[u]) /\ Holds(up'[u])
    BY <2>1 DEF Holds, Undone
  <2> QED
    BY <1>1, <1>6, <2>1, <2>2, HoldersKept DEF Adding, Added, Early, Undone
<1>7. CASE Exists(u) \/ Delete(u) \/ RemoveFile(u) \/ RemoveID(u) \/ Close(u)
  <2>1. PICK q \in {"exists", "delete", "close", "release", "unlist", "unlistid", "ended"} :
          /\ Goto(u, q)
          /\ q = "close" => up[u].result = "failed"
          /\ q = "release" => up[u].result # "failed"
          /\ q = "ended" => up[u].pc = "close"
    BY <1>7 DEF Exists, Delete, RemoveFile, RemoveID, Close
  <2>2. up'[u].pc = q /\ up'[u].result = up[u].result
    BY <1>2, <2>1 DEF Goto, Ups
  <2>3. /\ up[u].pc \in Undone \cup {"close"}
        /\ up[u].pc \in Undone => up[u].result \in {"corrupt", "failed"}
        /\ up[u].pc = "close" => q = "ended"
    BY <1>2, <1>7, <2>2 DEF Exists, Delete, RemoveFile, RemoveID, Close, Ready, Undone, Goto, Ups
  <2>4. Holds(up'[u]) <=> Holds(up[u])
    BY <2>1, <2>2, <2>3 DEF Holds, Undone
  <2> QED
    BY <1>1, <1>7, <2>1, <2>2, <2>3, <2>4, HoldersKept DEF Adding, Added, Early, Undone
<1> QED
  BY <1>3, <1>4, <1>5, <1>6, <1>7 DEF Steps, Thread

(* One more add that is missing.                                           *)
LEMMA MissOne ==
  ASSUME NEW L \in SUBSET Adds, NEW u \in Uploads, NEW sign \in {"+", "-"}, <<u, sign>> \notin L
  PROVE  LET M == L \cup {<<u, sign>>} IN
           /\ sign = "+" => /\ Chunks(Of(M, "+")) = Chunks(Of(L, "+")) + Size[u]
                            /\ Chunks(Of(M, "-")) = Chunks(Of(L, "-"))
           /\ sign = "-" => /\ Chunks(Of(M, "-")) = Chunks(Of(L, "-")) + Size[u]
                            /\ Chunks(Of(M, "+")) = Chunks(Of(L, "+"))
<1> DEFINE M == L \cup {<<u, sign>>}
<1>1. Of(L, sign) \in SUBSET Uploads /\ u \in Uploads \ Of(L, sign)
  BY DEF Of
<1>2. Of(M, sign) = Of(L, sign) \cup {u}
  BY DEF Of
<1>3. \A other \in {"+", "-"} : other # sign => Of(M, other) = Of(L, other)
  BY DEF Of
<1>4. Chunks(Of(M, sign)) = Chunks(Of(L, sign)) + Size[u]
  BY <1>1, <1>2, ReservedPlus
<1> QED
  BY <1>3, <1>4

(* The shares and the missing adds are numbers.                            *)
LEMMA Numbers ==
  /\ Reserved \in Nat
  /\ \A L : Chunks(Of(L, "+")) \in Nat /\ Chunks(Of(L, "-")) \in Nat
<1>1. Holders \in SUBSET Uploads /\ \A L : Of(L, "+") \in SUBSET Uploads /\ Of(L, "-") \in SUBSET Uploads
  BY DEF Holders, Of
<1> QED
  BY <1>1, ReservedFinite DEF Reserved

(* A sum that was taken with the adds L missing.                           *)
LEMMA AddToValue ==
  ASSUME NEW L, NEW k \in Int
  PROVE  Add(Value(L), k) = Add(0, Reserved + k - Chunks(Of(L, "+")) + Chunks(Of(L, "-")))
<1> DEFINE x == Reserved - Chunks(Of(L, "+")) + Chunks(Of(L, "-"))
<1>1. PICK r \in Nat, a \in Nat, b \in Nat :
        r = Reserved /\ a = Chunks(Of(L, "+")) /\ b = Chunks(Of(L, "-"))
  BY Numbers
<1>2. x \in Int /\ x + k = Reserved + k - Chunks(Of(L, "+")) + Chunks(Of(L, "-"))
  BY <1>1
<1>3. Value(L) = Add(0, x)
  BY DEF Value
<1> HIDE DEF x
<1>4. \A y, z \in Int : Add(Add(0, y), z) = Add(0, y + z)
  BY AddAgain
<1>5. Add(Add(0, x), k) = Add(0, x + k)
  BY <1>2, <1>4, Zenon
<1> QED
  BY <1>2, <1>3, <1>5

(* FILE_BUFFER is written back (ServerUploadHandler 54, 106 and 120): by   *)
(* an upload that has not done it before, and others that have read before *)
(* will overwrite it.                                                      *)
LEMMA WriteAccounts ==
  ASSUME Inv, Accounted, NEW u \in Uploads, Reserve(u) \/ Release(u), Steps(u)
  PROVE  Accounted'
<1>1. PICK sign \in {"+", "-"} :
        /\ FILE_BUFFER' = Add(up[u].read, IF sign = "+" THEN Size[u] ELSE -Size[u])
        /\ lost' = missed[u]
        /\ missed' = [v \in Uploads |->
             IF v = u THEN {} ELSE IF Adding(v) THEN missed[v] \cup {<<u, sign>>} ELSE missed[v]]
        /\ \A v \in Uploads \ {u} : up'[v] = up[v]
        /\ up'[u].result = up[u].result
        /\ sign = "+" => up[u].pc = "reserve2" /\ up'[u].pc = "put"
        /\ sign = "-" => /\ up[u].pc = "release2"
                         /\ up'[u].pc = IF up[u].result = "failed" THEN "unlist" ELSE "close"
  BY UploadFacts DEF Reserve, Release, WriteBuffer, Ups
<1> DEFINE k == IF sign = "+" THEN Size[u] ELSE -Size[u]
<1>2. Size[u] \in Nat /\ k \in Int
  BY Facts
<1>3. Reserved' \in Nat /\ Reserved \in Nat /\ Reserved' = Reserved + k
  <2>1. CASE sign = "+"
    <3>1. u \notin Holders /\ Holders' = Holders \cup {u} /\ Holders \subseteq Uploads
      BY <1>1, <2>1 DEF Holders
    <3>2. Reserved' = Chunks(Holders \cup {u}) /\ Reserved = Chunks(Holders)
      BY <3>1 DEF Reserved, Chunks, ReservedBy
    <3>3. Chunks(Holders \cup {u}) = Chunks(Holders) + Size[u]
      BY <3>1, ReservedPlus
    <3>4. Chunks(Holders \cup {u}) \in Nat /\ Chunks(Holders) \in Nat
      BY <3>1, ReservedFinite
    <3> QED
      BY <1>2, <2>1, <3>2, <3>3, <3>4
  <2>2. CASE sign = "-"
    <3> DEFINE S == Holders \ {u}
    <3>1. u \in Holders /\ Holders' = S /\ Holders \subseteq Uploads
      BY <1>1, <2>2 DEF Holders
    <3>2. S \in SUBSET Uploads /\ u \in Uploads \ S /\ Holders = S \cup {u}
      BY <3>1
    <3> HIDE DEF S
    <3>3. Reserved' = Chunks(S) /\ Reserved = Chunks(S \cup {u})
      BY <3>1, <3>2 DEF Reserved, Chunks, ReservedBy
    <3>4. Chunks(S \cup {u}) = Chunks(S) + Size[u]
      BY <3>2, ReservedPlus
    <3>5. Chunks(S) \in Nat
      BY <3>2, ReservedFinite
    <3> QED
      BY <1>2, <2>2, <3>3, <3>4, <3>5
  <2> QED
    BY <2>1, <2>2
<1> HIDE DEF k
<1>4. up[u].read = Value(missed[u]) /\ Over(missed[u]) /\ FILE_BUFFER' = Add(up[u].read, k)
  BY <1>1 DEF Accounted, Adding, k
<1>5. FILE_BUFFER' = Value(lost)'
  <2>1. FILE_BUFFER' = Add(Value(missed[u]), k)
    BY <1>4
  <2>2. Add(Value(missed[u]), k)
          = Add(0, Reserved + k - Chunks(Of(missed[u], "+")) + Chunks(Of(missed[u], "-")))
    BY <1>2, AddToValue
  <2>3. Value(lost)'
          = Add(0, Reserved' - Chunks(Of(missed[u], "+")) + Chunks(Of(missed[u], "-")))
    BY <1>1 DEF Value, Of, Chunks, ReservedBy, Add
  <2>4. Reserved + k = Reserved'
    BY <1>3
  <2>5. Add(0, Reserved + k - Chunks(Of(missed[u], "+")) + Chunks(Of(missed[u], "-")))
          = Add(0, Reserved' - Chunks(Of(missed[u], "+")) + Chunks(Of(missed[u], "-")))
    <3> DEFINE x == Reserved + k - Chunks(Of(missed[u], "+")) + Chunks(Of(missed[u], "-"))
               y == Reserved' - Chunks(Of(missed[u], "+")) + Chunks(Of(missed[u], "-"))
    <3>1. x = y
      <4>1. PICK a \in Nat, b \in Nat :
              a = Chunks(Of(missed[u], "+")) /\ b = Chunks(Of(missed[u], "-"))
        BY Numbers
      <4> QED
        BY <1>2, <1>3, <4>1
    <3> HIDE DEF x, y
    <3>2. Add(0, x) = Add(0, y)
      BY ONLY <3>1, Zenon
    <3> QED
      BY ONLY <3>2 DEF x, y
  <2> QED
    BY <2>1, <2>2, <2>3, <2>5, Zenon
<1>6. ASSUME NEW L, Over(L) PROVE \A v \in Uploads, s \in {"+", "-"} :
                                    <<v, s>> \in L => Added(up'[v], s)
  <2>1. \A s \in {"+", "-"} : Added(up[u], s) => Added(up'[u], s)
    BY OthersHold
  <2> QED
    BY <1>1, <1>6, <2>1 DEF Over
<1>7. Over(lost)'
  BY <1>1, <1>4, <1>6 DEF Over, Adds
<1>8. Added(up'[u], sign) /\ ~Added(up[u], sign)
  BY <1>1, UploadFacts DEF Added, Early, Undone
<1>9. ASSUME NEW v \in Uploads
      PROVE  Over(missed[v])' /\ (Adding(v)' => up'[v].read = Value(missed[v])')
  <2>1. CASE v = u
    <3>1. missed'[v] = {} /\ ~Adding(v)'
      BY <1>1, <2>1 DEF Adding
    <3> QED
      BY <3>1 DEF Over
  <2>2. CASE v # u /\ ~Adding(v)
    <3>1. missed'[v] = missed[v] /\ ~Adding(v)' /\ Over(missed[v])
      BY <1>1, <2>2 DEF Adding, Accounted
    <3> QED
      BY <1>6, <3>1 DEF Over, Adds
  <2>3. CASE v # u /\ Adding(v)
    <3> DEFINE M == missed[v] \cup {<<u, sign>>}
    <3>1. missed'[v] = M /\ Over(missed[v]) /\ up'[v] = up[v] /\ up[v].read = Value(missed[v])
      BY <1>1, <2>3 DEF Accounted
    <3>2. <<u, sign>> \notin missed[v] /\ missed[v] \in SUBSET Adds
      BY <1>8, <3>1 DEF Over
    <3>3. /\ sign = "+" => /\ Chunks(Of(M, "+")) = Chunks(Of(missed[v], "+")) + Size[u]
                           /\ Chunks(Of(M, "-")) = Chunks(Of(missed[v], "-"))
          /\ sign = "-" => /\ Chunks(Of(M, "-")) = Chunks(Of(missed[v], "-")) + Size[u]
                           /\ Chunks(Of(M, "+")) = Chunks(Of(missed[v], "+"))
      BY <3>2, MissOne
    <3>4. \A x \in Uploads, s \in {"+", "-"} : <<x, s>> \in M => Added(up'[x], s)
      <4>1. \A x \in Uploads, s \in {"+", "-"} : <<x, s>> \in missed[v] => Added(up'[x], s)
        BY <1>6, <3>1
      <4>2. \A x \in Uploads, s \in {"+", "-"} : <<x, s>> = <<u, sign>> => x = u /\ s = sign
        OBVIOUS
      <4> QED
        BY <1>8, <4>1, <4>2
    <3>5. M \subseteq Adds
      BY <3>2 DEF Adds
    <3>6. Over(missed[v])'
      BY <3>1, <3>4, <3>5 DEF Over, Adds
    <3>7. Value(missed[v])' = Add(0, Reserved' - Chunks(Of(M, "+")) + Chunks(Of(M, "-")))
      BY <3>1 DEF Value, Of, Chunks, ReservedBy, Add
    <3> HIDE DEF M
    <3>8. Reserved' - Chunks(Of(M, "+")) + Chunks(Of(M, "-"))
            = Reserved - Chunks(Of(missed[v], "+")) + Chunks(Of(missed[v], "-"))
      <4>1. PICK r \in Nat, a \in Nat, b \in Nat, z \in Nat :
              /\ r = Reserved /\ z = Size[u]
              /\ a = Chunks(Of(missed[v], "+")) /\ b = Chunks(Of(missed[v], "-"))
        BY <1>2, Numbers
      <4>2. CASE sign = "+"
        BY <1>3, <3>3, <4>1, <4>2 DEF k
      <4>3. CASE sign = "-"
        BY <1>3, <3>3, <4>1, <4>3 DEF k
      <4> QED
        BY <4>2, <4>3
    <3> QED
      BY <3>1, <3>6, <3>7, <3>8 DEF Value
  <2> QED
    BY <2>1, <2>2, <2>3
<1> QED
  BY <1>5, <1>7, <1>9 DEF Accounted

(* What is missing where, after a step in which no share changes.          *)
LEMMA QuietAccounts ==
  ASSUME Inv, Accounted, NEW u \in Uploads, Steps(u), ~Reserve(u), ~Release(u)
  PROVE  Accounted'
<1>1. /\ Holders' = Holders /\ \A sign \in {"+", "-"} : Added(up[u], sign) => Added(up'[u], sign)
      /\ \A v \in Uploads \ {u} : up'[v] = up[v]
  BY OthersHold, Footprint DEF Spares
<1>2. Reserved' = Reserved
  BY <1>1 DEF Reserved, Chunks, ReservedBy
<1>3. ASSUME NEW L, Over(L) PROVE \A v \in Uploads, s \in {"+", "-"} :
                                    <<v, s>> \in L => Added(up'[v], s)
  BY <1>1, <1>3 DEF Over
<1>4. CASE ReserveRead(u) \/ ReleaseRead(u)
  <2>1. /\ up'[u].read = FILE_BUFFER /\ missed' = [missed EXCEPT ![u] = lost]
        /\ UNCHANGED <<FILE_BUFFER, lost>> /\ missed \in [Uploads -> SUBSET Adds]
    BY <1>4, UploadFacts DEF ReserveRead, ReleaseRead, ReadBuffer, Ups, Others
  <2>2. FILE_BUFFER' = Value(lost)' /\ Over(lost)'
    BY <1>2, <1>3, <2>1 DEF Accounted, Value, Of, Chunks, ReservedBy, Add, Over, Adds
  <2>3. ASSUME NEW v \in Uploads
        PROVE  Over(missed[v])' /\ (Adding(v)' => up'[v].read = Value(missed[v])')
    <3>1. CASE v = u
      <4>1. missed'[v] = lost' /\ up'[v].read = FILE_BUFFER'
        BY <2>1, <3>1
      <4> QED
        BY <2>2, <4>1 DEF Over, Value, Of
    <3>2. CASE v # u
      <4>1. missed'[v] = missed[v] /\ up'[v] = up[v]
        BY <1>1, <2>1, <3>2
      <4>2. Over(missed[v]) /\ (Adding(v) => up[v].read = Value(missed[v]))
        BY DEF Accounted
      <4> QED
        BY <1>2, <1>3, <4>1, <4>2
           DEF Adding, Value, Of, Chunks, ReservedBy, Add, Over, Adds
    <3> QED
      BY <3>1, <3>2
  <2> QED
    BY <2>2, <2>3 DEF Accounted
<1>5. CASE ~ReserveRead(u) /\ ~ReleaseRead(u)
  <2>1. /\ UNCHANGED <<FILE_BUFFER, lost, missed>>
        /\ Adding(u)' => (Adding(u) /\ up'[u].read = up[u].read)
    BY <1>5, OthersHold DEF buffer
  <2>2. FILE_BUFFER' = Value(lost)' /\ Over(lost)'
    BY <1>2, <1>3, <2>1 DEF Accounted, Value, Of, Chunks, ReservedBy, Add, Over, Adds
  <2>3. ASSUME NEW v \in Uploads
        PROVE  Over(missed[v])' /\ (Adding(v)' => up'[v].read = Value(missed[v])')
    <3>1. Over(missed[v]) /\ (Adding(v) => up[v].read = Value(missed[v]))
      BY DEF Accounted
    <3>2. Adding(v)' => Adding(v) /\ up'[v].read = up[v].read
      BY <1>1, <2>1 DEF Adding
    <3> QED
      BY <1>2, <1>3, <2>1, <3>1, <3>2 DEF Value, Of, Chunks, ReservedBy, Add, Over, Adds
  <2> QED
    BY <2>2, <2>3 DEF Accounted
<1> QED
  BY <1>4, <1>5

(* Nobody holds a share at first, and after a restart.                     *)
LEMMA NobodyHolds == Chunks({}) = 0 /\ \A sign : Of({}, sign) = {}
BY FS_EmptySet DEF Chunks, ReservedBy, Of

(* When nobody holds a share, or has read FILE_BUFFER to change it.        *)
Blank ==
  /\ Holders = {} /\ \A u \in Uploads : ~Adding(u)
  /\ FILE_BUFFER = 0 /\ lost = {} /\ missed = [u \in Uploads |-> {}]

(* Then nothing is missing anywhere.                                       *)
LEMMA NothingMissing == Blank => Accounted
<1> SUFFICES ASSUME Blank PROVE Accounted
  OBVIOUS
<1>1. Chunks(Of({}, "+")) = 0 /\ Chunks(Of({}, "-")) = 0 /\ Reserved = 0
  BY NobodyHolds DEF Blank, Reserved
<1>2. Value({}) = Add(0, 0)
  BY <1>1 DEF Value
<1> QED
  BY <1>2, AddZero DEF Blank, Accounted, Over

(* Every reservation is given back exactly once on whatever way the upload *)
(* ends, so that FILE_BUFFER is what the uploads in progress hold, but for *)
(* the adds that were overwritten: for any number of uploads and any       *)
(* sizes, with the sums that wrap, however the reads and the writes of the *)
(* threads overlap, and over restarts of the server.                       *)
THEOREM StoreBufferAccounted == Spec => []BufferAccounted
<1>1. Init => Accounted
  <2> SUFFICES ASSUME Init PROVE Accounted
    OBVIOUS
  <2>1. Holders = {} /\ \A u \in Uploads : ~Adding(u)
    BY DEF Init, Upload, Holders, Adding
  <2> QED
    BY <2>1, NothingMissing DEF Init, Blank
<1>2. Inv /\ Accounted /\ [Next]_vars => Accounted'
  <2> SUFFICES ASSUME Inv, Accounted, [Next]_vars PROVE Accounted'
    OBVIOUS
  <2>1. ASSUME NEW u \in Uploads, Steps(u) PROVE Accounted'
    BY <2>1, WriteAccounts, QuietAccounts
  <2>2. CASE Restart
    <3>1. \A u \in Uploads : up'[u].pc \in {"idle", "refused", "unbound", "ended"}
      BY <2>2, UploadFacts DEF Restart, Ups
    <3>2. Holders' = {} /\ \A u \in Uploads : ~Adding(u)'
      BY <3>1 DEF Holders, Adding
    <3>3. FILE_BUFFER' = 0 /\ lost' = {} /\ missed' = [u \in Uploads |-> {}]
      BY <2>2 DEF Restart
    <3>4. (Blank => Accounted)'
      BY NothingMissing, PTL
    <3> QED
      BY <3>2, <3>3, <3>4 DEF Blank
  <2>3. CASE UNCHANGED vars
    BY <2>3 DEF vars, buffer, Accounted, Value, Over, Added, Adding, Reserved, Chunks, ReservedBy,
       Holders, Of, Add
  <2> QED
    BY <2>1, <2>2, <2>3, NextSteps DEF Inv
<1>3. Accounted => BufferAccounted
  BY DEF Accounted, Value, BufferAccounted
<1> QED
  BY <1>1, <1>2, <1>3, StoreInvariant, PTL DEF Spec

-----------------------------------------------------------------------------
(* Files that stay.                                                        *)

(* A step keeps every file vouched for if its own upload vouches for the   *)
(* file of its path, or deletes it, or leaves disk and voucher.            *)
LEMMA KeptStep ==
  ASSUME Inv, Kept, NEW u \in Uploads, Spares(u),
         DOMAIN dir' \subseteq Paths,
         path[u] \in DOMAIN dir' =>
           \/ Vouches(u)'
           \/ dir' = dir /\ data' = data /\ ~Vouches(u)
  PROVE  Kept'
<1> SUFFICES ASSUME NEW p \in DOMAIN dir' PROVE \E v \in Uploads : path'[v] = p /\ Vouches(v)'
  BY DEF Kept
<1>1. path' = path /\ path \in [Uploads -> Paths] /\ Disk
  BY UploadFacts DEF Spares
<1>2. ASSUME p \in DOMAIN dir, dir'[p] = dir[p], data'[dir[p]] = data[dir[p]],
             p = path[u] => ~Vouches(u)
      PROVE  \E v \in Uploads : path'[v] = p /\ Vouches(v)'
  <2>1. PICK v \in Uploads : path[v] = p /\ Vouches(v)
    BY <1>2 DEF Kept
  <2>2. up'[v] = up[v]
    BY <1>2, <2>1 DEF Spares
  <2>3. Length(p)' = Length(p)
    BY <1>2 DEF Length
  <2>4. Vouches(v)'
    BY <1>1, <2>1, <2>2, <2>3 DEF Vouches
  <2> QED
    BY <1>1, <2>1, <2>4
<1>3. CASE p # path[u]
  <2>1. p \in Paths
    OBVIOUS
  <2>2. p \in DOMAIN dir /\ dir'[p] = dir[p]
    BY <1>3, <2>1 DEF Spares, SameAt
  <2>3. dir[p] \in Uploads /\ path[dir[p]] = p
    BY <1>1, <2>2 DEF Disk, Inv, Files
  <2> QED
    BY <1>2, <1>3, <2>2, <2>3 DEF Spares
<1>4. CASE p = path[u] /\ Vouches(u)'
  BY <1>1, <1>4
<1>5. CASE p = path[u] /\ ~Vouches(u)'
  BY <1>2, <1>5
<1> QED
  BY <1>3, <1>4, <1>5


(* A thread that has not yet opened its file vouches for nothing, ...      *)
LEMMA KeptUnopened ==
  ASSUME Inv, Kept, NEW u \in Uploads, Steps(u), up[u].pc \in Unopened, UNCHANGED disk
  PROVE  Kept'
<1>1. ~Vouches(u)
  BY UploadFacts DEF Ready, Vouches, Pending, Unopened, Early
<1>2. DOMAIN dir' \subseteq Paths
  BY UploadFacts DEF Disk, disk
<1> QED
  BY <1>1, <1>2, Footprint, KeptStep DEF disk

(* ... and one that leaves the disk vouches as before if it stays pending  *)
(* and keeps its verdict.                                                  *)
LEMMA KeptQuiet ==
  ASSUME Inv, Kept, NEW u \in Uploads, Steps(u), UNCHANGED disk,
         Pending(up[u]) => Pending(up'[u]),
         up[u].result = "stored" => up'[u].result = "stored"
  PROVE  Kept'
<1>1. DOMAIN dir' \subseteq Paths /\ path' = path
  BY UploadFacts, Footprint DEF Disk, disk, Spares
<1>2. Length(path[u])' = Length(path[u])
  BY <1>1 DEF Length, disk
<1>3. Vouches(u) => Vouches(u)'
  BY <1>1, <1>2 DEF Vouches
<1> QED
  BY <1>1, <1>3, Footprint, KeptStep DEF disk

(* Every step of an upload keeps every file vouched for.                   *)
LEMMA KeptSteps ==
  ASSUME Inv, Inv', Kept, NEW u \in Uploads, Steps(u)
  PROVE  Kept'
<1>1. Steps(u)
  OBVIOUS
<1>2. Kept'
  <2>1. DOMAIN dir' \subseteq Paths
    BY DEF Inv, TypeOK
  <2>2. CASE Request(u) \/ Bind(u) \/ Accept(u) \/ ReserveRead(u) \/ Reserve(u)
             \/ PutFile(u) \/ PutID(u)
    <3>1. up[u].pc \in Unopened /\ UNCHANGED disk
      BY <2>2 DEF Request, Bind, Accept, ReserveRead, Reserve, PutFile, PutID, Unopened, Early
    <3> QED
      BY <1>1, <3>1, KeptUnopened
  <2>3. CASE Connect(u)
    BY <1>1, <2>3, KeptQuiet DEF Connect
  <2>4. CASE Open(u) \/ Receive(u) \/ Eof(u)
    <3>1. up'[u].pc \in {"recv", "check"}
      BY <2>4, UploadFacts DEF Open, OpenFails, Receive, Eof, Goto, Ups
    <3> QED
      BY <1>1, <2>1, <3>1, Footprint, KeptStep DEF Vouches, Pending
  <2>5. CASE OpenFails(u) \/ ReadFails(u) \/ NotifyFails(u)
    <3>1. up'[u].pc = "release" /\ up'[u].result = "failed"
      BY <2>5, UploadFacts DEF OpenFails, ReadFails, NotifyFails, Ups
    <3> QED
      BY <1>1, <2>1, <3>1, Footprint, KeptStep DEF Vouches, Pending
  <2>6. CASE Check(u)
    <3>1. path' = path /\ Length(path[u])' = Length(path[u])
      BY <2>6 DEF Check, Length, disk
    <3>2. \/ Length(path[u]) = Size[u] /\ up'[u].result = "stored"
          \/ up'[u].pc = "exists"
      BY <2>6, UploadFacts DEF Check, Ups
    <3>3. Vouches(u)'
      BY <3>1, <3>2 DEF Vouches, Pending
    <3> QED
      BY <1>1, <2>1, <3>3, Footprint, KeptStep
  <2>7. CASE Delete(u)
    <3>1. path[u] \notin DOMAIN dir'
      BY <2>7 DEF Delete, Without
    <3> QED
      BY <1>1, <2>1, <3>1, Footprint, KeptStep
  <2>8. CASE RemoveFile(u) \/ RemoveID(u) \/ ReleaseRead(u) \/ Release(u) \/ Close(u)
    <3>1. UNCHANGED disk /\ up[u].pc \in {"unlist", "unlistid", "release", "release2", "close"}
      BY <2>8 DEF RemoveFile, RemoveID, ReleaseRead, Release, Close
    <3>2. up'[u].result = up[u].result
      BY <2>8, UploadFacts DEF RemoveFile, RemoveID, ReleaseRead, Release, Close, Goto, ReadBuffer, WriteBuffer, Ups
    <3>3. up[u].result = "failed" /\ up[u].pc # "close" =>
            up'[u].pc \in {"unlist", "unlistid", "release2", "exists"}
      BY <2>8, UploadFacts DEF RemoveFile, RemoveID, ReleaseRead, Release, Close, Goto, ReadBuffer, WriteBuffer, Ups
    <3> QED
      BY <1>1, <3>1, <3>2, <3>3, KeptQuiet DEF Pending
  <2>9. CASE Exists(u)
    <3>1. /\ up[u].pc = "exists" /\ up'[u].result = up[u].result /\ UNCHANGED <<path, disk>>
          /\ path[u] \in DOMAIN dir => up'[u].pc = "delete"
      BY <2>9, UploadFacts DEF Exists, Goto, Ups
    <3>2. CASE path[u] \in DOMAIN dir
      BY <1>1, <3>1, <3>2, KeptQuiet DEF Pending
    <3>3. CASE path[u] \notin DOMAIN dir
      <4>1. path[u] \notin DOMAIN dir'
        BY <3>1, <3>3 DEF disk
      <4> QED
        BY <1>1, <2>1, <4>1, Footprint, KeptStep
    <3> QED
      BY <3>2, <3>3
  <2> QED
    BY <1>1, <2>2, <2>3, <2>4, <2>5, <2>6, <2>7, <2>8, <2>9 DEF Steps, Thread
<1> QED
  BY <1>2

(* As long as the server is not started again, files are vouched for.      *)
KeptUnlessCrashed == crashes = 0 => Kept

(* Every step keeps that.                                                  *)
LEMMA KeptNext ==
  ASSUME Inv, Inv', KeptUnlessCrashed, [Next]_vars
  PROVE  KeptUnlessCrashed'
<1>1. ASSUME NEW u \in Uploads, Steps(u) PROVE KeptUnlessCrashed'
  <2>1. crashes' = crashes
    BY <1>1, Footprint DEF Spares
  <2> QED
    BY <1>1, <2>1, KeptSteps DEF KeptUnlessCrashed
<1>2. CASE Restart
  BY <1>2, CrashFacts DEF KeptUnlessCrashed
<1>3. CASE UNCHANGED vars
  BY <1>3 DEF KeptUnlessCrashed, Kept, Vouches, Length, vars, disk
<1> QED
  BY <1>1, <1>2, <1>3, NextSteps DEF Inv

(* As long as the server is not started again, a file that nobody uploads  *)
(* has the length that one of its uploads announced and verified, whatever *)
(* uploads of one name did to each other (ServerUploadHandler 87-104 and   *)
(* 118-132).                                                               *)
THEOREM StoreKeptIsVerified == Spec => []KeptIsVerified
<1>1. Init => KeptUnlessCrashed
  BY DEF Init, KeptUnlessCrashed, Kept, EmptyMap
<1>2. Inv /\ Inv' /\ KeptUnlessCrashed /\ [Next]_vars => KeptUnlessCrashed'
  BY KeptNext
<1>3. KeptUnlessCrashed => KeptIsVerified
  <2> SUFFICES ASSUME Kept, NEW p \in DOMAIN dir,
                      \A u \in Uploads : path[u] = p => Ended(u)
               PROVE  \E u \in Uploads :
                        path[u] = p /\ up[u].result = "stored" /\ Length(p) = Size[u]
    BY DEF KeptIsVerified, KeptUnlessCrashed
  <2>1. PICK u \in Uploads : path[u] = p /\ Vouches(u)
    BY DEF Kept
  <2>2. ~Pending(up[u])
    BY <2>1 DEF Ended, Pending
  <2> QED
    BY <2>1, <2>2 DEF Vouches
<1> QED
  BY <1>1, <1>2, <1>3, StoreInvariant, PTL DEF Spec


-----------------------------------------------------------------------------
(* Uploads that are alone at their path.                                   *)

(* The steps of others leave them alone, and their place in the store.     *)
LEMMA AloneSpared ==
  ASSUME Inv, torn = FALSE, NEW u \in Lone, NEW v \in Uploads, v # u, Spares(v)
  PROVE  /\ Alone(u) => Alone(u)'
         /\ InStore(u)' <=> InStore(u)
         /\ Nowhere(u)' <=> Nowhere(u)
         /\ up'[u] = up[u]
<1>1. u \in Uploads /\ path[u] # path[v] /\ path[u] \in Paths
  BY UploadFacts DEF Lone
<1>2. /\ path' = path /\ up'[u] = up[u] /\ SameAt(file_list, file_list', u)
      /\ SameAt(dir, dir', path[u]) /\ SameAt(file_ID_list, file_ID_list', path[u])
      /\ data'[u] = data[u]
  BY <1>1 DEF Spares
<1>3. path[u] \in DOMAIN dir => data'[dir[path[u]]] = data[dir[path[u]]]
  <2> SUFFICES ASSUME path[u] \in DOMAIN dir PROVE data'[dir[path[u]]] = data[dir[path[u]]]
    OBVIOUS
  <2>1. dir[path[u]] \in Uploads /\ path[dir[path[u]]] = path[u]
    BY TypeParts DEF Inv, Files, Disk
  <2> QED
    BY <1>1, <2>1 DEF Spares
<1>4. Alone(u) => Alone(u)'
  BY <1>2 DEF Alone, SameAt, Listed
<1>5. InStore(u)' <=> InStore(u)
  <2>1. /\ path[u] \in DOMAIN dir' <=> path[u] \in DOMAIN dir
        /\ path[u] \in DOMAIN dir => data'[dir'[path[u]]] = data[dir[path[u]]]
    BY <1>2, <1>3 DEF SameAt
  <2> QED
    BY <1>2, <2>1 DEF InStore, SameAt
<1>6. Nowhere(u)' <=> Nowhere(u)
  BY <1>2 DEF Nowhere, SameAt
<1> QED
  BY <1>2, <1>4, <1>5, <1>6

(* A step of its own that leaves disk and indexes, where its file and its  *)
(* entries are to exist as before.                                         *)
LEMMA AloneQuiet ==
  ASSUME Inv, NEW u \in Uploads, Alone(u), UNCHANGED <<path, index, disk>>,
         HasFile(up'[u]) <=> HasFile(up[u]), HasEntry(up'[u]) <=> HasEntry(up[u]),
         HasID(up'[u]) <=> HasID(up[u]), up'[u].got = up[u].got,
         up'[u].result = "stored" => up[u].got = Size[u],
         up'[u].pc \in Unopened => up[u].pc \in Unopened,
         up'[u].pc = "ended" => up'[u].result \in {"stored", "corrupt", "failed"}
  PROVE  Alone(u)'
<1>1. UNCHANGED <<path, file_list, file_ID_list, dir, data>>
  BY DEF index, disk
<1> QED
  BY <1>1 DEF Alone, Listed

(* Its length is that of what it has received.                             *)
LEMMA AloneLength ==
  ASSUME Inv, NEW u \in Uploads, Alone(u), HasFile(up[u])
  PROVE  Length(path[u]) = up[u].got
<1>1. up[u].got \in Nat
  BY UploadFacts, Facts DEF Ups
<1>2. path[u] \in DOMAIN dir /\ data[dir[path[u]]] = [i \in 1..up[u].got |-> u]
  BY DEF Alone
<1> QED
  BY <1>1, <1>2 DEF Length

(* Its own steps that leave disk and indexes, ...                          *)
LEMMA AloneQuietSteps ==
  ASSUME Inv, NEW u \in Uploads, Alone(u),
         \/ Request(u) \/ Bind(u) \/ Connect(u) \/ Accept(u) \/ ReserveRead(u) \/ Reserve(u)
         \/ OpenFails(u) \/ Eof(u) \/ ReadFails(u) \/ NotifyFails(u) \/ Check(u) \/ Exists(u)
         \/ ReleaseRead(u) \/ Release(u) \/ Close(u)
  PROVE  Alone(u)'
<1>1. UNCHANGED <<path, index, disk>>
  BY DEF Request, Bind, Connect, Accept, ReserveRead, Reserve, OpenFails, Eof, ReadFails,
     NotifyFails, Check, Exists, ReleaseRead, Release, Close
<1>2. CASE Request(u) \/ Bind(u) \/ Accept(u) \/ ReserveRead(u) \/ Reserve(u)
  <2>1. /\ up[u].pc \in Unopened \ {"putid", "open"} /\ up'[u].pc \in Unopened \ {"putid", "open"}
        /\ up'[u].result = up[u].result /\ up'[u].got = up[u].got
    <3>1. CASE Request(u)
      BY <3>1, UploadFacts DEF Request, Goto, Ups, Unopened, Early
    <3>2. CASE Bind(u)
      <4>1. up'[u].pc \in {"unbound", "listen"}
        BY <3>2, UploadFacts DEF Bind, Ups
      <4>2. up'[u].result = up[u].result /\ up'[u].got = up[u].got
        BY <3>2, UploadFacts DEF Bind, Ups
      <4> QED
        BY <3>2, <4>1, <4>2 DEF Bind, Unopened, Early
    <3>3. CASE Accept(u)
      BY <3>3, UploadFacts DEF Accept, Ups, Unopened, Early
    <3>4. CASE ReserveRead(u) \/ Reserve(u)
      BY <3>4, UploadFacts DEF ReserveRead, Reserve, Goto, ReadBuffer, WriteBuffer, Ups, Unopened, Early
    <3> QED
      BY <1>2, <3>1, <3>2, <3>3, <3>4
  <2>2. up[u].result = "none"
    BY <2>1, UploadFacts DEF Ready
  <2> QED
    BY <1>1, <2>1, <2>2, AloneQuiet
       DEF HasFile, HasEntry, HasID, Pending, Unopened, Early, Undone
<1>3. CASE Connect(u)
  <2>1. up' = up
    BY <1>3 DEF Connect
  <2> QED
    BY <1>1, <2>1 DEF Alone, Listed, index, disk
<1>4. CASE Eof(u) \/ ReadFails(u) \/ NotifyFails(u) \/ Check(u)
  <2>1. /\ up[u].pc \in {"recv", "check"} /\ up'[u].got = up[u].got
        /\ up'[u].inode = up[u].inode
        /\ \/ up'[u].pc = "check" /\ up'[u].result = up[u].result
           \/ up'[u].pc = "release" /\ up'[u].result = "failed"
           \/ up'[u].pc = "exists" /\ up'[u].result = "corrupt"
           \/ up'[u].pc = "release" /\ up'[u].result = "stored" /\ Length(path[u]) = Size[u]
    BY <1>4, UploadFacts DEF Eof, ReadFails, NotifyFails, Check, Goto, Ups
  <2>2. up[u].result = "none" /\ HasFile(up[u]) /\ up[u].inode # NoUpload
    BY <2>1, UploadFacts, Facts DEF Ready, HasFile, Pending
  <2>3. Length(path[u]) = up[u].got
    BY <2>2, AloneLength
  <2>4. /\ HasFile(up'[u]) /\ HasEntry(up'[u]) /\ HasID(up'[u])
        /\ HasEntry(up[u]) /\ HasID(up[u])
    BY <2>1, <2>2 DEF HasFile, HasEntry, HasID, Pending, Undone
  <2> QED
    BY <1>1, <2>1, <2>2, <2>3, <2>4, AloneQuiet DEF Unopened, Early
<1>5. CASE ReleaseRead(u) \/ Release(u) \/ Close(u)
  <2>1. /\ up'[u].result = up[u].result /\ up'[u].got = up[u].got
        /\ up'[u].inode = up[u].inode
        /\ \/ up[u].pc = "release" /\ up'[u].pc = "release2"
           \/ up[u].pc = "release2" /\ up[u].result = "failed" /\ up'[u].pc = "unlist"
           \/ up[u].pc = "release2" /\ up[u].result # "failed" /\ up'[u].pc = "close"
           \/ up[u].pc = "close" /\ up'[u].pc = "ended"
    BY <1>5, UploadFacts DEF ReleaseRead, Release, Close, Goto, ReadBuffer, WriteBuffer, Ups
  <2>2. up[u].result \in {"stored", "corrupt", "failed"}
    BY <2>1, UploadFacts DEF Ready, Finishing
  <2>3. up[u].result = "stored" => up[u].got = Size[u]
    BY DEF Alone
  <2>4. /\ HasFile(up'[u]) <=> HasFile(up[u])
        /\ HasEntry(up'[u]) <=> HasEntry(up[u])
        /\ HasID(up'[u]) <=> HasID(up[u])
    BY <2>1, <2>2 DEF HasFile, HasEntry, HasID, Pending, Undone
  <2> QED
    BY <1>1, <2>1, <2>2, <2>3, <2>4, AloneQuiet DEF Unopened, Early
<1>6. CASE OpenFails(u)
  <2>1. /\ up[u].pc = "open" /\ up[u].result = "none" /\ up[u].inode = NoUpload
        /\ up'[u].pc = "release" /\ up'[u].result = "failed" /\ up'[u].inode = NoUpload
        /\ up'[u].got = up[u].got
    BY <1>6, UploadFacts DEF OpenFails, Ups, Ready, Unopened
  <2>2. /\ ~HasFile(up[u]) /\ ~HasFile(up'[u]) /\ HasEntry(up[u]) /\ HasEntry(up'[u])
        /\ HasID(up[u]) /\ HasID(up'[u])
    BY <2>1 DEF HasFile, HasEntry, HasID, Pending, Undone
  <2> QED
    BY <1>1, <2>1, <2>2, AloneQuiet DEF Unopened, Early
<1>7. CASE Exists(u)
  <2>1. /\ up[u].pc = "exists" /\ up'[u].result = up[u].result
        /\ up'[u].inode = up[u].inode /\ up'[u].got = up[u].got
        /\ up'[u].pc = IF path[u] \in DOMAIN dir THEN "delete"
                       ELSE IF up[u].result = "failed" THEN "close" ELSE "release"
    BY <1>7, UploadFacts DEF Exists, Goto, Ups
  <2>2. up[u].result \in {"corrupt", "failed"} /\ (up[u].result = "corrupt" => up[u].inode # NoUpload)
    BY <2>1, UploadFacts, Facts DEF Ready, Undone
  <2>3. HasFile(up[u]) <=> path[u] \in DOMAIN dir
    BY DEF Alone
  <2>4. HasFile(up[u]) <=> up[u].inode # NoUpload
    BY <2>1, <2>2 DEF HasFile, Pending
  <2>5. /\ HasFile(up'[u]) <=> HasFile(up[u])
        /\ HasEntry(up'[u]) <=> HasEntry(up[u])
        /\ HasID(up'[u]) <=> HasID(up[u])
    BY <2>1, <2>2, <2>3, <2>4 DEF HasFile, HasEntry, HasID, Pending, Undone
  <2> QED
    BY <1>1, <2>1, <2>2, <2>5, AloneQuiet DEF Unopened, Early
<1> QED
  BY <1>2, <1>3, <1>4, <1>5, <1>6, <1>7

(* ... those that make and remove its index entries, ...                   *)
LEMMA AloneIndexSteps ==
  ASSUME Inv, torn = FALSE, NEW u \in Uploads, Alone(u),
         PutFile(u) \/ PutID(u) \/ RemoveFile(u) \/ RemoveID(u)
  PROVE  Alone(u)'
<1>1. /\ UNCHANGED <<path, dir, data>>
      /\ up'[u].result = up[u].result /\ up'[u].got = up[u].got
      /\ up'[u].inode = up[u].inode
  BY UploadFacts DEF PutFile, PutID, RemoveFile, RemoveID, Goto, Ups, disk
<1>2. CASE PutFile(u)
  <2>1. /\ up[u].pc = "put" /\ up'[u].pc = "putid" /\ up[u].result = "none"
        /\ file_list' = Put(file_list, u, path[u]) /\ UNCHANGED file_ID_list
    BY <1>2, UploadFacts DEF PutFile, Goto, Ups, Ready, Unopened, Changed
  <2>2. /\ ~HasFile(up[u]) /\ ~HasID(up[u])
        /\ ~HasFile(up'[u]) /\ HasEntry(up'[u]) /\ ~HasID(up'[u])
    BY <1>1, <2>1 DEF HasFile, HasEntry, HasID, Pending, Undone
  <2>3. Listed(u)'
    BY <1>1, <2>1 DEF Listed, Put
  <2> QED
    BY <1>1, <2>1, <2>2, <2>3 DEF Alone, Unopened
<1>3. CASE PutID(u)
  <2>1. /\ up[u].pc = "putid" /\ up'[u].pc = "open" /\ up[u].result = "none"
        /\ file_ID_list' = Put(file_ID_list, path[u], u) /\ UNCHANGED file_list
    BY <1>3, UploadFacts DEF PutID, Goto, Ups, Ready, Unopened, Changed
  <2>2. /\ ~HasFile(up[u]) /\ HasEntry(up[u])
        /\ ~HasFile(up'[u]) /\ HasEntry(up'[u]) /\ HasID(up'[u])
    BY <1>1, <2>1 DEF HasFile, HasEntry, HasID, Pending, Undone
  <2>3. path[u] \in DOMAIN file_ID_list' /\ file_ID_list'[path[u]] = u
    BY <2>1 DEF Put
  <2> QED
    BY <1>1, <2>1, <2>2, <2>3 DEF Alone, Listed, Unopened
<1>4. CASE RemoveFile(u)
  <2>1. /\ up[u].pc = "unlist" /\ up'[u].pc = "unlistid"
        /\ up[u].result \in {"corrupt", "failed"}
        /\ file_list' = Without(file_list, u) /\ UNCHANGED file_ID_list
    BY <1>4, UploadFacts DEF RemoveFile, Goto, Ups, Ready, Undone, Changed
  <2>2. /\ HasFile(up'[u]) <=> HasFile(up[u])
        /\ HasID(up[u]) /\ HasID(up'[u]) /\ ~HasEntry(up'[u])
    BY <1>1, <2>1 DEF HasFile, HasEntry, HasID, Pending, Undone
  <2>3. u \notin DOMAIN file_list'
    BY <2>1 DEF Without
  <2> QED
    BY <1>1, <2>1, <2>2, <2>3 DEF Alone, Unopened, Early
<1>5. CASE RemoveID(u)
  <2>1. /\ up[u].pc = "unlistid" /\ up[u].result \in {"corrupt", "failed"}
        /\ up'[u].pc = IF up[u].result = "failed" THEN "exists" ELSE "release"
        /\ file_ID_list' = Without(file_ID_list, path[u]) /\ UNCHANGED file_list
    BY <1>5, UploadFacts DEF RemoveID, Goto, Ups, Ready, Undone, Changed
  <2>2. /\ HasFile(up'[u]) <=> HasFile(up[u])
        /\ ~HasEntry(up[u]) /\ ~HasEntry(up'[u]) /\ ~HasID(up'[u])
    BY <1>1, <2>1 DEF HasFile, HasEntry, HasID, Pending, Undone
  <2>3. path[u] \notin DOMAIN file_ID_list'
    BY <2>1 DEF Without
  <2> QED
    BY <1>1, <2>1, <2>2, <2>3 DEF Alone, Unopened, Early
<1> QED
  BY <1>2, <1>3, <1>4, <1>5

(* ... and those that create, fill and delete its file.                    *)
LEMMA AloneDiskSteps ==
  ASSUME Inv, NEW u \in Lone, Alone(u), up[u].peer \in {u, NoUpload},
         Open(u) \/ Receive(u) \/ Delete(u)
  PROVE  Alone(u)'
<1>1. u \in Uploads
  BY DEF Lone
<1>2. /\ UNCHANGED <<path, file_list, file_ID_list>> /\ up'[u].result = up[u].result
  BY <1>1, UploadFacts DEF Open, OpenFails, Receive, Delete, Goto, Ups, index
<1>3. CASE Open(u)
  <2>1. /\ up[u].pc = "open" /\ up'[u].pc = "recv" /\ up[u].result = "none"
        /\ up'[u].got = up[u].got /\ data' = data
    BY <1>1, <1>3, UploadFacts DEF Open, Ups, Ready, Unopened
  <2>2. /\ ~HasFile(up[u]) /\ HasEntry(up[u]) /\ HasID(up[u])
        /\ HasEntry(up'[u]) /\ HasID(up'[u])
    BY <1>2, <2>1 DEF HasFile, HasEntry, HasID, Pending, Undone
  <2>3. path[u] \notin DOMAIN dir /\ data[u] = <<>> /\ up[u].got = 0
    BY <2>1, <2>2 DEF Alone, Unopened
  <2>6. up'[u].inode = u
    BY <1>1, <1>3, <2>3, UploadFacts DEF Open, Ups
  <2>7. HasFile(up'[u])
    BY <1>1, <2>1, <2>6, Facts DEF HasFile, Pending
  <2>4. path[u] \in DOMAIN dir' /\ dir'[path[u]] = u
    BY <1>3, <2>3 DEF Open, Put
  <2>5. data'[u] = [i \in 1..up'[u].got |-> u] /\ up'[u].got <= Size[u]
    BY <1>1, <2>1, <2>3, Facts
  <2> QED
    BY <1>2, <2>1, <2>2, <2>4, <2>5, <2>7 DEF Alone, Listed, Unopened, Early
<1>4. CASE Receive(u)
  <2>1. /\ up[u].pc = "recv" /\ up'[u].pc \in {"recv", "check"} /\ up[u].result = "none"
        /\ up'[u].got = up[u].got + 1 /\ up[u].got < Size[u] /\ dir' = dir
        /\ up[u].inode # NoUpload /\ up'[u].inode = up[u].inode
        /\ data' = [data EXCEPT ![up[u].inode] = Append(@, up[u].peer)]
    BY <1>1, <1>4, UploadFacts, Facts DEF Receive, Ups, Ready
  <2>2. /\ HasFile(up[u]) /\ HasEntry(up[u]) /\ HasID(up[u])
        /\ HasFile(up'[u]) /\ HasEntry(up'[u]) /\ HasID(up'[u])
    BY <1>2, <2>1 DEF HasFile, HasEntry, HasID, Pending, Undone
  <2>3. up[u].inode = u /\ up[u].peer = u
    <3>1. up[u].inode \in Uploads /\ path[up[u].inode] = path[u]
      BY <1>1, <2>1, UploadFacts, Facts DEF Ready
    <3>2. up[u].peer = u
      BY <1>1, <2>1, UploadFacts, Facts DEF Ready, Early
    <3> QED
      BY <3>1, <3>2 DEF Lone
  <2>4. data'[u] = Append(data[u], u)
    BY <1>1, <2>1, <2>3, UploadFacts DEF Disk
  <2>5. data'[u] = [i \in 1..up'[u].got |-> u] /\ up'[u].got <= Size[u]
    <3>1. data[u] = [i \in 1..up[u].got |-> u] /\ up[u].got \in Nat /\ Size[u] \in Nat
      BY <1>1, <2>2, UploadFacts, Facts DEF Alone, Ups
    <3> QED
      BY <2>1, <2>4, <3>1
  <2> QED
    BY <1>2, <2>1, <2>2, <2>5 DEF Alone, Listed, Unopened, Early
<1>5. CASE Delete(u)
  <2>1. /\ up[u].pc = "delete" /\ up[u].result \in {"corrupt", "failed"}
        /\ up'[u].pc = IF up[u].result = "failed" THEN "close" ELSE "unlist"
        /\ up'[u].got = up[u].got /\ data' = data /\ dir' = Without(dir, path[u])
    BY <1>1, <1>5, UploadFacts DEF Delete, Goto, Ups, Ready, Undone
  <2>2. /\ ~HasFile(up'[u])
        /\ HasEntry(up'[u]) <=> HasEntry(up[u])
        /\ HasID(up'[u]) <=> HasID(up[u])
    BY <1>2, <2>1 DEF HasFile, HasEntry, HasID, Pending, Undone
  <2>3. path[u] \notin DOMAIN dir'
    BY <2>1 DEF Without
  <2> QED
    BY <1>2, <2>1, <2>2, <2>3 DEF Alone, Listed, Unopened, Early
<1> QED
  BY <1>3, <1>4, <1>5

(* Whose client an upload has, it keeps.                                   *)
LEMMA PeerKept ==
  ASSUME Inv, NEW u \in Uploads, Steps(u), up'[u].peer \in {u, NoUpload}
  PROVE  up[u].peer \in {u, NoUpload}
<1>1. CASE Accept(u)
  BY <1>1, UploadFacts DEF Accept, Ready, Early
<1>2. CASE Request(u) \/ Connect(u) \/ Eof(u) \/ Exists(u) \/ Delete(u) \/ PutFile(u)
           \/ PutID(u) \/ RemoveFile(u) \/ RemoveID(u) \/ Close(u)
  BY <1>2, UploadFacts DEF Request, Connect, Eof, Exists, Delete, PutFile, PutID, RemoveFile,
     RemoveID, Close, Goto, Ups
<1>3. CASE \/ Bind(u) \/ ReserveRead(u) \/ Reserve(u) \/ Open(u) \/ OpenFails(u) \/ Receive(u)
           \/ ReadFails(u) \/ Check(u) \/ NotifyFails(u) \/ ReleaseRead(u) \/ Release(u)
  <2>1. CASE Bind(u)
    BY <2>1, UploadFacts DEF Bind, Ups
  <2>2. CASE ReserveRead(u) \/ Reserve(u) \/ ReleaseRead(u) \/ Release(u)
    BY <2>2, UploadFacts DEF ReserveRead, Reserve, ReleaseRead, Release, ReadBuffer,
       WriteBuffer, Ups
  <2>3. CASE Open(u) \/ OpenFails(u) \/ Receive(u) \/ ReadFails(u) \/ Check(u) \/ NotifyFails(u)
    BY <2>3, UploadFacts DEF Open, OpenFails, Receive, ReadFails, Check, NotifyFails, Ups
  <2> QED
    BY <1>3, <2>1, <2>2, <2>3
<1> QED
  BY <1>1, <1>2, <1>3 DEF Steps, Thread

(* Every step of an upload keeps those that are alone as they should be.   *)
LEMMA LoneSteps ==
  ASSUME Inv, LoneInv, NEW v \in Uploads, Steps(v)
  PROVE  LoneInv'
<1>1. Spares(v)
  BY Footprint
<1>2. Lone' = Lone
  BY <1>1 DEF Spares, Lone
<1> SUFFICES ASSUME torn' = FALSE, crashes' = 0, NEW u \in Lone, up'[u].peer \in {u, NoUpload}
             PROVE  Alone(u)'
  BY <1>2 DEF LoneInv
<1>3. torn = FALSE /\ crashes = 0
  BY <1>1 DEF Steps, Tears, Spares
<1>4. CASE u # v
  <2>1. u \in Uploads /\ up'[u] = up[u]
    BY <1>1, <1>4 DEF Spares, Lone
  <2> QED
    BY <1>1, <1>3, <1>4, <2>1, AloneSpared DEF LoneInv
<1>5. CASE u = v
  <2>1. up[u].peer \in {u, NoUpload}
    BY <1>5, PeerKept
  <2>2. Alone(v)
    BY <1>3, <1>5, <2>1 DEF LoneInv
  <2> QED
    BY <1>3, <1>5, <2>1, <2>2, AloneQuietSteps, AloneIndexSteps, AloneDiskSteps
       DEF Steps, Thread
<1> QED
  BY <1>4, <1>5


-----------------------------------------------------------------------------
(* The store as AbstractStore has it.                                      *)
Abs(u) == IF Disturbed(u) THEN "disturbed" ELSE AbstractState(u)

EndsWell ==
  \A u \in Uploads :
    Alone(u) /\ up[u].pc = "ended" => AbstractState(u) \in {"stored", "absent"}

(* At its end an upload that is alone is in the store, or nowhere.         *)
LEMMA AloneEnded == EndsWell
<1> SUFFICES ASSUME NEW u \in Uploads, Alone(u), up[u].pc = "ended"
             PROVE  AbstractState(u) \in {"stored", "absent"}
  BY DEF EndsWell
<1>1. CASE up[u].result = "stored"
  <2>1. HasFile(up[u]) /\ HasEntry(up[u]) /\ HasID(up[u])
    BY <1>1 DEF HasFile, HasEntry, HasID
  <2>2. InStore(u)
    BY <1>1, <2>1 DEF Alone, Listed, InStore
  <2> QED
    BY <2>2 DEF AbstractState
<1>2. CASE up[u].result # "stored"
  <2>1. ~HasFile(up[u]) /\ ~HasEntry(up[u]) /\ ~HasID(up[u])
    BY <1>2 DEF HasFile, HasEntry, HasID, Pending, Undone
  <2>2. Nowhere(u)
    BY <2>1 DEF Alone, Nowhere
  <2> QED
    BY <2>2 DEF AbstractState
<1> QED
  BY <1>1, <1>2

(* Two threads met at an index, or the server was started again.           *)
Parted == torn # FALSE \/ crashes # 0

(* Which uploads are disturbed.                                            *)
LEMMA DisturbedFacts ==
  TypeOK => \A u \in Uploads :
    Disturbed(u) <=> u \notin Lone \/ up[u].peer \notin {u, NoUpload} \/ Parted
<1> SUFFICES ASSUME TypeOK, NEW u \in Uploads
             PROVE  Disturbed(u) <=> u \notin Lone \/ up[u].peer \notin {u, NoUpload} \/ Parted
  OBVIOUS
<1>1. torn \in BOOLEAN /\ crashes \in Nat
  BY StoreAssumption DEF TypeOK
<1>2. crashes > 0 <=> crashes # 0
  BY <1>1
<1>3. torn <=> torn # FALSE
  BY <1>1, Zenon
<1> QED
  BY <1>2, <1>3, Zenon DEF Disturbed, Parted

(* A step of an upload is one of AbstractStore for this upload, or none,   *)
(* or disturbs it.                                                         *)
LEMMA AbstractStep ==
  ASSUME Inv, LoneInv, Inv', LoneInv', NEW v \in Uploads, Steps(v), ~Parted, ~Parted'
  PROVE  /\ \A u \in Uploads \ {v} : Abs(u)' = Abs(u)
         /\ \/ Abs(v)' = Abs(v) \/ Abs(v)' = "disturbed"
            \/ Abs(v) = "none" /\ Abs(v)' = "active"
            \/ Abs(v) = "active" /\ Abs(v)' \in {"stored", "absent"}
<1>1. Spares(v)
  BY Footprint
<1>2. Lone' = Lone /\ torn = FALSE
  BY <1>1 DEF Spares, Lone, Parted
<1>0. /\ \A u \in Uploads : Disturbed(u) <=> u \notin Lone \/ up[u].peer \notin {u, NoUpload}
      /\ \A u \in Uploads : Disturbed(u)' <=> u \notin Lone \/ up'[u].peer \notin {u, NoUpload}
  <2>1. /\ \A u \in Uploads : Disturbed(u) <=> u \notin Lone \/ up[u].peer \notin {u, NoUpload}
    BY DisturbedFacts DEF Inv
  <2>2. (TypeOK => \A u \in Uploads :
           Disturbed(u) <=> u \notin Lone \/ up[u].peer \notin {u, NoUpload} \/ Parted)'
    BY DisturbedFacts, PTL
  <2> QED
    BY <1>2, <2>1, <2>2 DEF Inv
<1>3. ASSUME NEW u \in Uploads \ {v} PROVE Abs(u)' = Abs(u)
  <2>0. up'[u] = up[u]
    BY <1>1 DEF Spares
  <2>1. CASE u \in Lone
    <3>1. up'[u] = up[u] /\ (InStore(u)' <=> InStore(u)) /\ (Nowhere(u)' <=> Nowhere(u))
      BY <1>1, <1>2, <2>1, AloneSpared
    <3> QED
      BY <1>0, <3>1 DEF Abs, AbstractState
  <2> QED
    BY <1>0, <2>0, <2>1 DEF Abs
<1>4. CASE Disturbed(v)
  <2>1. Disturbed(v)'
    BY <1>0, <1>4, PeerKept
  <2> QED
    BY <1>3, <1>4, <2>1 DEF Abs
<1>5. CASE Disturbed(v)'
  BY <1>3, <1>5 DEF Abs
<1>6. CASE ~Disturbed(v) /\ ~Disturbed(v)'
  <2>1. CASE Close(v)
    <3>1. up[v].pc = "close" /\ up'[v].pc = "ended"
      BY <2>1, UploadFacts DEF Close, Goto, Ups
    <3>2. AbstractState(v) = "active"
      BY <3>1 DEF AbstractState
    <3>3. Alone(v)'
      BY <1>0, <1>2, <1>6 DEF LoneInv, Parted
    <3>4. EndsWell'
      BY AloneEnded, PTL
    <3>5. AbstractState(v)' \in {"stored", "absent"}
      BY <3>1, <3>3, <3>4 DEF EndsWell
    <3> QED
      BY <1>3, <1>6, <3>2, <3>5 DEF Abs
  <2>2. CASE Accept(v)
    <3>1. up[v].pc = "listen" /\ up'[v].pc = "reserve"
      BY <2>2, UploadFacts DEF Accept, Ups
    <3> QED
      BY <1>3, <1>6, <3>1 DEF Abs, AbstractState
  <2>3. CASE Request(v) \/ Bind(v) \/ Connect(v)
    <3>1. CASE Request(v)
      BY <3>1, <1>3, <1>6, UploadFacts DEF Request, Goto, Ups, Abs, AbstractState
    <3>2. CASE Bind(v)
      <4>1. up[v].pc = "bind" /\ up'[v].pc \in {"unbound", "listen"}
        BY <3>2, UploadFacts DEF Bind, Ups
      <4> QED
        BY <4>1, <1>3, <1>6 DEF Abs, AbstractState
    <3>3. CASE Connect(v)
      BY <3>3, <1>3, <1>6 DEF Connect, Abs, AbstractState, InStore, Nowhere, index, disk
    <3> QED
      BY <2>3, <3>1, <3>2, <3>3
  <2>4. CASE \/ ReserveRead(v) \/ Reserve(v) \/ PutFile(v) \/ PutID(v) \/ Open(v) \/ OpenFails(v)
             \/ Receive(v) \/ Eof(v) \/ ReadFails(v) \/ Check(v) \/ NotifyFails(v) \/ Exists(v)
             \/ Delete(v) \/ RemoveFile(v) \/ RemoveID(v) \/ ReleaseRead(v) \/ Release(v)
    <3>1. up[v].pc \notin Early \cup {"ended"}
      BY <2>4 DEF ReserveRead, Reserve, PutFile, PutID, Open, OpenFails, Receive, Eof,
         ReadFails, Check, NotifyFails, Exists, Delete, RemoveFile, RemoveID, ReleaseRead,
         Release, Early
    <3>2. up'[v].pc \notin Early \cup {"ended"}
      BY <2>4, UploadFacts DEF ReserveRead, Reserve, PutFile, PutID, Open, OpenFails, Receive,
         Eof, ReadFails, Check, NotifyFails, Exists, Delete, RemoveFile, RemoveID, ReleaseRead,
         Release, Goto, ReadBuffer, WriteBuffer, Ups, Early
    <3> QED
      BY <1>3, <1>6, <3>1, <3>2 DEF Abs, AbstractState, Early
  <2> QED
    BY <2>1, <2>2, <2>3, <2>4 DEF Steps, Thread
<1> QED
  BY <1>4, <1>5, <1>6

(* The invariant that keeps lone uploads whole.                            *)
LoneAll == Inv /\ LoneInv

(* At first nothing was stored.                                            *)
LEMMA LoneAllInit == Init => LoneAll
<1> SUFFICES ASSUME Init PROVE LoneAll
  OBVIOUS
<1>1. \A u \in Uploads : /\ up[u].pc = "idle" /\ up[u].result = "none" /\ up[u].got = 0
                         /\ data[u] = <<>>
  BY DEF Init, Upload
<1>2. DOMAIN file_list = {} /\ DOMAIN file_ID_list = {} /\ DOMAIN dir = {}
  BY DEF Init, EmptyMap
<1>3. ASSUME NEW u \in Lone PROVE Alone(u)
  <2>1. u \in Uploads
    BY DEF Lone
  <2>2. ~HasFile(up[u]) /\ ~HasEntry(up[u]) /\ ~HasID(up[u])
    BY <1>1, <2>1 DEF HasFile, HasEntry, HasID, Pending, Undone
  <2> QED
    BY <1>1, <1>2, <2>1, <2>2 DEF Alone
<1> QED
  BY <1>3, InitInv DEF LoneAll, LoneInv

(* Every step keeps it: after a restart it asks for nothing.               *)
LEMMA LoneAllNext ==
  ASSUME LoneAll, [Next]_vars
  PROVE  LoneAll'
<1>1. Inv'
  BY NextInv DEF LoneAll
<1>2. ASSUME NEW u \in Uploads, Steps(u) PROVE LoneInv'
  BY <1>2, LoneSteps DEF LoneAll
<1>3. CASE Restart
  <2>1. crashes' # 0
    BY <1>3, CrashFacts DEF LoneAll
  <2> QED
    BY <1>1, <2>1 DEF LoneAll, LoneInv
<1>4. CASE UNCHANGED vars
  <2>1. UNCHANGED <<path, file_list, file_ID_list, dir, data, up, crashes, torn>>
    BY <1>4 DEF vars, index, disk
  <2>2. LoneInv'
    BY <2>1 DEF LoneAll, LoneInv, Lone, Alone, Listed
  <2> QED
    BY <1>1, <2>2 DEF LoneAll
<1> QED
  BY <1>1, <1>2, <1>3, <1>4, NextSteps DEF LoneAll, Inv

(* Every step is one of AbstractStore, or leaves it.                       *)
LEMMA StoreNext ==
  ASSUME LoneAll, LoneAll', [Next]_vars
  PROVE  [Store!Next]_([u \in Uploads |-> Abs(u)])
<1> DEFINE s == [u \in Uploads |-> Abs(u)]
<1>1. CASE Parted'
  <2>1. (TypeOK => \A u \in Uploads :
           Disturbed(u) <=> u \notin Lone \/ up[u].peer \notin {u, NoUpload} \/ Parted)'
    BY DisturbedFacts, PTL
  <2>2. \A u \in Uploads : Abs(u)' = "disturbed"
    BY <1>1, <2>1 DEF LoneAll, Inv, Abs
  <2>3. Store!Disturb(Uploads)
    BY <2>2 DEF Store!Disturb, Abs
  <2> QED
    BY <2>3 DEF Store!Next
<1>2. ASSUME NEW v \in Uploads, Steps(v), ~Parted' PROVE [Store!Next]_s
  <2>0. ~Parted
    BY <1>2, Footprint DEF Parted, Steps, Tears, LoneAll, Spares
  <2>1. /\ \A u \in Uploads \ {v} : Abs(u)' = Abs(u)
        /\ \/ Abs(v)' = Abs(v) \/ Abs(v)' = "disturbed"
           \/ Abs(v) = "none" /\ Abs(v)' = "active"
           \/ Abs(v) = "active" /\ Abs(v)' \in {"stored", "absent"}
    BY <1>2, <2>0, AbstractStep DEF LoneAll
  <2>2. s' = [s EXCEPT ![v] = Abs(v)'] /\ s[v] = Abs(v)
    BY <2>1
  <2>3. CASE Abs(v)' = Abs(v)
    BY <2>1, <2>3
  <2>4. CASE Abs(v) = "none" /\ Abs(v)' = "active"
    <3>1. Store!Begin(v)
      BY <2>2, <2>4 DEF Store!Begin, Abs
    <3> QED
      BY <3>1 DEF Store!Next
  <2>5. CASE Abs(v) = "active" /\ Abs(v)' \in {"stored", "absent"}
    <3>1. Store!End(v)
      BY <2>2, <2>5 DEF Store!End, Abs
    <3> QED
      BY <3>1 DEF Store!Next
  <2>6. CASE Abs(v)' = "disturbed"
    <3>1. Store!Disturb({v})
      BY <2>1, <2>6 DEF Store!Disturb, Abs
    <3>2. {v} \in SUBSET Uploads
      OBVIOUS
    <3> QED
      BY <3>1, <3>2 DEF Store!Next
  <2> QED
    BY <2>1, <2>3, <2>4, <2>5, <2>6
<1>3. CASE UNCHANGED vars
  <2>1. UNCHANGED <<path, file_list, file_ID_list, dir, data, up, crashes, torn>>
    BY <1>3 DEF vars, index, disk
  <2>2. \A u \in Uploads : Abs(u)' = Abs(u)
    BY <2>1 DEF Abs, AbstractState, Disturbed, Lone, InStore, Nowhere
  <2> QED
    BY <2>2
<1>4. Restart => Parted'
  BY CrashFacts DEF Parted, LoneAll
<1> QED
  BY <1>1, <1>2, <1>3, <1>4, NextSteps DEF LoneAll, Inv

(* The store implements AbstractStore: an upload that is alone at its path *)
(* ends with its whole file on the disk and in both indexes, or with       *)
(* nothing, whatever goes on at other paths, on whatever ports, and it     *)
(* stays so; unless another one's client came to it, two threads were in   *)
(* an index at once, or the server was started again.                      *)
THEOREM StoreRefinement == Spec => ImplementsStore
<1>1. Init => Store!Init
  <2> SUFFICES ASSUME Init, NEW u \in Uploads
               PROVE  (IF Disturbed(u) THEN "disturbed" ELSE AbstractState(u))
                        \in {"none", "disturbed"}
    BY DEF Store!Init
  <2>1. AbstractState(u) = "none"
    BY DEF Init, Upload, AbstractState
  <2> QED
    BY <2>1
<1>2. LoneAll /\ LoneAll' /\ [Next]_vars =>
        [Store!Next]_([u \in Uploads |->
                         IF Disturbed(u) THEN "disturbed" ELSE AbstractState(u)])
  BY StoreNext DEF Abs
<1>3. LoneAll /\ [Next]_vars => LoneAll'
  BY LoneAllNext
<1> QED
  BY <1>1, <1>2, <1>3, LoneAllInit, PTL DEF Spec, ImplementsStore, Store!Spec
=============================================================================
