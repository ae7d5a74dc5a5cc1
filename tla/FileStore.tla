------------------------------ MODULE FileStore ------------------------------
(***************************************************************************)
(* The server's files, and the uploads that go on at the same time.        *)
(*                                                                         *)
(* The command thread of a student checks that the upload fits beside the  *)
(* others (isBufferOverflow) and opens a listening socket on a random port *)
(* for it; a thread of its own then waits for the client, reserves its     *)
(* share of FILE_BUFFER, makes the two index entries, and appends what it  *)
(* receives to the file (Server lines 155-197, ServerUploadHandler).  None *)
(* of this is synchronized.                                                *)
(*                                                                         *)
(* UploadTransfer has the bytes and lines of one upload.  Here a transfer  *)
(* is a number of chunks, which all come whole, and the ways in which it   *)
(* may end before its last chunk.  A stored file is an inode, named by the *)
(* upload that created it: a thread that has a file open goes on writing   *)
(* to it after another one has deleted it.                                 *)
(***************************************************************************)
EXTENDS Integers, Sequences, FiniteSets, HashMaps

CONSTANTS
  Uploads,     \* the uploads; an upload is also its file ID
  Size,        \* their announced sizes, in chunks
  Paths,       \* owner/access/name
  PathChoices, \* the paths that they may have
  Ports,       \* what getRandomPort may return
  NoPort, NoUpload,
  MaxBuffer,   \* MAX_BUFFER
  MaxInt,      \* the largest int
  MaxCrashes   \* bound: how often the server ends and is started again

ASSUME StoreAssumption ==
  /\ IsFiniteSet(Uploads) /\ NoUpload \notin Uploads /\ NoPort \notin Ports
  /\ MaxInt \in Nat /\ MaxBuffer \in 1..MaxInt
  /\ Size \in [Uploads -> 0..MaxInt] /\ PathChoices \subseteq [Uploads -> Paths]
  /\ MaxCrashes \in Nat

VARIABLES
  path,          \* the path of each upload, fixed
  FILE_BUFFER,   \* the chunks reserved
  file_list,     \* file ID -> path, a partial function
  file_ID_list,  \* path -> file ID, a partial function
  dir,           \* the disk: path -> inode, a partial function
  data,          \* inode -> whose chunks it holds, in order
  up,            \* the uploads on the server
  client,        \* the uploads on their clients
  queue,         \* port -> the clients that wait to be accepted there
  crashes,
  lost,          \* history: the adds to FILE_BUFFER that were overwritten
  missed,        \* history: the adds that what a thread has read of
                 \* FILE_BUFFER, to write it back, does not contain
  torn           \* history: have two threads changed one of the indexes at
                 \* the same time since the server was started?

buffer == <<FILE_BUFFER, lost, missed>>
disk == <<dir, data>>
index == <<file_list, file_ID_list>>
vars == <<path, buffer, index, disk, up, client, queue, crashes, torn>>

(* An upload: where its threads are, its port, the client it accepted, the *)
(* FILE_BUFFER it has read to write it back, the chunks received, its file *)
(* and how it goes.                                                        *)
Upload(pc) == [pc |-> pc, port |-> NoPort, peer |-> NoUpload, read |-> 0,
               got |-> 0, inode |-> NoUpload, result |-> "none"]

Init ==
  /\ path \in PathChoices
  /\ FILE_BUFFER = 0 /\ file_list = EmptyMap /\ file_ID_list = EmptyMap
  /\ dir = EmptyMap /\ data = [u \in Uploads |-> <<>>]
  /\ up = [u \in Uploads |-> Upload("idle")]
  /\ client = [u \in Uploads |-> "idle"]
  /\ queue = [p \in Ports |-> <<>>]
  /\ crashes = 0
  /\ lost = {} /\ missed = [u \in Uploads |-> {}] /\ torn = FALSE

-----------------------------------------------------------------------------
(* int arithmetic: the sum of two ints.                                    *)
Add(a, b) ==
  LET n == MaxInt + 1 IN ((a + b + n) % (2 * n)) - n

Goto(u, pc) == up' = [up EXCEPT ![u].pc = pc]

(* The sockets that listen: an upload's is closed at its very end.         *)
Listens(u, p) == up[u].port = p /\ up[u].pc \notin {"idle", "unbound", "ended"}

(* "upload?...", "upload_req?...": isBufferOverflow.                       *)
Request(u) ==
  /\ up[u].pc = "idle"
  /\ IF Add(FILE_BUFFER, Size[u]) >= MaxBuffer
       THEN Goto(u, "refused") ELSE Goto(u, "bind")
  /\ UNCHANGED <<path, buffer, index, disk, client, queue, crashes>>

(* The listening socket, and the answer "up_yes?", which is sent even if   *)
(* the port was taken and there is no socket.                              *)
Bind(u) ==
  /\ up[u].pc = "bind"
  /\ \E p \in Ports :
       LET taken == \E v \in Uploads \ {u} : Listens(v, p) IN
       up' = [up EXCEPT ![u].port = p,
                        ![u].pc = IF taken THEN "unbound" ELSE "listen"]
  /\ client' = [client EXCEPT ![u] = "told"]
  /\ UNCHANGED <<path, buffer, index, disk, queue, crashes>>

(* The client connects to the port it was told, whoever listens there.     *)
Connect(u) ==
  /\ client[u] = "told"
  /\ IF \E v \in Uploads : Listens(v, up[u].port)
       THEN /\ client' = [client EXCEPT ![u] = "connected"]
            /\ queue' = [queue EXCEPT ![up[u].port] = Append(@, u)]
       ELSE /\ client' = [client EXCEPT ![u] = "refused"]
            /\ UNCHANGED queue
  /\ UNCHANGED <<path, buffer, index, disk, up, crashes>>

-----------------------------------------------------------------------------
(* The thread of the upload.                                               *)

Accept(u) ==
  /\ up[u].pc = "listen" /\ queue[up[u].port] # <<>>
  /\ LET p == up[u].port IN
       /\ up' = [up EXCEPT ![u].peer = Head(queue[p]), ![u].pc = "reserve"]
       /\ queue' = [queue EXCEPT ![p] = Tail(@)]
  /\ UNCHANGED <<path, buffer, index, disk, client, crashes>>

(* FILE_BUFFER += and FILE_BUFFER -=, of a plain static int: a read and a  *)
(* write.  An add that is written after the read is overwritten by the     *)
(* write.                                                                  *)
Adds == Uploads \X {"+", "-"}
Adding(v) == up[v].pc \in {"reserve2", "release2"}

ReadBuffer(u, pc) ==
  /\ up' = [up EXCEPT ![u].read = FILE_BUFFER, ![u].pc = pc]
  /\ missed' = [missed EXCEPT ![u] = lost]
  /\ UNCHANGED <<FILE_BUFFER, lost>>

WriteBuffer(u, sign, pc) ==
  /\ up' = [up EXCEPT ![u].read = 0, ![u].pc = pc]
  /\ FILE_BUFFER' = Add(up[u].read, IF sign = "+" THEN Size[u] ELSE -Size[u])
  /\ lost' = missed[u]
  /\ missed' = [v \in Uploads |-> IF v = u THEN {}
                                  ELSE IF Adding(v) THEN missed[v] \cup {<<u, sign>>}
                                  ELSE missed[v]]

ReserveRead(u) ==
  /\ up[u].pc = "reserve" /\ ReadBuffer(u, "reserve2")
  /\ UNCHANGED <<path, index, disk, client, queue, crashes>>

Reserve(u) ==
  /\ up[u].pc = "reserve2" /\ WriteBuffer(u, "+", "put")
  /\ UNCHANGED <<path, index, disk, client, queue, crashes>>

(* The steps at which a thread is about to change one of the indexes, or   *)
(* is changing it; the HashMaps are not synchronized.  Once two threads    *)
(* have been there together, nothing is certain any more: a change may     *)
(* take any entry with it, or not be one.                                  *)
AtFileList == {"put", "unlist"}
AtIDList == {"putid", "unlistid"}
Overlap ==
  \E u, v \in Uploads : u # v /\ \E S \in {AtFileList, AtIDList} :
    up[u].pc \in S /\ up[v].pc \in S
Changed(f, g) == IF torn THEN Spoilt(f, g) ELSE {g}

(* Mutant: the key and the value are swapped.                              *)
PutFileSwapped(u) ==
  /\ up[u].pc = "put"
  /\ file_list' \in Changed(file_list, Put(file_list, path[u], u))
  /\ Goto(u, "putid")
  /\ UNCHANGED <<path, buffer, file_ID_list, disk, client, queue, crashes>>

(* file_list and file_ID_list: two puts.                                   *)
PutFile(u) ==
  /\ up[u].pc = "put"
  /\ file_list' \in Changed(file_list, Put(file_list, u, path[u]))
  /\ Goto(u, "putid")
  /\ UNCHANGED <<path, buffer, file_ID_list, disk, client, queue, crashes>>

PutID(u) ==
  /\ up[u].pc = "putid"
  /\ file_ID_list' \in Changed(file_ID_list, Put(file_ID_list, path[u], u))
  /\ Goto(u, "open")
  /\ UNCHANGED <<path, buffer, file_list, disk, client, queue, crashes>>

(* new FileOutputStream(path, append): the file that is there, or a new    *)
(* one.                                                                    *)
Open(u) ==
  /\ up[u].pc = "open"
  /\ LET i == IF path[u] \in DOMAIN dir THEN dir[path[u]] ELSE u IN
       /\ dir' = Put(dir, path[u], i)
       /\ up' = [up EXCEPT ![u].inode = i, ![u].pc = "recv"]
  /\ UNCHANGED <<path, buffer, index, data, client, queue, crashes>>

(* A path that cannot be opened, or no client to read from: an exception.  *)
OpenFails(u) ==
  /\ up[u].pc = "open"
  /\ up' = [up EXCEPT ![u].result = "failed", ![u].pc = "release"]
  /\ UNCHANGED <<path, buffer, index, disk, client, queue, crashes>>

(* A chunk of the client that was accepted.                                *)
Receive(u) ==
  /\ up[u].pc = "recv"
  /\ up[u].got < Size[u] /\ up[u].got < Size[up[u].peer]
  /\ data' = [data EXCEPT ![up[u].inode] = Append(@, up[u].peer)]
  /\ up' = [up EXCEPT ![u].got = @ + 1,
                      ![u].pc = IF up[u].got + 1 = Size[u] THEN "check" ELSE "recv"]
  /\ UNCHANGED <<path, buffer, index, dir, client, queue, crashes>>

(* in.read returns -1: the client has gone, or given up.  Nothing says     *)
(* that it ever does: a read may wait for ever.                            *)
Eof(u) ==
  /\ up[u].pc = "recv" /\ Goto(u, "check")
  /\ UNCHANGED <<path, buffer, index, disk, client, queue, crashes>>

(* in.read throws: connection reset.                                       *)
ReadFails(u) ==
  /\ up[u].pc = "recv"
  /\ up' = [up EXCEPT ![u].result = "failed", ![u].pc = "release"]
  /\ UNCHANGED <<path, buffer, index, disk, client, queue, crashes>>

(* file.length(): that of the file that has the path now, 0 if none has.   *)
Length(p) == IF p \in DOMAIN dir THEN Len(data[dir[p]]) ELSE 0

Check(u) ==
  /\ up[u].pc = "check"
  /\ IF Length(path[u]) = Size[u]
       THEN up' = [up EXCEPT ![u].result = "stored", ![u].pc = "release"]
       ELSE up' = [up EXCEPT ![u].result = "corrupt", ![u].pc = "exists"]
  /\ UNCHANGED <<path, buffer, index, disk, client, queue, crashes>>

(* addMessage throws: the student who asked has no mailbox, or somebody    *)
(* else has just filled it.                                                *)
NotifyFails(u) ==
  /\ up[u].pc = "check" /\ Length(path[u]) = Size[u]
  /\ up' = [up EXCEPT ![u].result = "failed", ![u].pc = "release"]
  /\ UNCHANGED <<path, buffer, index, disk, client, queue, crashes>>

(* file.exists(): in the case of a wrong length the index entries go only  *)
(* if there is a file.                                                     *)
Exists(u) ==
  /\ up[u].pc = "exists"
  /\ Goto(u, IF path[u] \in DOMAIN dir THEN "delete"
             ELSE IF up[u].result = "failed" THEN "close" ELSE "release")
  /\ UNCHANGED <<path, buffer, index, disk, client, queue, crashes>>

(* Mutant: the exception handler leaves the file.                          *)
DeleteUnlessFailed(u) ==
  /\ up[u].pc = "delete"
  /\ dir' = IF up[u].result = "failed" THEN dir ELSE Without(dir, path[u])
  /\ Goto(u, IF up[u].result = "failed" THEN "close" ELSE "unlist")
  /\ UNCHANGED <<path, buffer, index, data, client, queue, crashes>>

(* file.delete(), whether the file is still there or not.                  *)
Delete(u) ==
  /\ up[u].pc = "delete"
  /\ dir' = Without(dir, path[u])
  /\ Goto(u, IF up[u].result = "failed" THEN "close" ELSE "unlist")
  /\ UNCHANGED <<path, buffer, index, data, client, queue, crashes>>

(* Mutant: the entry of file_list is left.                                 *)
RemoveNoFile(u) ==
  /\ up[u].pc = "unlist" /\ Goto(u, "unlistid")
  /\ UNCHANGED <<path, buffer, index, disk, client, queue, crashes>>

RemoveFile(u) ==
  /\ up[u].pc = "unlist"
  /\ file_list' \in Changed(file_list, Without(file_list, u))
  /\ Goto(u, "unlistid")
  /\ UNCHANGED <<path, buffer, file_ID_list, disk, client, queue, crashes>>

(* Mutant: the entry of file_ID_list is left.                              *)
RemoveNoID(u) ==
  /\ up[u].pc = "unlistid"
  /\ Goto(u, IF up[u].result = "failed" THEN "exists" ELSE "release")
  /\ UNCHANGED <<path, buffer, index, disk, client, queue, crashes>>

(* The exception handler deletes last what the check deletes first.        *)
RemoveID(u) ==
  /\ up[u].pc = "unlistid"
  /\ file_ID_list' \in Changed(file_ID_list, Without(file_ID_list, path[u]))
  /\ Goto(u, IF up[u].result = "failed" THEN "exists" ELSE "release")
  /\ UNCHANGED <<path, buffer, file_list, disk, client, queue, crashes>>

ReleaseRead(u) ==
  /\ up[u].pc = "release" /\ ReadBuffer(u, "release2")
  /\ UNCHANGED <<path, index, disk, client, queue, crashes>>

(* Mutant: the exception handler gives nothing back.                       *)
ReleaseUnlessFailed(u) ==
  /\ up[u].pc = "release2"
  /\ IF up[u].result = "failed" THEN Goto(u, "unlist") /\ UNCHANGED buffer
     ELSE WriteBuffer(u, "-", "close")
  /\ UNCHANGED <<path, index, disk, client, queue, crashes>>

(* The exception handler releases first.                                   *)
Release(u) ==
  /\ up[u].pc = "release2"
  /\ WriteBuffer(u, "-", IF up[u].result = "failed" THEN "unlist" ELSE "close")
  /\ UNCHANGED <<path, index, disk, client, queue, crashes>>

(* fileSocket.close(): who waits there is reset.                           *)
Close(u) ==
  /\ up[u].pc = "close" /\ Goto(u, "ended")
  /\ queue' = [queue EXCEPT ![up[u].port] = <<>>]
  /\ UNCHANGED <<path, buffer, index, disk, client, crashes>>

-----------------------------------------------------------------------------
(* The server process ends and is started again: what it kept in memory is *)
(* gone, what is on the disk is there.                                     *)
Restart ==
  /\ crashes < MaxCrashes /\ crashes' = crashes + 1
  /\ FILE_BUFFER' = 0 /\ file_list' = EmptyMap /\ file_ID_list' = EmptyMap
  /\ up' = [u \in Uploads |->
              IF up[u].pc \in {"idle", "refused", "unbound", "ended"} THEN up[u]
              ELSE [up[u] EXCEPT !.pc = "ended", !.result = "lost"]]
  /\ client' = [u \in Uploads |-> IF client[u] = "told" THEN "refused" ELSE client[u]]
  /\ queue' = [p \in Ports |-> <<>>]
  /\ lost' = {} /\ missed' = [u \in Uploads |-> {}] /\ torn' = FALSE
  /\ UNCHANGED <<path, disk>>

Thread(u) ==
  \/ Accept(u) \/ ReserveRead(u) \/ Reserve(u) \/ PutFile(u) \/ PutID(u)
  \/ Open(u) \/ OpenFails(u) \/ Receive(u) \/ Eof(u) \/ ReadFails(u) \/ Check(u)
  \/ NotifyFails(u) \/ Exists(u) \/ Delete(u) \/ RemoveFile(u) \/ RemoveID(u)
  \/ ReleaseRead(u) \/ Release(u) \/ Close(u)

Next ==
  \/ /\ \E u \in Uploads : Request(u) \/ Bind(u) \/ Connect(u) \/ Thread(u)
     /\ torn' = (torn \/ Overlap')
  \/ Restart

Spec == Init /\ [][Next]_vars

-----------------------------------------------------------------------------
Ended(u) == up[u].pc \in {"idle", "refused", "unbound", "ended"}

(* The uploads whose share of FILE_BUFFER is reserved.                     *)
Holders ==
  {u \in Uploads :
     \/ up[u].pc \in {"put", "putid", "open", "recv", "check", "release", "release2"}
     \/ /\ up[u].pc \in {"exists", "delete", "unlist", "unlistid"}
        /\ up[u].result = "corrupt"}

(* What they hold together: their chunks.                                  *)
ReservedBy(S) == UNION {{u} \X (1..Size[u]) : u \in S}
Chunks(S) == Cardinality(ReservedBy(S))
Reserved == Chunks(Holders)
Of(L, sign) == {u \in Uploads : <<u, sign>> \in L}

TypeOK ==
  /\ path \in PathChoices
  /\ FILE_BUFFER \in -(MaxInt + 1)..MaxInt
  /\ DOMAIN file_list \subseteq Uploads
  /\ \A u \in DOMAIN file_list : file_list[u] \in Paths
  /\ DOMAIN file_ID_list \subseteq Paths
  /\ \A p \in DOMAIN file_ID_list : file_ID_list[p] \in Uploads
  /\ DOMAIN dir \subseteq Paths
  /\ \A p \in DOMAIN dir : dir[p] \in Uploads
  /\ data \in [Uploads -> Seq(Uploads)]
  /\ up \in [Uploads ->
       [pc: {"idle", "refused", "bind", "unbound", "listen", "reserve", "reserve2",
             "put", "putid", "open", "recv", "check", "exists", "delete", "unlist",
             "unlistid", "release", "release2", "close", "ended"},
        port: Ports \cup {NoPort}, peer: Uploads \cup {NoUpload},
        read: -(MaxInt + 1)..MaxInt, got: 0..MaxInt,
        inode: Uploads \cup {NoUpload},
        result: {"none", "stored", "corrupt", "failed", "lost"}]]
  /\ client \in [Uploads -> {"idle", "told", "connected", "refused"}]
  /\ queue \in [Ports -> Seq(Uploads)]
  /\ crashes \in 0..MaxCrashes
  /\ lost \subseteq Adds /\ missed \in [Uploads -> SUBSET Adds]
  /\ torn \in BOOLEAN

(* FILE_BUFFER is what the uploads in progress have reserved, wrapped into *)
(* an int, but for the adds that others overwrote, and these are missing   *)
(* whole: every upload adds and subtracts its size once, on whatever way   *)
(* it ends (ServerUploadHandler lines 54, 106 and 120).                    *)
BufferAccounted ==
  FILE_BUFFER = Add(0, Reserved - Chunks(Of(lost, "+")) + Chunks(Of(lost, "-")))

(* Whatever uploads of whatever names overlap, the file ID that a listing  *)
(* shows for a path (file_ID_list, Server line 114) is one that a download *)
(* by ID finds (file_list, line 227), and it finds this path; but for the  *)
(* moment in which its own thread is between the two removals, and unless  *)
(* two threads were in one of the HashMaps at once.                        *)
ListedIdsResolve ==
  ~torn => \A p \in DOMAIN file_ID_list :
    LET u == file_ID_list[p] IN
      \/ u \in DOMAIN file_list /\ file_list[u] = p
      \/ up[u].pc = "unlistid" /\ path[u] = p

(* If the server was not restarted, a file nobody uploads has the length   *)
(* that one of its uploads announced and was told to be stored, whatever   *)
(* the uploads of its name did to each other: who comes last deletes it or *)
(* has checked it (ServerUploadHandler lines 87-104 and 129-132).  It is   *)
(* the list of "all the files uploaded by him/her" (README.md:9) that is   *)
(* made of these files.                                                    *)
KeptIsVerified ==
  crashes = 0 => \A p \in DOMAIN dir :
    (\A u \in Uploads : path[u] = p => Ended(u)) =>
      \E u \in Uploads :
        path[u] = p /\ up[u].result = "stored" /\ Length(p) = Size[u]

(* An upload that has a name of its own is not disturbed by any other, on  *)
(* whatever ports they are, unless it was another one's client that came   *)
(* to it: its file is whole, on the disk and in both indexes, or nothing   *)
(* is left of it, and once stored it stays.  Threads that change an index  *)
(* together may disturb all, and so may a restart.                         *)
Lone == {u \in Uploads : \A v \in Uploads : path[v] = path[u] => v = u}
Disturbed(u) ==
  u \notin Lone \/ up[u].peer \notin {u, NoUpload} \/ torn \/ crashes > 0
InStore(u) ==
  /\ path[u] \in DOMAIN dir /\ data[dir[path[u]]] = [i \in 1..Size[u] |-> u]
  /\ u \in DOMAIN file_list /\ file_list[u] = path[u]
  /\ path[u] \in DOMAIN file_ID_list /\ file_ID_list[path[u]] = u
Nowhere(u) ==
  /\ path[u] \notin DOMAIN dir
  /\ u \notin DOMAIN file_list /\ path[u] \notin DOMAIN file_ID_list

AbstractState(u) ==
  IF up[u].pc \in {"idle", "refused", "bind", "unbound", "listen"} THEN "none"
  ELSE IF up[u].pc # "ended" THEN "active"
  ELSE IF InStore(u) THEN "stored"
  ELSE IF Nowhere(u) THEN "absent" ELSE "broken"

Store == INSTANCE AbstractStore WITH
           state <- [u \in Uploads |->
                       IF Disturbed(u) THEN "disturbed" ELSE AbstractState(u)]
ImplementsStore == Store!Spec

(* "WARNING: server buffer overflow, try later!" (Server.java:187): later, *)
(* when nobody uploads anything, the buffer is free.                       *)
FreeAtRest == (\A u \in Uploads : Ended(u)) => FILE_BUFFER = 0

(* MAX_BUFFER is "100MB" (Server.java:24): the uploads in progress never   *)
(* hold that much,                                                         *)
BufferBounded == Reserved < MaxBuffer

(* and one that is as large is never accepted.                             *)
HugeIsRefused ==
  \A u \in Uploads : up[u].pc \notin {"idle", "refused"} => Size[u] < MaxBuffer

(* "All the files uploaded by this student will be stored in this          *)
(* directory" (README.md:5): a file that was stored stays there,           *)
StoredStays ==
  [][\A u \in Uploads : up[u].result = "stored" /\ path[u] \in DOMAIN dir
       => path[u] \in DOMAIN dir']_vars

(* and it is what this student's client sent.                              *)
StoredIsOwn ==
  \A u \in Uploads : up[u].pc = "ended" /\ up[u].result = "stored" =>
    \A i \in 1..Len(data[up[u].inode]) : data[up[u].inode][i] = u

(* "Look up the list of all the files ... uploaded by him/her and download *)
(* any of these files" (README.md:9): a listed file has a file ID.         *)
ListedHasID ==
  \A p \in DOMAIN dir :
    (\A u \in Uploads : path[u] = p => Ended(u)) => p \in DOMAIN file_ID_list
=============================================================================
