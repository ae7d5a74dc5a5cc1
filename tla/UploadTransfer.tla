--------------------------- MODULE UploadTransfer ---------------------------
(***************************************************************************)
(* One upload over its own file-transfer connection: the client thread     *)
(* (ClientFileHandler.upload) sends the file chunk by chunk and waits for  *)
(* one "ack" line per chunk; the server thread                            *)
(* (ServerUploadHandler.receiveFile) reads a chunk, writes it to the       *)
(* stored file, acknowledges it, and compares the length of the stored     *)
(* file with the announced size.                                           *)
(*                                                                         *)
(* The stored file has a name nobody used before: several uploads, and     *)
(* uploads of a name that is taken, are the subject of FileStore.          *)
(***************************************************************************)
EXTENDS Integers, Sequences, Chunks

CONSTANTS
  FileSizes,    \* the announced sizes (upload?name?SIZE?...)
  ChunkSizes,   \* the chunk sizes getRandomChunkSize may return
  Askers        \* whose request the upload may answer: see asker

ASSUME SizesAssumption ==
  /\ FileSizes \subseteq Nat
  /\ ChunkSizes \subseteq Nat \ {0}
  /\ Askers \subseteq {"nobody", "mailbox", "no_mailbox"}

VARIABLES
  file_size, chunk_size,  \* agreed in the up_yes? reply, then constant
  asker,      \* isRequest and requestID: "nobody" asked for the file, or a
              \* student whose ID has a mailbox in message_list, or one who
              \* has none (initMessageList makes 121, login accepts others)
  cut,        \* may a read return less than what was written in one piece?
  cpc,        \* the client thread: "read", "ack", "final", "closed"
  pos,        \* how much of the file it has read
  c_chunks,   \* its n_chunks
  c_len,      \* the length of its chunk buffer
  report,     \* what it told the user
  spc,        \* the server thread: "reserve", "read", "check", "accept" or
              \* "delete", "release", "done" (it has closed the connection),
              \* "failed" (it has not)
  s_chunks,   \* its n_chunks
  s_len,      \* the length of its chunk buffer
  exists,     \* is there a stored file?
  disk,       \* the bytes of the stored file
  indexed,    \* is the file ID in file_list?
  reserved,   \* this upload's share of FILE_BUFFER
  noticed,    \* has the student who asked been sent the message?
  up,         \* bytes sent by the client and not read by the server
  down,       \* lines sent by the server and not read by the client
  reset       \* has the client's end answered with a TCP reset?

clientVars == <<cpc, pos, c_chunks, c_len, report>>
serverVars == <<spc, s_chunks, s_len, exists, disk, indexed, reserved, noticed>>
sizes == <<file_size, chunk_size, asker, cut>>
vars == <<sizes, clientVars, serverVars, up, down, reset>>

(* The length of the next buffer when n chunks are left.                   *)
NextLen(n) == IF n = 1 THEN LastChunk(file_size, chunk_size) ELSE chunk_size

Init ==
  /\ file_size \in FileSizes /\ chunk_size \in ChunkSizes /\ asker \in Askers
  /\ cut \in BOOLEAN
  /\ cpc = "read" /\ pos = 0 /\ report = "none"
  /\ c_chunks = NChunks(file_size, chunk_size) /\ c_len = chunk_size
  /\ spc = "reserve" /\ exists = FALSE /\ disk = <<>> /\ indexed = FALSE
  /\ s_chunks = NChunks(file_size, chunk_size) /\ s_len = chunk_size
  /\ reserved = 0 /\ noticed = FALSE
  /\ up = <<>> /\ down = <<>> /\ reset = FALSE

-----------------------------------------------------------------------------
(* The client thread.                                                      *)

ServerClosed == spc = "done"

(* The thread ends and closes its socket.  Closing with lines that were    *)
(* not read (or that are still on their way) makes the kernel answer with  *)
(* a reset instead of a FIN.                                               *)
ClientClose(words) ==
  /\ cpc' = "closed" /\ report' = words
  /\ reset' = (reset \/ down # <<>>)

(* in.read(chunk) fills up to c_len bytes; dos.write(chunk) sends all of   *)
(* the buffer.  A buffer of length 0 reads 0 bytes, even at the end of the *)
(* file.                                                                   *)
ClientSend ==
  /\ cpc = "read" /\ (pos < file_size \/ c_len = 0)
  /\ LET k == Smaller(c_len, file_size - pos) IN
       /\ up' = up \o FileBytes(pos + 1, pos + k) \o Pads(c_len - k)
       /\ pos' = pos + k
  /\ cpc' = "ack"
  /\ UNCHANGED <<sizes, c_chunks, c_len, report, serverVars, down, reset>>

(* Writing to a socket whose other end is closed may throw.                *)
ClientSendFails ==
  /\ cpc = "read" /\ (pos < file_size \/ c_len = 0) /\ ServerClosed
  /\ ClientClose("aborted")
  /\ UNCHANGED <<sizes, pos, c_chunks, c_len, serverVars, up, down>>

(* in.read returns -1: the whole file was sent.                            *)
ClientEof ==
  /\ cpc = "read" /\ pos = file_size /\ c_len > 0
  /\ cpc' = "final"
  /\ UNCHANGED <<sizes, pos, c_chunks, c_len, report, serverVars, up, down, reset>>

(* br.readLine() after a chunk: the line is not looked at.  It is null     *)
(* when the server has closed, and the loop goes on all the same.          *)
ClientAck ==
  /\ cpc = "ack"
  /\ \/ down # <<>> /\ down' = Tail(down)
     \/ down = <<>> /\ ServerClosed /\ UNCHANGED down
  /\ c_chunks' = c_chunks - 1
  /\ c_len' = NextLen(c_chunks - 1)
  /\ cpc' = "read"
  /\ UNCHANGED <<sizes, pos, report, serverVars, up, reset>>

(* The line after the loop: the two verdicts are told to the user, any     *)
(* other line is passed over in silence, null is a NullPointerException.   *)
Verdict(line) ==
  IF line = "up_done" THEN "success"
  ELSE IF line = "up_file_corrupt" THEN "mismatch" ELSE "silent"

ClientFinal ==
  /\ cpc = "final"
  /\ \/ /\ down # <<>>
        /\ down' = Tail(down)
        /\ cpc' = "closed"
        /\ reset' = (reset \/ Len(down) > 1)
        /\ report' = Verdict(Head(down))
     \/ /\ down = <<>> /\ ServerClosed
        /\ ClientClose("aborted") /\ UNCHANGED down
  /\ UNCHANGED <<sizes, pos, c_chunks, c_len, serverVars, up>>

(* Mutant: no timeout while the verdict is awaited.                        *)
ClientTimeoutOnlyOnAck ==
  /\ cpc = "ack"
  /\ ClientClose("aborted")
  /\ UNCHANGED <<sizes, pos, c_chunks, c_len, serverVars, up, down>>

(* setSoTimeout(30000): a readLine that waits too long throws.  The line   *)
(* it waits for may be on its way.  The exception handler tells the user   *)
(* that the file was removed, and closes the socket.                       *)
ClientTimeout ==
  /\ cpc \in {"ack", "final"}
  /\ ClientClose("aborted")
  /\ UNCHANGED <<sizes, pos, c_chunks, c_len, serverVars, up, down>>

(* The client process is closed or killed: its kernel closes the socket.   *)
ClientOffline ==
  /\ cpc # "closed"
  /\ ClientClose("offline")
  /\ UNCHANGED <<sizes, pos, c_chunks, c_len, serverVars, up, down>>

-----------------------------------------------------------------------------
(* The server thread.                                                      *)

Closed == cpc = "closed"

(* FILE_BUFFER += file_size, the two index entries, the output stream      *)
(* (which creates the file).                                               *)
ServerReserve ==
  /\ spc = "reserve"
  /\ reserved' = file_size /\ indexed' = TRUE
  /\ exists' = TRUE
  /\ spc' = "read"
  /\ UNCHANGED <<sizes, clientVars, s_chunks, s_len, disk, noticed, up, down, reset>>

(* Mutant: the read returns as soon as anything is there.                  *)
ReadLengthsAny == {n \in 0..Smaller(s_len, Len(up)) : n > 0 \/ s_len = 0}

(* The number of bytes in.read(chunk) may return now: at least one, unless *)
(* the buffer has no room, and all it can unless a read may be short.      *)
ReadLengths ==
  LET most == Smaller(s_len, Len(up)) IN
  {n \in 0..most : (n > 0 \/ s_len = 0) /\ (cut \/ n = most)}

(* One turn of the loop: whatever the read returned, the whole buffer is   *)
(* written to the file, one "ack" is sent and n_chunks goes down by one.  *)
(* An "ack" sent to a closed client is answered with a reset.             *)
ServerRead ==
  /\ spc = "read"
  /\ \E n \in ReadLengths :
       /\ disk' = disk \o SubSeq(up, 1, n) \o Pads(s_len - n)
       /\ up' = SubSeq(up, n + 1, Len(up))
  /\ down' = Append(down, "ack")
  /\ s_chunks' = s_chunks - 1
  /\ IF s_chunks = 1
       THEN spc' = "check" /\ UNCHANGED s_len
       ELSE spc' = "read" /\ s_len' = NextLen(s_chunks - 1)
  /\ reset' = (reset \/ Closed)
  /\ UNCHANGED <<sizes, clientVars, exists, indexed, reserved, noticed>>

(* in.read returns -1: the client closed and everything it sent was read.  *)
ServerEof ==
  /\ spc = "read" /\ s_len > 0
  /\ Closed /\ up = <<>>
  /\ spc' = "check"
  /\ UNCHANGED <<sizes, clientVars, s_chunks, s_len, exists, disk, indexed,
                 reserved, noticed, up, down, reset>>

(* Mutant: the exception handler forgets FILE_BUFFER.                      *)
GiveUpKeepingBuffer ==
  /\ indexed' = FALSE /\ exists' = FALSE /\ disk' = <<>>
  /\ spc' = "failed"
  /\ UNCHANGED <<sizes, clientVars, s_chunks, s_len, reserved, noticed, up, down, reset>>

(* The exception handler: it gives the reservation back and removes the    *)
(* index entries and the file.  It closes the listening socket and the     *)
(* file, never the connection to the client.                               *)
GiveUp ==
  /\ reserved' = 0 /\ indexed' = FALSE
  /\ exists' = FALSE /\ disk' = <<>>
  /\ spc' = "failed"
  /\ UNCHANGED <<sizes, clientVars, s_chunks, s_len, noticed, up, down, reset>>

(* Mutant: the lengths are not compared.                                   *)
ServerNotifiesAnyLength ==
  /\ spc = "check" /\ asker # "no_mailbox"
  /\ noticed' = (asker = "mailbox")
  /\ spc' = "accept"
  /\ UNCHANGED <<sizes, clientVars, s_chunks, s_len, exists, disk, indexed,
                 reserved, up, down, reset>>

(* file_size = file.length(): the message to the student who asked, if one *)
(* did and has a mailbox,                                                  *)
ServerNotifies ==
  /\ spc = "check" /\ Len(disk) = file_size /\ asker # "no_mailbox"
  /\ noticed' = (asker = "mailbox")
  /\ spc' = "accept"
  /\ UNCHANGED <<sizes, clientVars, s_chunks, s_len, exists, disk, indexed,
                 reserved, up, down, reset>>

(* and the verdict.                                                        *)
ServerAccepts ==
  /\ spc = "accept" /\ spc' = "release"
  /\ down' = Append(down, "up_done")
  /\ UNCHANGED <<sizes, clientVars, s_chunks, s_len, exists, disk, indexed,
                 reserved, noticed, up, reset>>

(* Mutant: the message is sent before the length is compared.              *)
ServerRejectsAfterNotice ==
  /\ spc = "check" /\ Len(disk) # file_size /\ spc' = "delete"
  /\ noticed' = (asker = "mailbox")
  /\ down' = Append(down, "up_file_corrupt")
  /\ UNCHANGED <<sizes, clientVars, s_chunks, s_len, exists, disk, indexed,
                 reserved, up, reset>>

(* Another length: the verdict,                                            *)
ServerRejects ==
  /\ spc = "check" /\ Len(disk) # file_size /\ spc' = "delete"
  /\ down' = Append(down, "up_file_corrupt")
  /\ UNCHANGED <<sizes, clientVars, s_chunks, s_len, exists, disk, indexed,
                 reserved, noticed, up, reset>>

(* then the file and its index entries are removed.                        *)
ServerDeletes ==
  /\ spc = "delete" /\ spc' = "release"
  /\ exists' = FALSE /\ disk' = <<>> /\ indexed' = FALSE
  /\ UNCHANGED <<sizes, clientVars, s_chunks, s_len, reserved, noticed, up,
                 down, reset>>

(* FILE_BUFFER -= file_size, and the connection is closed.                 *)
ServerReleases ==
  /\ spc = "release" /\ spc' = "done"
  /\ reserved' = 0
  /\ UNCHANGED <<sizes, clientVars, s_chunks, s_len, exists, disk, indexed,
                 noticed, up, down, reset>>

(* addMessage to a student without a mailbox is a NullPointerException, in *)
(* the scope of the same exception handler.                                *)
ServerCannotNotify ==
  /\ spc = "check" /\ Len(disk) = file_size /\ asker = "no_mailbox"
  /\ GiveUp

(* The file cannot be opened, or there is no connection to read from: the  *)
(* reservation and the entries were made, there is no file.                *)
ServerOpenFails ==
  /\ spc = "reserve"
  /\ GiveUp

(* in.read throws, connection reset.                                       *)
ServerReadFails ==
  /\ spc = "read" /\ s_len > 0 /\ Closed /\ reset
  /\ GiveUp

-----------------------------------------------------------------------------
Client == \/ ClientSend \/ ClientSendFails \/ ClientEof \/ ClientAck
          \/ ClientFinal \/ ClientTimeout
Server == \/ ServerReserve \/ ServerRead \/ ServerEof
          \/ ServerNotifies \/ ServerAccepts \/ ServerRejects
          \/ ServerDeletes \/ ServerReleases
          \/ ServerOpenFails \/ ServerCannotNotify \/ ServerReadFails
Next == Client \/ ClientOffline \/ Server

Spec == Init /\ [][Next]_vars

(* Both are threads the JVM schedules; the socket timeout bounds every     *)
(* wait of the client.  Nothing forces the user to go offline.             *)
FairSpec == Spec /\ WF_vars(Client) /\ WF_vars(Server)

-----------------------------------------------------------------------------
Lines == {"ack", "up_done", "up_file_corrupt"}
Reports == {"none", "success", "mismatch", "silent", "aborted", "offline"}

TypeOK ==
  /\ file_size \in FileSizes /\ chunk_size \in ChunkSizes /\ asker \in Askers
  /\ cut \in BOOLEAN
  /\ cpc \in {"read", "ack", "final", "closed"}
  /\ pos \in 0..file_size
  /\ c_chunks \in Int /\ c_len \in Nat
  /\ report \in Reports
  /\ spc \in {"reserve", "read", "check", "accept", "delete", "release",
              "done", "failed"}
  /\ s_chunks \in Nat /\ s_len \in Nat
  /\ exists \in BOOLEAN /\ indexed \in BOOLEAN /\ reset \in BOOLEAN
  /\ noticed \in BOOLEAN
  /\ disk \in Seq(Nat) /\ up \in Seq(Nat)
  /\ down \in Seq(Lines)
  /\ reserved \in Nat

ServerEnded == spc \in {"done", "failed"}

(* Whatever way the server thread ends (verdict, premature end of stream,  *)
(* reset, a message it cannot deliver), it has given its share of          *)
(* FILE_BUFFER back, and the index and the disk agree: both know the file, *)
(* of the announced length, or neither does.                               *)
AllOrNothing ==
  ServerEnded =>
    /\ reserved = 0
    /\ exists = indexed
    /\ exists => Len(disk) = file_size

Stored ==
  spc \in {"release", "done"} /\ exists /\ indexed /\ Len(disk) = file_size

(* A user who was told "Upload successful!" has a stored, indexed file     *)
(* of the announced length.                                                *)
SuccessIsStored ==
  report = "success" => Stored

(* The student who asked for the file is told of it exactly when it is     *)
(* there to be downloaded.                                                 *)
NoticeIffStored ==
  ServerEnded => (noticed <=> exists /\ asker # "nobody")

(* ... and, when every chunk arrives in one piece, with the client's bytes.*)
SuccessIsIntact ==
  report = "success" /\ ~cut => disk = FileBytes(1, file_size)

(* "All the files uploaded by this student will be stored in this          *)
(* directory" (README.md:5): also when it does not.                        *)
SuccessIsStoredFile ==
  report = "success" => disk = FileBytes(1, file_size)

(* A student can "Upload a file" (README.md:13): an upload the client saw  *)
(* to its end, with every chunk received in one piece, is not rejected.    *)
NoMismatch == ~cut => report # "mismatch"

(* "Upload Aborted...File Removed From Server" (ClientFileHandler.java:58).*)
AbortedIsRemoved == report = "aborted" /\ ServerEnded => ~exists

(* "When a requested file has been uploaded, the server sends a message to *)
(* the person who requested" (README.md:16): the file whose last chunk has *)
(* arrived is not thrown away because of that message.                     *)
RequestedUploadStored == spc = "failed" => s_chunks > 0

(* What the proofs of these facts carry along: the thread has its file and *)
(* its index entries while it works, n_chunks is positive while it reads;  *)
Working ==
  /\ spc = "reserve" => disk = <<>> /\ ~noticed
  /\ spc \in {"read", "check", "delete"} => exists /\ indexed /\ ~noticed
  /\ spc \in {"reserve", "read"} => s_chunks > 0

(* between the verdict and its end it has a file of the announced length,  *)
(* of which the student who asked was told, or none;                       *)
Decided ==
  /\ spc = "accept" => exists
  /\ spc \in {"accept", "release"} =>
       /\ exists = indexed
       /\ exists => Len(disk) = file_size
       /\ noticed <=> exists /\ asker # "nobody"

(* and an "up_done" line on its way stands for a stored file.              *)
DoneLineIsStored == \A i \in 1..Len(down) : down[i] = "up_done" => Stored

Inv == /\ Working /\ Decided /\ DoneLineIsStored
       /\ AllOrNothing /\ SuccessIsStored /\ NoticeIffStored

(* Every upload ends, on both sides: the server thread does not keep its   *)
(* reservation for ever once the client answers or closes.                 *)
UploadEnds == <>(ServerEnded /\ cpc = "closed")
=============================================================================
