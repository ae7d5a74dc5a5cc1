-------------------------- MODULE DownloadTransfer --------------------------
(***************************************************************************)
(* One download over its own file-transfer connection: the server thread   *)
(* (ServerDownloadHandler.sendFile) sends the file chunk by chunk and      *)
(* tells the student about it on his command connection; the client thread *)
(* (ClientFileHandler.receive) appends what it reads to the file of that   *)
(* name in Downloads.                                                      *)
(*                                                                         *)
(* The size was taken from the file when the download was asked for; an    *)
(* upload of the same name may since then have made the file longer, or    *)
(* deleted it.                                                             *)
(***************************************************************************)
EXTENDS Integers, Sequences, Chunks

CONSTANTS
  FileSizes,   \* the sizes of files when they are asked for
  ChunkSizes,  \* what MAX_CHUNK_SIZE may be
  OldSizes,    \* what Downloads may have under the name of the file
  MaxGrowth,   \* bound: the bytes an upload adds meanwhile
  Deletes      \* may the file be deleted meanwhile?

ASSUME DownloadAssumption ==
  /\ FileSizes \subseteq Nat /\ ChunkSizes \subseteq Nat \ {0}
  /\ OldSizes \subseteq Nat /\ MaxGrowth \in Nat
  /\ Deletes \in BOOLEAN

VARIABLES
  file_size, chunk_size, old,  \* fixed by the request
  cut,       \* may a read return less than what was written in one piece?
  length,    \* how long the stored file is now
  exists,    \* is it still there?
  spc,       \* the server thread: "accept", "open", "send", "close", "told",
             \* or "failed"
  s_chunks, s_len,  \* its n_chunks and the length of its chunk buffer
  pos,       \* how much of the file it has read
  messages,  \* what it sent to the student's command connection
  cpc,       \* the client thread: "connect", "recv", "closed", "offline"
  c_chunks, c_len,  \* its n_chunks and the length of its chunk buffer
  saved,     \* the file in Downloads
  down       \* bytes sent by the server and not read by the client

request == <<file_size, chunk_size, old, cut>>
file == <<length, exists>>
serverVars == <<spc, s_chunks, s_len, pos, messages>>
clientVars == <<cpc, c_chunks, c_len, saved>>
vars == <<request, file, serverVars, clientVars, down>>

(* The bytes of an earlier file of the same name.                          *)
OldBytes(n) == [i \in 1..n |-> -i]

NextLen(n) == IF n = 1 THEN LastChunk(file_size, chunk_size) ELSE chunk_size

Init ==
  /\ file_size \in FileSizes /\ chunk_size \in ChunkSizes /\ old \in OldSizes
  /\ cut \in BOOLEAN
  /\ length = file_size /\ exists = TRUE
  /\ spc = "accept" /\ pos = 0 /\ messages = <<>>
  /\ s_chunks = NChunks(file_size, chunk_size) /\ s_len = chunk_size
  /\ cpc = "connect" /\ saved = OldBytes(old)
  /\ c_chunks = NChunks(file_size, chunk_size) /\ c_len = chunk_size
  /\ down = <<>>

-----------------------------------------------------------------------------
(* Other uploads of the file that is sent.                                 *)
Grow ==
  /\ exists /\ length < file_size + MaxGrowth
  /\ length' = length + 1
  /\ UNCHANGED <<request, exists, serverVars, clientVars, down>>

DeleteFile ==
  /\ Deletes /\ exists /\ exists' = FALSE
  /\ UNCHANGED <<request, length, serverVars, clientVars, down>>

-----------------------------------------------------------------------------
(* The server thread.                                                      *)

Accept ==
  /\ spc = "accept" /\ cpc # "connect"
  /\ spc' = "open"
  /\ UNCHANGED <<request, file, s_chunks, s_len, pos, messages, clientVars, down>>

(* The exception handler closes the listening socket and nothing else.     *)
Fail ==
  /\ spc' = "failed" /\ messages' = Append(messages, "failed")
  /\ UNCHANGED <<request, file, s_chunks, s_len, pos, clientVars, down>>

Open ==
  /\ spc = "open" /\ exists
  /\ spc' = "send" /\ messages' = Append(messages, "started")
  /\ UNCHANGED <<request, file, s_chunks, s_len, pos, clientVars, down>>

OpenFails == spc = "open" /\ ~exists /\ Fail

(* Mutant: the loop ends at the end of the file, and is not left there     *)
(* with an empty buffer.                                                   *)
SendUntilEnd ==
  /\ spc = "send" /\ pos < length
  /\ LET k == Smaller(s_len, length - pos) IN
       /\ down' = IF cpc = "recv"
                    THEN down \o FileBytes(pos + 1, pos + k) \o Pads(s_len - k)
                    ELSE down
       /\ pos' = pos + k
  /\ s_chunks' = s_chunks - 1 /\ s_len' = NextLen(s_chunks - 1)
  /\ UNCHANGED <<request, file, spc, messages, clientVars>>

(* in.read and dos.write of a whole buffer.  A buffer of length 0 reads 0  *)
(* bytes, even at the end of the file.  A file that was deleted can be     *)
(* read to its end by whoever has it open.                                 *)
Send ==
  /\ spc = "send" /\ (pos < length \/ s_len = 0)
  /\ LET k == Smaller(s_len, length - pos) IN
       /\ down' = IF cpc = "recv"
                    THEN down \o FileBytes(pos + 1, pos + k) \o Pads(s_len - k)
                    ELSE down
       /\ pos' = pos + k
  /\ s_chunks' = s_chunks - 1 /\ s_len' = NextLen(s_chunks - 1)
  /\ UNCHANGED <<request, file, spc, messages, clientVars>>

(* Writing to a connection whose other end has gone may throw.             *)
SendFails == spc = "send" /\ (pos < length \/ s_len = 0) /\ cpc = "offline" /\ Fail

(* in.read returns -1: the connection is closed.                           *)
SendEof ==
  /\ spc = "send" /\ pos = length /\ s_len > 0
  /\ spc' = "close"
  /\ UNCHANGED <<request, file, s_chunks, s_len, pos, messages, clientVars, down>>

(* Mutant: the wrong message.                                              *)
TellFailure ==
  /\ spc = "close" /\ spc' = "told"
  /\ messages' = Append(messages, "failed")
  /\ UNCHANGED <<request, file, s_chunks, s_len, pos, clientVars, down>>

(* 50 ms later the student is told, whatever has become of the bytes.      *)
Tell ==
  /\ spc = "close" /\ spc' = "told"
  /\ messages' = Append(messages, "successful")
  /\ UNCHANGED <<request, file, s_chunks, s_len, pos, clientVars, down>>

-----------------------------------------------------------------------------
(* The client.                                                             *)

Connect ==
  /\ cpc = "connect" /\ cpc' = "recv"
  /\ UNCHANGED <<request, file, serverVars, c_chunks, c_len, saved, down>>

ReadLengths ==
  LET most == Smaller(c_len, Len(down)) IN
  {n \in 0..most : (n > 0 \/ c_len = 0) /\ (cut \/ n = most)}

(* Mutant: the bytes are written without the buffer's end, and the first   *)
(* of them is lost.                                                        *)
ReceiveTail ==
  /\ cpc = "recv"
  /\ \E n \in ReadLengths :
       /\ saved' = saved \o SubSeq(down, 2, n) \o Pads(c_len - n)
       /\ down' = SubSeq(down, n + 1, Len(down))
  /\ c_chunks' = c_chunks - 1 /\ c_len' = NextLen(c_chunks - 1)
  /\ UNCHANGED <<request, file, serverVars, cpc>>

Receive ==
  /\ cpc = "recv"
  /\ \E n \in ReadLengths :
       /\ saved' = saved \o SubSeq(down, 1, n) \o Pads(c_len - n)
       /\ down' = SubSeq(down, n + 1, Len(down))
  /\ c_chunks' = c_chunks - 1 /\ c_len' = NextLen(c_chunks - 1)
  /\ UNCHANGED <<request, file, serverVars, cpc>>

(* in.read returns -1.                                                     *)
ReceiveEof ==
  /\ cpc = "recv" /\ c_len > 0
  /\ down = <<>> /\ spc \in {"close", "told"}
  /\ cpc' = "closed"
  /\ UNCHANGED <<request, file, serverVars, c_chunks, c_len, saved, down>>

(* The client process is closed: what was on its way to it is gone.        *)
Leave ==
  /\ cpc = "recv" /\ cpc' = "offline" /\ down' = <<>>
  /\ UNCHANGED <<request, file, serverVars, c_chunks, c_len, saved>>

-----------------------------------------------------------------------------
Server == Accept \/ Open \/ OpenFails \/ Send \/ SendFails \/ SendEof \/ Tell
Client == Connect \/ Receive \/ ReceiveEof
Next == Server \/ Client \/ Leave \/ Grow \/ DeleteFile

Spec == Init /\ [][Next]_vars

(* Both are threads; nothing makes a student leave.                        *)
FairSpec == Spec /\ WF_vars(Server) /\ WF_vars(Client)

-----------------------------------------------------------------------------
TypeOK ==
  /\ file_size \in FileSizes /\ chunk_size \in ChunkSizes /\ old \in OldSizes
  /\ cut \in BOOLEAN
  /\ length \in file_size..(file_size + MaxGrowth) /\ exists \in BOOLEAN
  /\ spc \in {"accept", "open", "send", "close", "told", "failed"}
  /\ s_chunks \in Int /\ s_len \in Nat /\ pos \in 0..length
  /\ messages \in Seq({"started", "successful", "failed"})
  /\ cpc \in {"connect", "recv", "closed", "offline"}
  /\ c_chunks \in Int /\ c_len \in Nat
  /\ saved \in Seq(Int) /\ down \in Seq(Int)

(* The bytes 1 to n, each once, in their order, among others that are none.*)
InOrder(s, n) ==
  /\ \A i \in 1..Len(s) : s[i] <= n
  /\ \A b \in 1..n : \E i \in 1..Len(s) : s[i] = b
  /\ \A i, j \in 1..Len(s) : i < j /\ s[i] > 0 /\ s[j] > 0 => s[i] < s[j]

(* However the stream is cut into reads, and however the file grows while  *)
(* it is sent: the client has saved, or will, every byte the server has    *)
(* read, once and in their order; what the whole-buffer writes of the two  *)
(* loops (ServerDownloadHandler line 59, ClientFileHandler line 83) add is *)
(* padding only.                                                           *)
NoByteLost == cpc \in {"recv", "closed"} => InOrder(saved \o down, pos)

(* A file of at least one chunk that nobody changes meanwhile is saved as  *)
(* it is, if every chunk arrives in one piece.                             *)
Unchanged == length = file_size
LargeIsIntact ==
  cpc = "closed" /\ ~cut /\ Unchanged /\ file_size >= chunk_size =>
    saved = OldBytes(old) \o FileBytes(1, file_size)

(* What is saved is never less than the file, and the student who has all  *)
(* of it is told so, not that it failed.                                   *)
ClosedIsToldSuccess ==
  cpc = "closed" => /\ Len(saved) >= old + file_size
                    /\ messages \in {<<"started">>, <<"started", "successful">>}

(* The server thread ends, whatever becomes of file and client.            *)
ServerEnds == cpc # "connect" ~> spc \in {"told", "failed"}

(* "Look up the list of all the files ... and download any of these files" *)
(* (README.md:9): who is told that the download was successful has the     *)
(* file, when nobody has changed it meanwhile.                             *)
DownloadIsFile ==
  cpc = "closed" /\ spc = "told" /\ Unchanged => saved = FileBytes(1, file_size)

(* ... and a download that was begun ends, on the client too, unless the   *)
(* student leaves.                                                         *)
ClientEnds == <>(cpc \in {"closed", "offline"})
=============================================================================
