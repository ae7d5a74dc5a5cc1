------------------------ MODULE UploadTransferProofs ------------------------
(***************************************************************************)
(* What UploadTransfer promises for every file size, chunk size and way of *)
(* splitting the reads.                                                    *)
(***************************************************************************)
EXTENDS UploadTransfer, TLAPS

(* The size of the last chunk is a remainder: it is a natural number       *)
(* smaller than the chunk size (the arithmetic of ServerUploadHandler      *)
(* lines 50-52 and ClientFileHandler lines 27-29).                         *)
LEMMA ChunkArithmetic ==
  ASSUME NEW size \in Nat, NEW chunk \in Nat \ {0}
  PROVE  /\ LastChunk(size, chunk) \in Nat
         /\ NChunks(size, chunk) \in Nat \ {0}
         /\ size < chunk => NChunks(size, chunk) = 1
<1>1. /\ size \div chunk \in Nat
      /\ size = chunk * (size \div chunk) + (size % chunk)
      /\ size % chunk \in 0..(chunk - 1)
  BY Z3
<1>2. size < chunk => size \div chunk = 0
  BY Z3
<1> QED
  BY <1>1, <1>2 DEF LastChunk, NChunks

(* Reading, acknowledging and padding build sequences of bytes.            *)
LEMMA BytesTyping ==
  /\ \A n \in Int : Pads(n) \in Seq(Nat) /\ (n \in Nat => Len(Pads(n)) = n)
  /\ \A i, j \in Nat : FileBytes(i, j) \in Seq(Nat)
<1>1. ASSUME NEW n \in Int PROVE Pads(n) \in Seq(Nat) /\ (n \in Nat => Len(Pads(n)) = n)
  BY DEF Pads, Pad
<1>2. ASSUME NEW i \in Nat, NEW j \in Nat PROVE FileBytes(i, j) \in Seq(Nat)
  BY DEF FileBytes
<1> QED
  BY <1>1, <1>2

(* No bytes are a sequence of bytes,                                      *)
LEMMA EmptyBytes == <<>> \in Seq(Nat)
OBVIOUS

(* and no lines one of lines.                                             *)
LEMMA EmptyLines == <<>> \in Seq(Lines)
OBVIOUS

-----------------------------------------------------------------------------

(* Nothing was sent or stored.                                            *)
LEMMA InitInv == Init => TypeOK /\ Inv
<1> SUFFICES ASSUME Init PROVE TypeOK /\ Inv
  OBVIOUS
<1>1. file_size \in Nat /\ chunk_size \in Nat \ {0}
  BY SizesAssumption DEF Init
<1>2. /\ NChunks(file_size, chunk_size) \in Nat \ {0}
      /\ file_size < chunk_size => NChunks(file_size, chunk_size) = 1
  BY <1>1, ChunkArithmetic
<1>3. TypeOK
  <2>1. 0 \in 0..file_size
    BY <1>1
  <2>2. disk \in Seq(Nat) /\ up \in Seq(Nat) /\ down \in Seq(Lines)
    BY EmptyBytes, EmptyLines DEF Init
  <2>3. s_chunks \in Nat /\ c_chunks \in Int /\ s_len \in Nat /\ c_len \in Nat
    BY <1>1, <1>2 DEF Init
  <2> QED
    BY <2>1, <2>2, <2>3 DEF Init, TypeOK, Reports
<1>4. Inv
  BY <1>1, <1>2 DEF Init, Inv, Working, Decided, DoneLineIsStored, AllOrNothing,
                    SuccessIsStored, NoticeIffStored, ServerEnded
<1> QED
  BY <1>3, <1>4

(* The two sizes in every state, and the length of the next buffer.        *)
LEMMA SizesTyping ==
  ASSUME TypeOK
  PROVE  /\ file_size \in Nat /\ chunk_size \in Nat \ {0}
         /\ \A n \in Int : NextLen(n) \in Nat
<1>1. file_size \in Nat /\ chunk_size \in Nat \ {0}
  BY SizesAssumption DEF TypeOK
<1>2. LastChunk(file_size, chunk_size) \in Nat
  BY <1>1, ChunkArithmetic
<1> QED
  BY <1>1, <1>2 DEF NextLen

(* A step of the client leaves the server's side of the invariant alone:   *)
(* it remains to see to the lines it has not read and to its report.       *)
LEMMA ClientKeepsInv ==
  ASSUME Inv, UNCHANGED <<sizes, serverVars>>,
         DoneLineIsStored', SuccessIsStored'
  PROVE  Inv'
<1>1. /\ file_size' = file_size /\ chunk_size' = chunk_size
      /\ spc' = spc /\ s_chunks' = s_chunks /\ s_len' = s_len
      /\ exists' = exists /\ disk' = disk /\ indexed' = indexed
      /\ reserved' = reserved /\ noticed' = noticed /\ asker' = asker
  BY DEF sizes, serverVars
<1> QED
  BY <1>1 DEF Inv, Working, Decided, AllOrNothing, NoticeIffStored, ServerEnded

(* The steps of the client (ClientFileHandler 31-68).                     *)
LEMMA ClientStepInv ==
  ASSUME TypeOK, Inv, Client \/ ClientOffline
  PROVE  TypeOK' /\ Inv'
<1>1. /\ UNCHANGED <<sizes, serverVars>>
      /\ Stored' = Stored
  BY DEF Client, ClientSend, ClientSendFails, ClientEof, ClientAck, ClientFinal,
         ClientTimeout, ClientOffline, ClientClose, serverVars, sizes, Stored
<1>2. pos' \in 0..file_size /\ up' \in Seq(Nat)
  <2>1. CASE ClientSend
    <3> DEFINE k == Smaller(c_len, file_size - pos)
    <3>1. file_size \in Nat /\ c_len \in Nat /\ pos \in 0..file_size /\ up \in Seq(Nat)
      BY SizesTyping DEF TypeOK
    <3>2. k \in Nat /\ k <= file_size - pos /\ k <= c_len
      BY <3>1 DEF Smaller
    <3>3. pos' = pos + k /\ up' = up \o FileBytes(pos + 1, pos + k) \o Pads(c_len - k)
      BY <2>1 DEF ClientSend
    <3> HIDE DEF k
    <3>4. FileBytes(pos + 1, pos + k) \in Seq(Nat) /\ Pads(c_len - k) \in Seq(Nat)
      <4>1. pos + 1 \in Nat /\ pos + k \in Nat /\ c_len - k \in Int
        BY <3>1, <3>2
      <4> QED
        BY <4>1, BytesTyping
    <3>5. up' \in Seq(Nat)
      BY <3>1, <3>3, <3>4
    <3>6. pos' \in 0..file_size
      BY <3>1, <3>2, <3>3
    <3> QED
      BY <3>5, <3>6
  <2>2. CASE ~ClientSend
    BY <2>2 DEF Client, ClientSendFails, ClientEof, ClientAck, ClientFinal,
                ClientTimeout, ClientOffline, TypeOK
  <2> QED
    BY <2>1, <2>2
<1>3. c_chunks' \in Int /\ c_len' \in Nat
  <2>1. \/ c_chunks' = c_chunks /\ c_len' = c_len
        \/ c_chunks' = c_chunks - 1 /\ c_len' = NextLen(c_chunks - 1)
    BY DEF Client, ClientSend, ClientSendFails, ClientEof, ClientAck,
           ClientFinal, ClientTimeout, ClientOffline
  <2>2. c_chunks \in Int /\ c_len \in Nat
    BY DEF TypeOK
  <2>3. c_chunks - 1 \in Int
    BY <2>2
  <2> QED
    BY <2>1, <2>2, <2>3, SizesTyping
<1>4. /\ cpc' \in {"read", "ack", "final", "closed"}
      /\ reset' \in BOOLEAN
  BY DEF Client, ClientSend, ClientSendFails, ClientEof, ClientAck, ClientFinal,
         ClientTimeout, ClientOffline, ClientClose, TypeOK
<1>5. down' = down \/ (down # <<>> /\ down' = Tail(down))
  BY DEF Client, ClientSend, ClientSendFails, ClientEof, ClientAck, ClientFinal,
         ClientTimeout, ClientOffline
<1>6. down' \in Seq(Lines) /\ DoneLineIsStored'
  <2>1. down \in Seq(Lines) /\ \A i \in 1..Len(down) : down[i] = "up_done" => Stored
    BY DEF TypeOK, Inv, DoneLineIsStored
  <2>2. down' \in Seq(Lines) /\ \A i \in 1..Len(down') : down'[i] = "up_done" => Stored
    BY <1>5, <2>1
  <2> QED
    BY <1>1, <2>2 DEF DoneLineIsStored
<1>7. report' \in Reports /\ SuccessIsStored'
  <2>1. CASE ClientFinal
    <3>1. down # <<>> => Head(down) = down[1] /\ 1 \in 1..Len(down)
      BY DEF TypeOK
    <3>2. report' \in Reports /\ (report' = "success" => Stored)
      BY <2>1, <3>1 DEF ClientFinal, ClientClose, Verdict, Reports, Inv, DoneLineIsStored
    <3> QED
      BY <1>1, <3>2 DEF SuccessIsStored
  <2>2. CASE ~ClientFinal
    <3>1. report' = report \/ report' \in {"aborted", "offline"}
      BY <2>2 DEF Client, ClientSend, ClientSendFails, ClientEof, ClientAck,
                  ClientTimeout, ClientOffline, ClientClose
    <3> QED
      BY <1>1, <3>1 DEF SuccessIsStored, Inv, TypeOK, Reports
  <2> QED
    BY <2>1, <2>2
<1>8. TypeOK'
  BY <1>1, <1>2, <1>3, <1>4, <1>6, <1>7 DEF TypeOK, sizes, serverVars
<1>9. Inv'
  BY <1>1, <1>6, <1>7, ClientKeepsInv
<1> QED
  BY <1>8, <1>9

-----------------------------------------------------------------------------

(* Every way of giving a file up leaves nothing behind, and that is a      *)
(* state the invariant allows.                                             *)
LEMMA EmptyDisk ==
  ASSUME disk' = <<>>, exists' = FALSE, indexed' = FALSE
  PROVE  disk' \in Seq(Nat) /\ exists' \in BOOLEAN /\ indexed' \in BOOLEAN
<1>1. disk' \in Seq(Nat)
  BY EmptyBytes
<1>2. exists' \in BOOLEAN /\ indexed' \in BOOLEAN
  BY Zenon
<1> QED
  BY <1>1, <1>2

(* Of a file that is not there nothing is claimed.                        *)
LEMMA EmptyDiskInv ==
  ASSUME exists' = FALSE, indexed' = FALSE, noticed' = noticed, ~noticed,
         \/ spc' = "failed" /\ reserved' = 0
         \/ spc' = "release" /\ reserved' = reserved
  PROVE  Working' /\ Decided' /\ AllOrNothing' /\ NoticeIffStored'
<1>1. ~noticed' /\ ~exists' /\ ~indexed'
  OBVIOUS
<1> QED
  BY <1>1 DEF Working, Decided, AllOrNothing, NoticeIffStored, ServerEnded

(* The steps of the server's thread (ServerUploadHandler 27-145), one by  *)
(* one.                                                                   *)
LEMMA ServerStepInv ==
  ASSUME TypeOK, Inv, Server
  PROVE  TypeOK' /\ Inv'
<1>1. UNCHANGED <<sizes, clientVars>>
  BY DEF Server, ServerReserve, ServerRead, ServerEof, ServerNotifies,
         ServerAccepts, ServerRejects, ServerDeletes, ServerReleases, ServerOpenFails,
         ServerCannotNotify, ServerReadFails, GiveUp
<1>2. /\ file_size' = file_size /\ chunk_size' = chunk_size /\ asker' = asker
      /\ cut' = cut
      /\ cpc' = cpc /\ pos' = pos /\ c_chunks' = c_chunks /\ c_len' = c_len
      /\ report' = report
  BY <1>1 DEF sizes, clientVars
<1>3. spc \in {"reserve", "read", "check", "accept", "delete", "release"}
  BY DEF Server, ServerReserve, ServerRead, ServerEof, ServerNotifies,
         ServerAccepts, ServerRejects, ServerDeletes, ServerReleases, ServerOpenFails,
         ServerCannotNotify, ServerReadFails
<1>4. /\ spc # "release" => report # "success"
      /\ spc # "release" => \A i \in 1..Len(down) : down[i] # "up_done"
      /\ spc \in {"reserve", "read", "check", "delete"} => ~noticed
  BY <1>3 DEF Inv, Working, SuccessIsStored, DoneLineIsStored, Stored
<1>5. SuccessIsStored'
  <2>1. ASSUME spc = "release" PROVE Stored => Stored'
    BY <1>2, <2>1 DEF Server, ServerReserve, ServerRead, ServerEof, ServerNotifies,
       ServerAccepts, ServerRejects, ServerDeletes, ServerReleases, ServerOpenFails,
       ServerCannotNotify, ServerReadFails, Stored
  <2> QED
    BY <1>2, <1>4, <2>1 DEF SuccessIsStored, Inv
<1>6. CASE ServerReserve
  <2>1. TypeOK'
    BY <1>2, <1>6, SizesTyping DEF ServerReserve, TypeOK
  <2>2. Working' /\ Decided' /\ AllOrNothing' /\ NoticeIffStored'
    BY <1>2, <1>6 DEF ServerReserve, Inv, Working, Decided, AllOrNothing,
                      NoticeIffStored, ServerEnded
  <2>3. DoneLineIsStored'
    BY <1>4, <1>6 DEF ServerReserve, DoneLineIsStored
  <2> QED
    BY <1>5, <2>1, <2>2, <2>3 DEF Inv
<1>7. CASE ServerRead
  <2>1. PICK n \in ReadLengths :
             /\ disk' = disk \o SubSeq(up, 1, n) \o Pads(s_len - n)
             /\ up' = SubSeq(up, n + 1, Len(up))
    BY <1>7 DEF ServerRead
  <2>2. n \in Nat /\ n <= s_len /\ n <= Len(up)
    BY DEF ReadLengths, Smaller, TypeOK
  <2>3. /\ SubSeq(up, 1, n) \in Seq(Nat) /\ Len(SubSeq(up, 1, n)) = n
        /\ up' \in Seq(Nat)
    BY <2>1, <2>2 DEF TypeOK
  <2>4. s_len - n \in Nat
    BY <2>2 DEF TypeOK
  <2>5. Pads(s_len - n) \in Seq(Nat) /\ Len(Pads(s_len - n)) = s_len - n
    BY <2>4, BytesTyping
  <2>6. disk' \in Seq(Nat) /\ Len(disk') = Len(disk) + s_len
    <3>1. disk \in Seq(Nat) /\ s_len \in Nat
      BY DEF TypeOK
    <3>2. /\ disk \o SubSeq(up, 1, n) \in Seq(Nat)
          /\ Len(disk \o SubSeq(up, 1, n)) = Len(disk) + n
      BY <2>3, <3>1
    <3>3. /\ (disk \o SubSeq(up, 1, n)) \o Pads(s_len - n) \in Seq(Nat)
          /\ Len((disk \o SubSeq(up, 1, n)) \o Pads(s_len - n))
               = Len(disk) + n + (s_len - n)
      BY <2>5, <3>2
    <3>4. Len(disk) + n + (s_len - n) = Len(disk) + s_len
      BY <2>2, <3>1
    <3> QED
      BY <2>1, <3>3, <3>4
  <2>7. /\ s_chunks' \in Nat /\ s_len' \in Nat
        /\ spc' \in {"read", "check"} /\ (spc' = "read" => s_chunks' > 0)
    <3>1. s_chunks \in Nat /\ s_chunks > 0 /\ s_len \in Nat /\ spc = "read"
      BY <1>7 DEF ServerRead, TypeOK, Inv, Working
    <3>2. /\ s_chunks' = s_chunks - 1
          /\ s_chunks = 1 => spc' = "check" /\ s_len' = s_len
          /\ s_chunks # 1 => spc' = "read" /\ s_len' = NextLen(s_chunks - 1)
      BY <1>7 DEF ServerRead
    <3> QED
      BY <3>1, <3>2, SizesTyping
  <2>8. down' \in Seq(Lines) /\ DoneLineIsStored'
    <3>1. down' = Append(down, "ack")
      BY <1>7 DEF ServerRead
    <3>2. spc = "read"
      BY <1>7 DEF ServerRead
    <3>3. down' \in Seq(Lines) /\ \A i \in 1..Len(down') : down'[i] # "up_done"
      BY <1>4, <3>1, <3>2 DEF TypeOK, Lines
    <3> QED
      BY <3>3 DEF DoneLineIsStored
  <2>9. TypeOK'
    BY <1>2, <1>7, <2>3, <2>6, <2>7, <2>8 DEF ServerRead, TypeOK
  <2>10. Working' /\ Decided' /\ AllOrNothing' /\ NoticeIffStored'
    BY <1>2, <1>4, <1>7, <2>7 DEF ServerRead, Inv, Working, Decided, AllOrNothing,
       NoticeIffStored, ServerEnded
  <2> QED
    BY <1>5, <2>8, <2>9, <2>10 DEF Inv
<1>8. CASE ServerEof
  <2>1. TypeOK'
    BY <1>2, <1>8 DEF ServerEof, TypeOK
  <2>2. Working' /\ Decided' /\ AllOrNothing' /\ NoticeIffStored'
    BY <1>2, <1>8 DEF ServerEof, Inv, Working, Decided, AllOrNothing,
                      NoticeIffStored, ServerEnded
  <2>3. DoneLineIsStored'
    BY <1>4, <1>8 DEF ServerEof, DoneLineIsStored
  <2> QED
    BY <1>5, <2>1, <2>2, <2>3 DEF Inv
<1>9. CASE ServerNotifies
  <2>1. /\ down' = down /\ noticed' = (asker = "mailbox")
        /\ exists' = exists /\ disk' = disk /\ indexed' = indexed
        /\ reserved' = reserved /\ spc' = "accept" /\ spc = "check"
        /\ s_chunks' = s_chunks /\ s_len' = s_len /\ up' = up /\ reset' = reset
        /\ Len(disk) = file_size /\ asker # "no_mailbox"
    BY <1>9 DEF ServerNotifies
  <2>2. noticed' \in BOOLEAN
    BY <2>1, Zenon
  <2>3. TypeOK'
    BY <1>2, <2>1, <2>2 DEF TypeOK
  <2>4. asker \in {"nobody", "mailbox"}
    BY <2>1, SizesAssumption DEF TypeOK
  <2>5. exists' /\ indexed' /\ Len(disk') = file_size'
    BY <1>2, <2>1 DEF Inv, Working
  <2>6. Working' /\ AllOrNothing' /\ NoticeIffStored'
    BY <2>1 DEF Working, AllOrNothing, NoticeIffStored, ServerEnded
  <2>7. Decided'
    BY <1>2, <2>1, <2>4, <2>5 DEF Decided
  <2>8. DoneLineIsStored'
    BY <1>4, <2>1 DEF DoneLineIsStored
  <2> QED
    BY <1>5, <2>3, <2>6, <2>7, <2>8 DEF Inv
<1>10. CASE ServerAccepts
  <2>1. /\ down' = Append(down, "up_done") /\ noticed' = noticed
        /\ exists' = exists /\ disk' = disk /\ indexed' = indexed
        /\ reserved' = reserved /\ spc' = "release" /\ spc = "accept"
        /\ s_chunks' = s_chunks /\ s_len' = s_len /\ up' = up /\ reset' = reset
    BY <1>10 DEF ServerAccepts
  <2>2. down' \in Seq(Lines)
    BY <2>1 DEF TypeOK, Lines
  <2>3. TypeOK'
    BY <1>2, <2>1, <2>2 DEF TypeOK
  <2>4. exists' /\ indexed' /\ Len(disk') = file_size'
    BY <1>2, <2>1 DEF Inv, Decided
  <2>5. Working' /\ AllOrNothing' /\ NoticeIffStored'
    BY <2>1 DEF Working, AllOrNothing, NoticeIffStored, ServerEnded
  <2>6. Decided'
    BY <1>2, <2>1 DEF Inv, Decided
  <2>7. DoneLineIsStored'
    BY <2>1, <2>4 DEF DoneLineIsStored, Stored
  <2> QED
    BY <1>5, <2>3, <2>5, <2>6, <2>7 DEF Inv
<1>11. CASE ServerRejects
  <2>1. /\ down' = Append(down, "up_file_corrupt")
        /\ exists' = exists /\ disk' = disk /\ indexed' = indexed
        /\ reserved' = reserved /\ spc' = "delete" /\ spc = "check"
        /\ noticed' = noticed
        /\ s_chunks' = s_chunks /\ s_len' = s_len /\ up' = up /\ reset' = reset
    BY <1>11 DEF ServerRejects
  <2>2. /\ down' \in Seq(Lines)
        /\ \A i \in 1..Len(down') : down'[i] # "up_done"
    BY <1>4, <2>1 DEF TypeOK, Lines
  <2>3. TypeOK'
    BY <1>2, <2>1, <2>2 DEF TypeOK
  <2>4. Working' /\ Decided' /\ AllOrNothing' /\ NoticeIffStored'
    BY <2>1 DEF Inv, Working, Decided, AllOrNothing, NoticeIffStored, ServerEnded
  <2>5. DoneLineIsStored'
    BY <2>2 DEF DoneLineIsStored
  <2> QED
    BY <1>5, <2>3, <2>4, <2>5 DEF Inv
<1>12. CASE ServerDeletes
  <2>1. /\ exists' = FALSE /\ disk' = <<>> /\ indexed' = FALSE
        /\ down' = down /\ reserved' = reserved /\ spc = "delete"
        /\ spc' = "release" /\ noticed' = noticed
        /\ s_chunks' = s_chunks /\ s_len' = s_len /\ up' = up /\ reset' = reset
    BY <1>12 DEF ServerDeletes
  <2>2. TypeOK'
    BY <1>2, <2>1, EmptyDisk DEF TypeOK
  <2>3. Working' /\ Decided' /\ AllOrNothing' /\ NoticeIffStored'
    BY <1>4, <2>1, EmptyDiskInv
  <2>4. DoneLineIsStored'
    BY <1>4, <2>1 DEF DoneLineIsStored
  <2> QED
    BY <1>5, <2>2, <2>3, <2>4 DEF Inv
<1>13. CASE ServerReleases
  <2>1. /\ exists' = exists /\ disk' = disk /\ indexed' = indexed
        /\ down' = down /\ reserved' = 0 /\ spc = "release"
        /\ spc' = "done" /\ noticed' = noticed
        /\ s_chunks' = s_chunks /\ s_len' = s_len /\ up' = up /\ reset' = reset
    BY <1>13 DEF ServerReleases
  <2>2. TypeOK'
    BY <1>2, <2>1 DEF TypeOK
  <2>3. Working' /\ Decided' /\ AllOrNothing' /\ NoticeIffStored'
    BY <1>2, <2>1 DEF Inv, Working, Decided, AllOrNothing, NoticeIffStored
  <2>4. DoneLineIsStored'
    BY <1>2, <2>1 DEF Inv, DoneLineIsStored, Stored
  <2> QED
    BY <1>5, <2>2, <2>3, <2>4 DEF Inv
<1>14. CASE ServerOpenFails \/ ServerCannotNotify \/ ServerReadFails
  <2>1. /\ reserved' = 0 /\ indexed' = FALSE /\ exists' = FALSE /\ disk' = <<>>
        /\ spc \in {"reserve", "read", "check"}
        /\ spc' = "failed" /\ s_chunks' = s_chunks /\ s_len' = s_len
        /\ noticed' = noticed /\ up' = up /\ down' = down /\ reset' = reset
    BY <1>14 DEF ServerOpenFails, ServerCannotNotify, ServerReadFails, GiveUp
  <2>2. TypeOK'
    BY <1>2, <2>1, EmptyDisk DEF TypeOK
  <2>3. Working' /\ Decided' /\ AllOrNothing' /\ NoticeIffStored'
    BY <1>4, <2>1, EmptyDiskInv
  <2>4. DoneLineIsStored'
    BY <1>4, <2>1 DEF DoneLineIsStored
  <2> QED
    BY <1>5, <2>2, <2>3, <2>4 DEF Inv
<1> QED
  BY <1>6, <1>7, <1>8, <1>9, <1>10, <1>11, <1>12, <1>13, <1>14 DEF Server

-----------------------------------------------------------------------------

(* Every step keeps types and invariant.                                  *)
LEMMA StepInv == TypeOK /\ Inv /\ [Next]_vars => TypeOK' /\ Inv'
<1> SUFFICES ASSUME TypeOK, Inv, [Next]_vars PROVE TypeOK' /\ Inv'
  OBVIOUS
<1>1. CASE Client \/ ClientOffline
  BY <1>1, ClientStepInv
<1>2. CASE Server
  BY <1>2, ServerStepInv
<1>3. CASE UNCHANGED vars
  <2>1. TypeOK'
    BY <1>3 DEF vars, sizes, clientVars, serverVars, TypeOK
  <2>2. UNCHANGED <<sizes, serverVars>> /\ DoneLineIsStored' /\ SuccessIsStored'
    BY <1>3 DEF vars, sizes, clientVars, serverVars, Inv, DoneLineIsStored,
                SuccessIsStored, Stored
  <2> QED
    BY <2>1, <2>2, ClientKeepsInv
<1> QED
  BY <1>1, <1>2, <1>3 DEF Next

(* The invariant most theorems below are instances of, for every set of    *)
(* file sizes and chunk sizes and every way the stream may be split.       *)
THEOREM UploadInvariant == Spec => [](TypeOK /\ Inv)
<1>1. Init => TypeOK /\ Inv
  BY InitInv
<1>2. TypeOK /\ Inv /\ [Next]_vars => (TypeOK /\ Inv)'
  BY StepInv
<1> QED
  BY <1>1, <1>2, PTL DEF Spec

(* Sender, receiver and what is between them stay of their types, for      *)
(* every size and chunk: the server's chunk count never falls below zero.  *)
THEOREM UploadTypes == Spec => []TypeOK
<1>1. TypeOK /\ Inv => TypeOK
  OBVIOUS
<1> QED
  BY <1>1, UploadInvariant, PTL

(* However receiveFile ends, it leaves the index and the disk in agreement *)
(* and has given its reservation back (Server lines 96-106 and 118-143).   *)
THEOREM UploadAllOrNothing == Spec => []AllOrNothing
<1>1. TypeOK /\ Inv => AllOrNothing
  BY DEF Inv
<1> QED
  BY <1>1, UploadInvariant, PTL

(* "Upload successful!" is only ever said of a file the server stores with *)
(* the announced length, whatever was lost, reset or timed out.            *)
THEOREM UploadSuccessIsStored == Spec => []SuccessIsStored
<1>1. TypeOK /\ Inv => SuccessIsStored
  BY DEF Inv
<1> QED
  BY <1>1, UploadInvariant, PTL

(* The student who asked is told exactly of the files that are there.      *)
THEOREM UploadNotice == Spec => []NoticeIffStored
<1>1. TypeOK /\ Inv => NoticeIffStored
  BY DEF Inv
<1> QED
  BY <1>1, UploadInvariant, PTL


-----------------------------------------------------------------------------
(* The bytes.  A file stored so far is the beginning of the client's file, *)
(* padded after its end;                                                   *)
ByteAt(i) == IF i <= file_size THEN i ELSE Pad

Whole == \A i \in 1..Len(disk) : disk[i] = ByteAt(i)

(* and while the server reads, the acknowledgements keep both loops in     *)
(* step: what is on its way is no chunk or the one the server waits for.   *)
(* Only an empty last chunk is read before it was sent, and it is the last.*)
InStep ==
  spc \in {"reserve", "read"} =>
    /\ \A i \in 1..Len(up) : up[i] = ByteAt(Len(disk) + i)
    /\ pos < file_size => Len(disk) + Len(up) = pos
    /\ s_len = 0 => s_chunks = 1
    /\ cpc = "read" =>
         up = <<>> /\ down = <<>> /\ s_chunks = c_chunks /\ s_len = c_len
    /\ cpc = "ack" =>
         \/ Len(up) = c_len /\ down = <<>> /\ s_chunks = c_chunks /\ s_len = c_len
         \/ /\ up = <<>> /\ down = <<"ack">>
            /\ s_chunks = c_chunks - 1 /\ s_len = NextLen(s_chunks)
    /\ cpc = "final" => up = <<>> /\ s_len > 0

Intact == ~cut => (cpc # "closed" => Whole /\ InStep) /\ SuccessIsIntact


(* The next buffer is empty only if it is the last.                        *)
LEMMA EmptyIsLast ==
  ASSUME TypeOK
  PROVE  \A n \in Int : NextLen(n) = 0 => n = 1
BY SizesTyping DEF NextLen

(* A buffer that is sent continues the bytes of the file, and ends in      *)
(* padding only after the last of them (ClientFileHandler 35-41).          *)
LEMMA SendIntact ==
  ASSUME TypeOK, Intact, ~cut, ClientSend
  PROVE  Intact'
<1> DEFINE k == Smaller(c_len, file_size - pos)
           next == FileBytes(pos + 1, pos + k)
           rest == Pads(c_len - k)
<1>1. /\ file_size \in Nat /\ c_len \in Nat /\ pos \in 0..file_size
      /\ up \in Seq(Nat) /\ disk \in Seq(Nat)
  BY SizesTyping DEF TypeOK
<1>2. /\ k \in Nat /\ k <= file_size - pos /\ k <= c_len
      /\ k < c_len => pos + k = file_size
  BY <1>1 DEF Smaller
<1>3. up' = up \o next \o rest /\ pos' = pos + k
  BY DEF ClientSend
<1>4. /\ cpc = "read" /\ cpc' = "ack" /\ (pos < file_size \/ c_len = 0)
      /\ disk' = disk /\ down' = down /\ spc' = spc /\ file_size' = file_size
      /\ s_len' = s_len /\ s_chunks' = s_chunks /\ c_len' = c_len
      /\ c_chunks' = c_chunks /\ cut' = cut /\ report' = report
      /\ chunk_size' = chunk_size
  BY DEF ClientSend, serverVars, sizes
<1> HIDE DEF k
<1>5. /\ next \in Seq(Nat) /\ Len(next) = k
      /\ \A i \in 1..k : next[i] = pos + i
  <2>1. /\ (pos + k) - (pos + 1) + 1 = k
        /\ \A i \in 1..k : (pos + 1) + i - 1 = pos + i
    BY <1>1, <1>2
  <2>2. next = [i \in 1..k |-> (pos + 1) + i - 1]
    BY <2>1 DEF FileBytes
  <2>3. next = [i \in 1..k |-> pos + i]
    BY <2>1, <2>2, Zenon
  <2>4. \A i \in 1..k : pos + i \in Nat
    BY <1>1, <1>2
  <2> HIDE DEF next
  <2> QED
    BY <1>1, <1>2, <2>3, <2>4
<1>6. /\ rest \in Seq(Nat) /\ Len(rest) = c_len - k
      /\ \A i \in 1..(c_len - k) : rest[i] = Pad
  <2>1. c_len - k \in Nat
    BY <1>1, <1>2
  <2>2. rest = [i \in 1..(c_len - k) |-> Pad]
    BY DEF Pads
  <2> QED
    BY <2>1, <2>2, BytesTyping
<1> HIDE DEF next, rest
<1>7. Whole' /\ SuccessIsIntact'
  BY <1>4 DEF Intact, Whole, ByteAt, SuccessIsIntact
<1>8. ASSUME spc \in {"reserve", "read"} PROVE InStep'
  <2>1. /\ up = <<>> /\ down = <<>> /\ s_chunks = c_chunks /\ s_len = c_len
        /\ s_len = 0 => s_chunks = 1
        /\ pos < file_size => Len(disk) + Len(up) = pos
    BY <1>4, <1>8 DEF Intact, InStep
  <2>2. up' = next \o rest
    BY <1>3, <1>5, <2>1
  <2>3. /\ Len(up') = c_len
        /\ \A i \in 1..c_len : up'[i] = IF i <= k THEN pos + i ELSE Pad
    <3>1. k + (c_len - k) = c_len /\ \A i \in 1..c_len : i > k => i - k \in 1..(c_len - k)
      BY <1>1, <1>2
    <3>2. /\ Len(up') = k + (c_len - k)
          /\ \A i \in 1..(k + (c_len - k)) :
               up'[i] = IF i <= k THEN next[i] ELSE rest[i - k]
      <4> DEFINE m == c_len - k
      <4>1. rest \in Seq(Nat) /\ Len(rest) = m /\ m \in Nat /\ k \in Nat
        BY <1>1, <1>2, <1>6
      <4> HIDE DEF m
      <4>2. /\ Len(next \o rest) = k + m
            /\ \A i \in 1..(k + m) :
                 (next \o rest)[i] = IF i <= k THEN next[i] ELSE rest[i - k]
        BY <1>5, <4>1
      <4> QED
        BY <2>2, <4>2 DEF m
    <3>3. \A i \in 1..c_len : i <= k => i \in 1..k
      BY <1>1, <1>2
    <3> QED
      BY <1>5, <1>6, <3>1, <3>2, <3>3
  <2>4. c_len > 0 => pos < file_size /\ Len(disk) = pos
    <3>1. Len(up) = 0 /\ Len(disk) \in Nat
      BY <1>1, <2>1
    <3> QED
      BY <1>1, <1>4, <2>1, <3>1
  <2>5. \A i \in 1..Len(up') : up'[i] = ByteAt(Len(disk) + i)
    <3> SUFFICES ASSUME NEW i \in 1..c_len PROVE up'[i] = ByteAt(Len(disk) + i)
      BY <2>3
    <3>1. Len(disk) = pos
      BY <1>1, <2>4
    <3>2. i <= k => pos + i <= file_size
      BY <1>1, <1>2
    <3>3. i > k => ~(pos + i <= file_size)
      BY <1>1, <1>2
    <3> QED
      BY <1>1, <1>2, <2>3, <3>1, <3>2, <3>3 DEF ByteAt
  <2>6. pos' < file_size => Len(disk) + Len(up') = pos'
    <3>1. ASSUME pos + k < file_size PROVE Len(disk) + c_len = pos + k
      <4>1. k = c_len
        BY <1>1, <1>2, <3>1
      <4>2. pos < file_size /\ Len(up) = 0 /\ Len(disk) \in Nat
        BY <1>1, <1>2, <2>1, <3>1
      <4>3. Len(disk) = pos
        BY <1>1, <2>1, <4>2
      <4> QED
        BY <4>1, <4>3
    <3> QED
      BY <1>3, <2>3, <3>1
  <2> QED
    BY <1>4, <2>1, <2>3, <2>5, <2>6 DEF InStep, ByteAt
<1> QED
  BY <1>4, <1>7, <1>8 DEF Intact, InStep

(* A read that is not short takes what the client sent as one buffer, and  *)
(* pads nothing (ServerUploadHandler 65-81).                               *)
LEMMA ReadIntact ==
  ASSUME TypeOK, Inv, Intact, ~cut, ServerRead
  PROVE  Intact'
<1>1. /\ spc = "read" /\ report # "success"
      /\ cpc' = cpc /\ pos' = pos /\ c_chunks' = c_chunks /\ c_len' = c_len
      /\ report' = report /\ cut' = cut /\ file_size' = file_size
      /\ chunk_size' = chunk_size /\ down' = Append(down, "ack")
      /\ s_chunks' = s_chunks - 1
      /\ s_chunks = 1 => spc' = "check"
      /\ s_chunks # 1 => s_len' = NextLen(s_chunks - 1)
  BY DEF ServerRead, sizes, clientVars, Inv, SuccessIsStored, Stored
<1>2. SuccessIsIntact'
  BY <1>1 DEF SuccessIsIntact
<1>3. SUFFICES ASSUME cpc # "closed" PROVE Whole' /\ InStep'
  BY <1>1, <1>2 DEF Intact
<1>4. PICK n \in ReadLengths :
             /\ disk' = disk \o SubSeq(up, 1, n) \o Pads(s_len - n)
             /\ up' = SubSeq(up, n + 1, Len(up))
  BY DEF ServerRead
<1>5. /\ up \in Seq(Nat) /\ disk \in Seq(Nat) /\ s_len \in Nat /\ c_len \in Nat
      /\ s_chunks \in Nat /\ pos \in Int /\ file_size \in Int
      /\ cpc \in {"read", "ack", "final", "closed"} /\ c_chunks \in Int
  BY SizesTyping DEF TypeOK
<1>6. n \in Nat /\ (n > 0 \/ s_len = 0) /\ n = Smaller(s_len, Len(up))
  BY <1>5 DEF ReadLengths, Smaller
<1>7. Whole /\ InStep
  BY <1>3 DEF Intact
<1>8. /\ \A i \in 1..Len(disk) : disk[i] = ByteAt(i)
      /\ \A i \in 1..Len(up) : up[i] = ByteAt(Len(disk) + i)
      /\ s_len = 0 => s_chunks = 1
      /\ pos < file_size => Len(disk) + Len(up) = pos
  BY <1>1, <1>7 DEF Whole, InStep
<1>9. Len(up) \in {0, s_len} /\ n = s_len /\ (Len(up) = 0 => s_len = 0)
  <2>1. Len(up) \in {0, s_len}
    BY <1>1, <1>3, <1>5, <1>7 DEF InStep
  <2> QED
    BY <1>5, <1>6, <2>1 DEF Smaller
<1>10. Len(up) = s_len
  BY <1>5, <1>9
<1>11. disk' = disk \o up /\ up' = <<>>
  <2>1. SubSeq(up, 1, n) = up /\ SubSeq(up, n + 1, Len(up)) = <<>>
    BY <1>5, <1>6, <1>9, <1>10
  <2>2. Pads(s_len - n) = <<>>
    BY <1>5, <1>9 DEF Pads
  <2>3. (disk \o up) \o <<>> = disk \o up
    BY <1>5
  <2>4. disk' = (disk \o SubSeq(up, 1, n)) \o Pads(s_len - n)
    BY <1>4
  <2> QED
    BY <1>4, <2>1, <2>2, <2>3, <2>4, Zenon
<1>12. /\ Len(disk') = Len(disk) + Len(up) /\ Len(up') = 0
       /\ \A i \in 1..Len(disk') :
            disk'[i] = IF i <= Len(disk) THEN disk[i] ELSE up[i - Len(disk)]
  BY <1>5, <1>11
<1>13. Whole'
  <2> SUFFICES ASSUME NEW i \in 1..Len(disk') PROVE disk'[i] = ByteAt(i)
    BY <1>1 DEF Whole, ByteAt
  <2>1. CASE i <= Len(disk)
    BY <1>5, <1>8, <1>12, <2>1
  <2>2. CASE i > Len(disk)
    <3>1. i - Len(disk) \in 1..Len(up) /\ Len(disk) + (i - Len(disk)) = i
      BY <1>5, <1>12, <2>2
    <3>2. up[i - Len(disk)] = ByteAt(i)
      BY <1>8, <3>1
    <3> QED
      BY <1>5, <1>12, <2>2, <3>2
  <2> QED
    BY <1>5, <2>1, <2>2
<1>14. InStep'
  <2> SUFFICES ASSUME spc' \in {"reserve", "read"} PROVE InStep'
    BY DEF InStep
  <2>1. s_chunks # 1 /\ s_len > 0 /\ n > 0
    BY <1>1, <1>5, <1>8, <1>9
  <2>2. /\ cpc = "ack" /\ down = <<>> /\ s_chunks = c_chunks
    BY <1>1, <1>3, <1>5, <1>7, <1>10, <2>1 DEF InStep
  <2>3. down' = <<"ack">> /\ s_len' = NextLen(s_chunks') /\ s_chunks' = c_chunks' - 1
    BY <1>1, <2>1, <2>2
  <2>4. s_len' = 0 => s_chunks' = 1
    BY <1>1, <1>5, <2>3, EmptyIsLast
  <2>5. pos' < file_size' => Len(disk') + Len(up') = pos'
    BY <1>1, <1>5, <1>8, <1>12
  <2> QED
    BY <1>1, <1>11, <1>12, <2>2, <2>3, <2>4, <2>5 DEF InStep, NextLen
<1> QED
  BY <1>13, <1>14


(* The acknowledgement of a buffer, or the end of the server's connection  *)
(* (ClientFileHandler 42-50), lets the client go on to the buffer the      *)
(* server waits for.                                                       *)
LEMMA AckIntact ==
  ASSUME TypeOK, Intact, ~cut, ClientAck
  PROVE  Intact'
<1>1. /\ cpc = "ack" /\ cpc' = "read" /\ c_chunks' = c_chunks - 1
      /\ c_len' = NextLen(c_chunks - 1) /\ pos' = pos /\ up' = up
      /\ \/ down # <<>> /\ down' = Tail(down)
         \/ down = <<>> /\ spc = "done"
      /\ disk' = disk /\ spc' = spc /\ file_size' = file_size
      /\ chunk_size' = chunk_size /\ s_len' = s_len /\ s_chunks' = s_chunks
      /\ report' = report /\ cut' = cut
  BY DEF ClientAck, ServerClosed, sizes, serverVars
<1>2. Whole' /\ SuccessIsIntact'
  BY <1>1 DEF Intact, Whole, ByteAt, SuccessIsIntact
<1>3. ASSUME spc \in {"reserve", "read"} PROVE InStep'
  <2>1. /\ up = <<>> /\ down = <<"ack">>
        /\ s_chunks = c_chunks - 1 /\ s_len = NextLen(s_chunks)
        /\ s_len = 0 => s_chunks = 1
        /\ pos < file_size => Len(disk) + Len(up) = pos
    BY <1>1, <1>3 DEF Intact, InStep
  <2>2. down' = <<>>
    BY <1>1, <1>3, <2>1
  <2> QED
    BY <1>1, <2>1, <2>2 DEF InStep
<1> QED
  BY <1>1, <1>2, <1>3 DEF Intact, InStep

(* The verdict (ClientFileHandler 51-65): success is heard of a file of    *)
(* the announced length, whose bytes are therefore all the client's.       *)
LEMMA FinalIntact ==
  ASSUME TypeOK, Inv, Intact, ~cut, ClientFinal
  PROVE  Intact'
<1>1. /\ cpc = "final" /\ cpc' = "closed" /\ disk' = disk /\ file_size' = file_size
      /\ cut' = cut
  BY DEF ClientFinal, ClientClose, sizes, serverVars
<1>2. ASSUME report' = "success" PROVE disk = FileBytes(1, file_size)
  <2>1. down # <<>> /\ Head(down) = "up_done"
    BY <1>2 DEF ClientFinal, ClientClose, Verdict
  <2>2. Stored
    BY <2>1 DEF Inv, DoneLineIsStored, TypeOK
  <2>3. disk \in Seq(Nat) /\ Len(disk) = file_size /\ file_size \in Nat
    BY <2>2, SizesTyping DEF Stored, TypeOK
  <2>4. \A i \in 1..file_size : disk[i] = i
    BY <1>1, <2>3 DEF Intact, Whole, ByteAt
  <2>5. FileBytes(1, file_size) = [i \in 1..file_size |-> i]
    <3>1. (file_size - 1) + 1 = file_size /\ \A i \in 1..file_size : 1 + i - 1 = i
      BY <2>3
    <3> QED
      BY <3>1 DEF FileBytes
  <2>6. disk = [i \in 1..file_size |-> disk[i]]
    BY <2>3
  <2> QED
    BY <2>4, <2>5, <2>6
<1> QED
  BY <1>1, <1>2 DEF Intact, SuccessIsIntact

(* The whole buffers the loops exchange keep their bytes in order: every   *)
(* step of either side keeps the stored file a beginning of the client's.  *)
LEMMA StepIntact ==
  ASSUME TypeOK, Inv, Intact, [Next]_vars
  PROVE  Intact'
<1>1. cut' = cut /\ file_size' = file_size /\ chunk_size' = chunk_size
  BY DEF Next, Client, ClientSend, ClientSendFails, ClientEof, ClientAck,
         ClientFinal, ClientTimeout, ClientOffline, Server, ServerReserve,
         ServerRead, ServerEof, ServerNotifies, ServerAccepts, ServerRejects,
         ServerDeletes, ServerReleases, ServerOpenFails, ServerCannotNotify,
         ServerReadFails, GiveUp, vars, sizes
<1> SUFFICES ASSUME ~cut PROVE Intact'
  BY <1>1 DEF Intact
<1>2. CASE ClientSend
  BY <1>2, SendIntact
<1>3. CASE ClientAck
  BY <1>3, AckIntact
<1>4. CASE ClientFinal
  BY <1>4, FinalIntact
<1>5. CASE ClientSendFails \/ ClientTimeout \/ ClientOffline
  BY <1>1, <1>5 DEF ClientSendFails, ClientTimeout, ClientOffline, ClientClose,
                    Intact, SuccessIsIntact
<1>6. CASE ClientEof
  <2>1. /\ cpc = "read" /\ pos = file_size /\ c_len > 0 /\ cpc' = "final"
        /\ pos' = pos /\ up' = up /\ down' = down /\ disk' = disk /\ spc' = spc
        /\ s_len' = s_len /\ s_chunks' = s_chunks /\ report' = report
    BY <1>6 DEF ClientEof, serverVars
  <2> QED
    BY <1>1, <2>1 DEF Intact, InStep, Whole, ByteAt, SuccessIsIntact
<1>7. CASE ServerReserve
  <2>1. /\ spc = "reserve" /\ spc' = "read" /\ cpc' = cpc /\ pos' = pos
        /\ c_chunks' = c_chunks /\ c_len' = c_len /\ up' = up /\ down' = down
        /\ disk' = disk /\ s_len' = s_len /\ s_chunks' = s_chunks
        /\ report' = report
    BY <1>7 DEF ServerReserve, clientVars
  <2> QED
    BY <1>1, <2>1 DEF Intact, InStep, Whole, ByteAt, SuccessIsIntact, NextLen
<1>8. CASE ServerRead
  BY <1>8, ReadIntact
<1>9. CASE ServerEof \/ ServerNotifies \/ ServerAccepts \/ ServerRejects \/ ServerReleases
  <2>1. /\ cpc' = cpc /\ report' = report /\ disk' = disk
        /\ spc' \notin {"reserve", "read"}
    BY <1>9 DEF ServerEof, ServerNotifies, ServerAccepts, ServerRejects, ServerReleases,
                clientVars
  <2> QED
    BY <1>1, <2>1 DEF Intact, InStep, Whole, ByteAt, SuccessIsIntact
<1>10. CASE ServerDeletes \/ ServerOpenFails \/ ServerCannotNotify \/ ServerReadFails
  <2>1. /\ cpc' = cpc /\ report' = report /\ disk' = <<>>
        /\ spc' \notin {"reserve", "read"} /\ spc \notin {"release", "done"}
    BY <1>10 DEF ServerDeletes, ServerOpenFails, ServerCannotNotify, ServerReadFails, GiveUp,
                 clientVars
  <2>2. report # "success"
    BY <2>1 DEF Inv, SuccessIsStored, Stored
  <2>3. Whole'
    BY <2>1 DEF Whole
  <2> QED
    BY <1>1, <2>1, <2>2, <2>3 DEF Intact, InStep, SuccessIsIntact
<1>11. CASE UNCHANGED vars
  BY <1>11 DEF vars, sizes, clientVars, serverVars, Intact, InStep, Whole, ByteAt,
               SuccessIsIntact, NextLen
<1> QED
  BY <1>2, <1>3, <1>4, <1>5, <1>6, <1>7, <1>8, <1>9, <1>10, <1>11
     DEF Next, Client, Server

(* Success reported of a transfer whose reads were whole is of a file with *)
(* the client's bytes, all of them and nothing else, for every size of     *)
(* file and of chunk (ClientFileHandler 31-58, ServerUploadHandler 64-96). *)
THEOREM UploadSuccessIsIntact == Spec => []SuccessIsIntact
<1>1. Init => Intact
  <2> SUFFICES ASSUME Init PROVE Intact
    OBVIOUS
  <2>1. file_size \in Nat /\ chunk_size \in Nat \ {0}
    BY SizesAssumption DEF Init
  <2>2. Len(disk) = 0 /\ Len(up) = 0
    BY DEF Init
  <2> QED
    BY <2>1, <2>2 DEF Init, Intact, Whole, InStep, SuccessIsIntact
<1>2. TypeOK /\ Inv /\ Intact /\ [Next]_vars => Intact'
  BY StepIntact
<1>3. TypeOK /\ Intact => SuccessIsIntact
  BY DEF Intact, SuccessIsIntact
<1> QED
  BY <1>1, <1>2, <1>3, UploadInvariant, PTL DEF Spec

=============================================================================
