# Verification of the networking repository

TLA+ models of the programs in this repository, TLC configurations that check
them on small instances, and TLAPS proofs of what holds for every instance.

## 1. The repository

| part | what it is |
|---|---|
| `TCPFileManager/` | a file server for students and its console client, in Java, 1168 lines: the one complete program of the repository |
| `NS3_implementation_of_tcp_constant/src/internet/model/tcp-constant.*` | TCP-Constant, a congestion control the repository's author wrote for ns-3, 379 lines |
| `NS3_implementation_of_tcp_constant/src/internet/` (the rest) | the `internet` module of ns-3, vendored to be built with it |
| `NS3_implementation_of_tcp_constant/scratch/`, the data directories | simulation scripts, traces and plots |
| `PacketTracer/` | binary exercises |

Two parts are modelled. The file server is the author's own program, and the one
whose steps interleave: about ten kinds of threads share maps, buffers, files
and connections, and no `synchronized`, lock or atomic variable appears anywhere
in it. TCP-Constant is modelled together with what calls it: the data transfer
of ns-3's TCP, sender, receiver and network, in which a congestion control of
the author's own makes windows that the vendored code was not written for.

Source paths below are short for `TCPFileManager/src/...`: `Server`,
`ServerUploadHandler` and `ServerDownloadHandler` are in `server_module/`,
`ClientFileHandler`, `InputHandler`, `TCPFileManager` and `Client` in
`client_main_package/`, `LoginModule` and `HomeModule` in `client_modules/`. The
files named `tcp-*.cc` and `tcp-*.h` are in
`NS3_implementation_of_tcp_constant/src/internet/model/`.

## 2. Inventory

### 2.1 How the parts interact

    client process                                server process
    TCPFileManager.main --- command connection --- one thread per connection
      LoginModule, HomeModule,                       (Server.initTransmission)
      InputHandler                                      | user_list, socket_list
      (one thread listens, one types)                   | requests, message_list
                                                        | file_list, file_ID_list
    ClientFileHandler ---- one connection per ----- ServerUploadHandler,
      (one thread per transfer)   transfer          ServerDownloadHandler
                                                      (one thread per transfer)

The command thread of a student answers every line he sends. For an upload or
a download it opens a listening socket on a random port, starts a thread that
waits there, and sends the port to the client, which connects. The maps and
`FILE_BUFFER` are static fields that all threads read and write. A thread finds
out whether another student is there by writing a byte into his command
connection.

    application -> TcpSocketBase (sender)            TcpSocketBase (receiver)
                     | TcpTxBuffer, scoreboard          | TcpRxBuffer, SACK list
                     | TcpConstant    --- segments -->  | delayed ack timer
                     | TcpPrrRecovery <-- acks (SACK) --+
                     + retransmission timer

In the simulation everything is a handler of the event loop: a segment or an
ack that arrives, or a timer that fires. A handler runs to its end and calls
down into buffer, congestion control and recovery; the difficulty is in what
the network does between two handlers.

### 2.2 Components

| component | state | operations | must hold |
|---|---|---|---|
| sessions | `user_list`, `socket_list`, directories; per connection what the kernels know | login (`auth:`), list of students (`uList`), liveness check by ping, client's login loop | one connection per student, who is called offline is not logged in by that ID, a granted login is complete, who is alone gets in |
| requests and mailboxes | `requests`, `message_list` (StringBuilders) | post a request, announce it, display and empty, notify, answer | everyone is shown his own messages, all of them, once |
| file store | `FILE_BUFFER`, `file_list`, `file_ID_list`, the directories, ports | check, bind, accept, reserve, index, open, append, verify, remove, release, restart | the quota is accounted for; indexes and disk agree; what stays was verified |
| upload transfer | two loops, chunk counts, buffers, acks | send, ack, verdict, time-out; receive, verify, undo | success only of a stored file; all or nothing; it ends |
| download transfer | two loops, chunk counts, buffers | send, receive, tell | the client has the file; it ends |
| console | menus, parsing | read a command, print an answer | the answer goes to the request it answers |
| TCP-Constant | `k_rounds`, `prev_rtt`, bandwidth estimate, `m_cWnd`, `m_ssThresh` | slow start, bandwidth estimate, window by RTT change, `GetSsThresh` | the window is positive; with it, whatever it is, everything is delivered |
| transmit buffer of ns-3 | `m_sentList`, flags and counters of the scoreboard, `m_highestSack` | copy, retransmit, `NextSeg`, SACK update, discard, mark lost | counters and flags agree; SND.UNA is not SACKed |
| TCP socket of ns-3, data transfer | congestion state, duplicate count, recovery point, timer, retries, PRR counts; at the receiver reassembly queue, SACK list, delayed ack | send pending data, ack, duplicate ack, enter recovery, time-out; receive data, acknowledge | nothing forgotten that did not arrive; what is outstanding has a timer; delivered at last |
| rest of ns-3 TCP, IP, routing | sockets, caches, tables | | vendored |

### 2.3 What is hard here

* **Interleaving.** A lookup and the `put` it justifies are two steps
  (`Server` 316 and 79); so are the check of the quota and its reservation
  (`Server` 186, `ServerUploadHandler` 54), the display of a mailbox and its
  clearing (`Server` 282-283), and each of `+=` and `-=`.
* **Unsynchronized collections.** Overlapping changes of a `HashMap` may lose
  entries of anyone, a `get` may miss what another thread is moving, iteration
  throws when a login comes in between, `StringBuilder.append` reads its count
  and writes it back.
* **Streams.** `read` returns what is there, not a chunk; the loops count it as
  a chunk. A `BufferedReader` made anew for every line drops what the old one
  had read ahead.
* **Stale knowledge.** The first write to a closed connection succeeds, so that
  a ping proves nothing; and the ping itself gets into the text of the answers.
* **Failure.** One exception handler undoes the reservation, both index entries
  and the file, in another order than the regular path; others only close
  the listening socket. Clients time out, leave or vanish at any line.
* **Names and ports.** Uploads of one name append to one file and delete it
  under each other; a port that is in use is handed out all the same.
* **Restart.** IDs, requests and mailboxes are in memory, files are on the disk.
* **A scoreboard kept twice.** `TcpTxBuffer` keeps flags per segment and three
  counters beside them, changed in eight operations; the window is computed from
  the counters, and the check that compares them is compiled out.
* **Late, lost and reordered acks.** An ack may report blocks that are not news,
  fall behind SND.UNA, or arrive after the timer has emptied the pipe. The SACK
  list holds four blocks and three are reported.
* **States spread over handlers.** The duplicate count, the recovery point and
  the congestion state are set in five handlers and asserted in others; every
  ack of new data cancels the retransmission timer and relies on its branch to
  start it again.
* **Windows that were not foreseen.** `TcpConstant` leaves slow start for good
  after a number of acks and then sets its window from an estimate: it may be
  smaller than a segment, so that only time-outs send. Recovery computes send
  counts as differences of unsigned counters.

`PROJECT.json` lists these hazards line by line, with the properties that
would catch each of them, or the reason why none does.

## 3. Modules

| module | models | extends / instantiates |
|---|---|---|
| `Chunks` | the arithmetic of chunks, which all four loops share | |
| `UploadTransfer` | one upload: `ClientFileHandler.upload` against `ServerUploadHandler.receiveFile` | `Chunks` |
| `UploadTransferProofs` | its two inductive invariants and six theorems | `UploadTransfer`, `TLAPS` |
| `DownloadTransfer` | one download: `ServerDownloadHandler.sendFile` against `ClientFileHandler.receive` | `Chunks` |
| `DownloadTransferProofs` | its two invariants and five theorems | `DownloadTransfer`, `TLAPS` |
| `HashMaps` | `java.util.HashMap` as threads share it: partial functions and what overlapping puts and removals lose | |
| `Sessions` | logins, pings, lists; the client's login loop | `HashMaps` |
| `SessionsProofs` | its inductive invariants and five theorems | `Sessions`, `TLAPS` |
| `MCSessions` | small instances: typed names, symmetry | `Sessions` |
| `MessageBoard` | requests, mailboxes, notices | `HashMaps` |
| `MessageBoardProofs` | its inductive invariants and five theorems | `MessageBoard`, `TLAPS` |
| `MCBoards` | symmetry | `MessageBoard` |
| `AbstractStore` | what a store promises of uploads that go on at the same time | |
| `FileStore` | quota, indexes, disk, ports, failures, restart | `HashMaps`; refines `AbstractStore` |
| `FileStoreProofs` | its inductive invariants, five safety theorems and the refinement | `FileStore`, `TLAPS` |
| `MCStores` | sizes, paths, symmetry | `FileStore` |
| `TcpTxBuffer` | the send buffer and its SACK scoreboard | |
| `TcpRxBuffer` | the receive buffer and its SACK list | |
| `TcpConstant` | the author's congestion control and the rate reduction used with it | |
| `TcpSender` | a bulk transfer: sending socket, receiving socket, network | `TcpTxBuffer`, `TcpConstant`; an instance of `TcpRxBuffer` |
| `TcpTxBufferProofs` | what each operation of the buffer keeps | `TcpTxBuffer`, `TLAPS` |
| `TcpSocketProofs` | what each handler of the sending socket keeps, sends, and how it paces recovery | `TcpSender`, `TcpTxBufferProofs` |
| `TcpSenderProofs` | the receiver, the network and the whole: twelve theorems | `TcpSocketProofs` |

Definitions whose comment begins with "Mutant" are wrong variants of the action
after them. A run must find its property violated when the action is replaced
by the mutant: it shows that the property depends on this action.

### 3.1 UploadTransfer

State: the two threads' program counters, chunk counts and buffer lengths; the
stored file as the sequence of its bytes (byte `i` of the client's file is `i`,
padding is 0); whether both indexes know it; this upload's share of
`FILE_BUFFER`; the bytes and lines on their way; whether the client's end
answers with a reset.

| action | code |
|---|---|
| `ClientSend`, `ClientEof`, `ClientSendFails` | `ClientFileHandler` 35-41: a whole buffer is written whatever `in.read` returned |
| `ClientAck` | 42-50: the line is not looked at; `null` counts as an ack |
| `ClientFinal`, `ClientTimeout` | 51-65: the verdict, 30 s of `setSoTimeout`, the exception handler |
| `ServerReserve`, `ServerOpenFails` | `ServerUploadHandler` 50-64: the reservation and both entries are made before the file is opened, which may throw |
| `ServerRead`, `ServerEof`, `ServerReadFails` | 65-81: whole buffer written, one `ack`, count down |
| `ServerNotifies`, `ServerCannotNotify`, `ServerAccepts` | 83-94: length compared, message to the student who asked, then the verdict |
| `ServerRejects`, `ServerDeletes` | 97-103: the verdict, then the file and its entries |
| `ServerReleases` | 106-116: the reservation is given back and the sockets are closed |
| `GiveUp` | 118-144: the exception handler |

`cut` says whether reads may be short in this behaviour. It is chosen at the
beginning, so that one run shows what holds always and what holds only of
streams that arrive chunk by chunk.

### 3.2 DownloadTransfer

As above with the roles exchanged. There is no ack and no time-out. `Grow` and
`DeleteFile` are what uploads of the same name do to the file meanwhile; `old`
is what an earlier download left in `Downloads/`, since the client appends.

### 3.3 Sessions

`user_list` and `socket_list` are partial functions. `net[c]` is what the
server's kernel knows of a connection: `open`, `fin` (closed by the client),
`fin_w` (and written to since, a reset is on its way), `gone` (the machine
vanished) or `reset`; only the last makes a write fail. `pinged[c]` is the byte
a ping has put before the next line. The thread of a connection goes through
`lookup`, `ping`, `put`, `bind`, `reply`, one access to shared state per step
(`authenticateUser` 308-323, the puts 79-87, the answers 293-296), or walks the
list (`list`, 93-102). The client asks, sleeps half a second and asks again
(`TCPFileManager` 22-44), while `LoginModule.authListener` waits for `Yes:`.
`Rests` is the read-ahead that is dropped with each `BufferedReader`. `lossy`,
chosen at the beginning, says whether puts that overlap lose entries; `contested`
is history: the IDs whose entry a put lost, or put over a connection it had not
found.

IDs are model values as strings: what matters of an ID is whether the server
accepts it (`Parse`) and that two spellings may mean the same student.

### 3.4 MessageBoard

A mailbox is a StringBuilder: `chars`, an array with a slot per message, and
`count`. `Copy`, `ReadCount` and `AddCount` are the steps of `append`,
`CopyThrows` its exception when the array turns out to be full; `Display`,
`Clear`, `ReadAgain` and `WriteAgain` are `toString`, `setLength(0)` and
`append("")` (`Server` 281-287). `requests.put` begins in `Post` and ends in
`PutRequest`; one that another put has overlapped may lose any entry (`Record`),
and a `get` meanwhile may miss its entry, which ends the uploading thread in a
`NullPointerException` (`Notify`). `posted` is what was put, lost or not, and
`torn` says whether two puts ever overlapped. `posted`, `torn`, `sent`, `got`
and `overlap` are history variables, read by no action.

### 3.5 FileStore

An upload's steps follow `Server` 182-197 (`Request`, `Bind`) and
`ServerUploadHandler` 33-145 (`Accept` to `Close`), one access to shared state
per step: `+=` and `-=` are a read (`ReserveRead`, `ReleaseRead`) and a write
(`Reserve`, `Release`), `exists()` and `delete()` are two steps, and so are the
two puts and the two removals. Ports are drawn as `getRandomPort` does, one in
use included. `lost` and `missed` are history: the adds that others overwrote.
`torn` says that two threads were about to change one index at the same time
since the server was started; from then on a change of an index may take any
entry with it or not happen (`Changed`). Disk: `dir` maps a path to an inode,
`data` an inode to the chunks written to it. A thread that has opened a file
writes on after it was deleted. `result` tells the path by which a thread ends.
Chunk contents and partial reads are in `UploadTransfer`; here a chunk is the
name of the client it came from, and the open may throw (`OpenFails`), the
transfer end early (`Eof`) or throw (`ReadFails`). Nothing promises that any of
them happens: a read has no time-out, and no liveness is stated of this module.
`NotifyFails` is the upload that answers the request of a student who has no
mailbox: `addMessage` throws after the length was compared, and the exception
handler undoes an upload that was complete (`ServerUploadHandler` 87-91, 118).

`AbstractStore` has one variable: each upload is `none`, `active`, then
`stored` or `absent` for good; an upload may become `disturbed`, and of these
nothing is promised. `ImplementsStore` maps `FileStore` to it, with
`stored` meaning on the disk whole, with its own chunks and in both indexes,
and `absent` meaning nowhere. Disturbed (`Disturbed`) is an upload that shares
its name with another, one to which another one's client came because both were
sent to one port, and every upload once two threads were in one index at the
same time or the server was restarted. What the refinement says is that nothing
else disturbs: not the racing adds, not a port that is shared but reached by
the right client, not an open, a read or a notice that fails, and not anything
that uploads of other names do to each other.

### 3.6 TcpTxBuffer, TcpRxBuffer, TcpConstant, TcpSender

The stream is `NumSegs` segments of one size; a sequence number is the number
of a segment. The simulator's handlers do not interrupt one another, so each is
one action, and the sending socket is one record `snd` that operators named
after the methods take from what it was to what it is after. They call one
another as the methods do.

| definition | code |
|---|---|
| `CopyFromSequence`, `NextSeg`, `Update`, `UpdateLostCount`, `DiscardUpTo`, `IsLost`, `MarkHeadAsLost`, `SetSentListLost`, `AddRenoSack`, `BytesInFlight` | the methods of these names in `tcp-tx-buffer.cc`; the buffer is `head`, `high` (SND.UNA, SND.NXT), the three flags as sets, the three counters beside them, `highestSack` |
| `Add`, `UpdateSackList`, `ClearSackList` | `tcp-rx-buffer.cc` 139-356: the blocks in order of age, four of them |
| `SlowStart`, `CongestionAvoidance`, `IncreaseWindow`, `GetSsThresh` | `tcp-constant.cc` 81-115, 221-270 |
| `NewReduction`, `SendCount`, `RecoveryWindow` | `tcp-prr-recovery.cc` 71-121, with products cut to `WordSize` and differences read as the signs the code gives them |
| `SendPendingData`, `DoRetransmit`, `EnterRecovery`, `DupAck`, `NewAck`, `PartialAck`, `LossAck`, `FullAck`, `ProcessAck`, `ReceivedAck`, `ReTxTimeout` | `tcp-socket-base.cc`, the branches of `ProcessAck` (1881-2178) as operators of their own |
| `ReceivedData`, `DelAckTimeout`, `AckOf` | 3432-3521, 3754-3768, 2676-2765 |

Actions: `ReceivedData` (a copy of a segment arrives, in any order),
`DelAckTimeout`, `ProcessEstablished` (an ack arrives, in any order),
`RetxTimer`, `LoseSegment`, `LoseAck`. `wire` counts the copies of a segment on
their way; `acks` is a set, since a second ack that says the same as one that is
on its way changes nothing when it comes. A timer that fires while something is
still on its way (`spurious`) is a retransmission time-out that was too short.
The clock is left out: whether the round-trip time has changed, and what
bandwidth times delay comes to, is a choice (`Estimates`, `SameRtt`) at every
ack. `arrived` is history. `bytesInFlight` is `m_bytesInFlight`, the flight when
it was last asked for: `SendDataPacket` asks (3042) before the segment it sends
is copied into the sent list (3043), so `DoRecovery` (`tcp-prr-recovery.cc`
92-119), called a second time for one ack, does not see the fast retransmission
in it.

## 4. Runs

| run | instance | states | shows |
|---|---|---|---|
| `upload` | sizes 0-6, chunks 1-3, three kinds of request, whole and short reads | 15 919 | see `UploadTransfer` properties; liveness included |
| `upload_corrupt` | the same | | **violated**: success is reported of a file with wrong bytes |
| `upload_short` | the same | | **violated**: a file shorter than a chunk is refused |
| `download` | sizes 0-6, chunks 1-3, growth by 1, deletion, old contents | 54 684 | no byte lost or reordered; large files intact if reads are whole; the server ends |
| `sessions` | 2 connections, 1 student in two spellings, an empty prompt, 2 lines each, lists, with and without lost puts | 2.8 M | types, completeness of a grant, earned takeover, no "offline" of an ID that is logged in and not contested |
| `sessions_live` | 2 connections that ask for ever, one may vanish, one line at a time on its way | 161 000 | who is alone is granted a login |
| `sessions_double` | 2 connections, 2 students | | **violated**: two sessions of one student |
| `board` | 2 students, 1 account without mailbox, 2 requests, 1 answering upload, puts that may lose entries | 3.3 M | nobody sees another's messages; requests are known when seen, if no puts overlapped; exactly once when alone |
| `board_lost` | the same | | **violated**: an appended message is never shown |
| `store` | 2 uploads, of one name or of two names, 2 ports that may be shared, racing adds and index changes, failures, one restart | 1.3 M | quota, indexes, verified files, refinement of `AbstractStore` |
| `store_again` | 2 uploads of one name | | **violated**: a stored file is deleted |
| `tcp` | 5 segments, threshold of 2 duplicates, windows of 0 to 4 segments, 2 losses, 1 early time-out | 362 000 | scoreboard, congestion states, timer, pacing and window; everything is delivered or the connection given up |

### 4.1 Why these bounds

* Transfers: sizes 0 to 6 with chunks 1 to 3 contain every relation of size and
  chunk that the counting tells apart (empty, shorter, equal, multiple, multiple
  plus one), each with none, one and several full chunks.
* Sessions: a conflict needs two connections and one ID. Two lines per
  connection are the least at which an answer can be late, a read-ahead line
  can be lost, and a client can change its spelling; `MaxQueue` 2 is the least
  that lets two lines be in one read. `sessions_live` has `MaxQueue` 1, so that no
  line overtakes another there; with 2 TLC finds no violation either, in 661 744
  states, but takes more than five minutes.
* Mailboxes: two appends and one display make all pairs of overlapping
  operations; a third message makes an overwritten slot distinguishable from
  a dropped one.
* Store: two uploads, of one chunk and of two, are the least that race for the
  buffer, an index, a port and a name; every step of one meets every step of the
  other. The buffer of 3 chunks has room for each of them and not for both, and
  a restart brings them together with what was left on the disk. That a third
  upload watches two that disturb each other is beyond the run; the proofs have
  any number.
* `MaxInt` is the largest `int`, in chunks; it is 3 so that the sums wrap.
* TCP: with a threshold of 2 duplicates (`DupAckThresh`; the code's is 3, and no
  more than the number depends on it) five segments are the least in which a
  hole, SACKed segments above it past the threshold, a second hole and new data
  are there at once. `SegSize` 2 lets a window be less than a segment (an
  estimate of 0 gives 1) or none of its multiples (5); `KRounds` 2 leaves slow
  start within the stream; two losses can hit a segment and its retransmission,
  or both with `DataRetries` 2 give the connection up; one early time-out meets
  every state of the recovery. `WordSize` stands for 2^32, scaled down with the
  windows.

### 4.2 Fairness

* `UploadTransfer`, `DownloadTransfer`: weak fairness of each program's thread.
  They are JVM threads, always enabled but while they wait for the other side;
  the client's wait for a line is bounded by `setSoTimeout(30000)`, which is
  part of `Client`. Nothing forces a user to leave or connect.
* `Sessions`: weak fairness of each server thread, of the client's two loops, of
  the kernel that ends its retransmissions (`NetReset`), and of the user who
  goes on trying some ID: `GrantedAtLast` is about this user. That he tries is
  the assumption of the property, not a claim about the program.
* `FileStore` and `MessageBoard`: none, and no liveness is stated of them.
* `TcpSender`: weak fairness of `Step`, which is everything but the losses: the
  simulator carries out each event that is scheduled. It is written out with
  `Pending`, which says when `Step` is enabled, so that TLC need not compute
  that from the handlers. Nothing is asked of the network: its losses are
  bounded by `MaxDrops`, and what is not lost arrives.

`CHECK_DEADLOCK FALSE` stands in the configurations because transfers and
bounded sessions really come to an end.

## 5. Properties

* `AllOrNothing`: however `receiveFile` ends, the reservation is given back, and
  index and disk agree.
* `SuccessIsStored`, `SuccessIsIntact`: "Upload successful!" is said only of a
  stored file of the announced length; of the client's own bytes, if reads are
  whole.
* `NoticeIffStored`: the student who asked is told of exactly the files that are
  there.
* `UploadEnds`, `ServerEnds`: a transfer ends on the server once its client has
  connected, and an upload on the client too, if a client that is gone has its
  socket closed by its kernel. A client that falls silent without that blocks
  the server's read for ever; this is not modelled.
* `NoByteLost`, `LargeIsIntact`, `ClosedIsToldSuccess`: what is saved is what was
  read, in order, and padding.
* `TakeoverIsEarned`: a login takes an ID only from a connection found broken, or
  from one that was put between its lookup and its own put.
* `GrantedIsKnown`: a "Yes:" stands for both maps and the directory.
* `OfflineIsGone`: when the list calls an ID offline, no open connection is
  logged in by it, neither the one in `user_list` nor another, unless a put has
  lost the ID's entry or was put over a connection that had come in between the
  lookup and the put. (A student who is gone and listed as active is the other
  direction, which the code does not exclude: `ActiveIsOnline`, section 7.)
* `GrantedAtLast`: a student alone at the server is granted a login, although the
  server never forgets a connection.
* `OnlyOnesOwn`: whatever overlaps, nobody is shown what is not meant for him.
* `KnownWhenSeen`: a request that can be read can be answered, until two
  `requests.put` have overlapped.
* `ExactlyOnceAlone`: a mailbox in which no two threads ever were together shows
  every message once and in order.
* `BufferAccounted`: `FILE_BUFFER` is what the uploads in progress hold, wrapped
  into an `int`, less the adds that racing threads overwrote, and these are
  missing whole: a race is the only way in which the count goes wrong.
* `ListedIdsResolve`: an ID a listing shows can be downloaded, and is of this
  file, until two threads are in one index at the same time.
* `KeptIsVerified`: without a restart, a file that stays was verified by one of
  its uploads, whatever overlaps.
* `ImplementsStore`: the refinement of section 3.5.
* `ScoreboardConsistent`: after every handler the three counters are the sizes of
  what the flags say, no segment is lost and SACKed, no flag is outside the
  sent list: `TcpTxBuffer::ConsistencyCheck`, which the build leaves out.
* `LostFromBelow`: no segment is taken for lost while one below it is taken for on
  its way.
* `UnaNotSacked`: SND.UNA is never SACKed, so that the repair in `DiscardUpTo`
  (742-766) is dead code under SACK, and `UpdateLostCount` may mark the head lost
  without a look at its flag.
* `AcknowledgedIsReceived`: what the sender has dropped, or will not send again
  because it was SACKed, has arrived.
* `CongestionStates`: the duplicate count and the recovery point go with the
  state, as `DupAck`, `ProcessAck` and `ReTxTimeout` assert on entry.
* `TimerRuns`: while something is outstanding, the retransmission timer runs.
* `TimeoutSendsHead`: the two assertions at the end of `ReTxTimeout`.
* `GivesUpOnlyForLosses`: the connection is given up for one lost or late
  message per retry and no less.
* `RecoveryIsPaced`: a step of recovery leaves no more sent than was delivered
  since it began, and the fast retransmission; or it sends no more than it
  delivered (and one segment, unless more was sent than delivered before); or,
  above the threshold, no more was sent than the threshold's share of what was
  delivered, and the fast retransmission. The first alternative alone is not
  true: in the slow-start mode of the rate reduction each ack may send a segment
  more than it delivered.
* `SendsWithinWindow`: a step that sends leaves at most the window and one
  segment in flight.
* `DeliveredAtLast`: everything is acknowledged, or the connection given up,
  however small `TcpConstant` makes the window.

## 6. Proofs

Each theorem is proved for every value of the constants that its module's named
assumption allows, which is more than any run can show; TLC checked the
invariants named below before they were proved. The `*Types` theorems and
`TypeCorrect` state `TypeOK`.

### 6.1 Uploads (`SizesAssumption`: any sizes, positive chunks)

| theorem | states |
|---|---|
| `UploadInvariant`, `UploadTypes` | `Spec => [](TypeOK /\ Inv)` |
| `UploadAllOrNothing`, `UploadSuccessIsStored`, `UploadNotice` | the invariants of these names |
| `UploadSuccessIsIntact` | `SuccessIsIntact` |

`AllOrNothing` is not inductive. `Inv` adds what the server's thread owns while
it works (`Working`: its file and index entries exist from the first chunk to
the check, no notice is out, `n_chunks` is positive while it reads), what the
thread has decided while it still has to delete or to release (`Decided`), and
that an `up_done` line on its
way stands for a stored file (`DoneLineIsStored`). The steps of the client leave
the server's variables and only consume lines (`ClientKeepsInv`); the steps of
the server are taken one by one (`ServerStepInv`).

`SuccessIsIntact` needs a second invariant, `Intact`. The acknowledgement of
each chunk keeps the two loops in step (`InStep`): what is on its way is nothing
or the one chunk the server waits for, byte by byte the continuation of what is
on the disk. Only padding after the last byte can differ, and with it the length.

### 6.2 Downloads (`DownloadAssumption`)

| theorem | states |
|---|---|
| `DownloadInvariant`, `DownloadTypes` | `Spec => [](TypeOK /\ Inv)` |
| `DownloadNoByteLost` | `NoByteLost`, for any growth of the file and any splitting of the stream |
| `DownloadClosed` | `ClosedIsToldSuccess` |
| `DownloadLargeIsIntact` | `LargeIsIntact` |

`NoByteLost` says that the numbers 1 to `pos` are in `saved \o down` once, in
order, among bytes that are none (`InOrder`). Two lemmas on sequences carry it: a
buffer appended extends the order (`OrderExtended`), padding inserted anywhere
keeps it (`OrderPadded`); `Receive` is an insertion of padding. `Phases` and
`Counted` relate the messages, the two loops and the lengths.
`LargeIsIntact` rests on `Straight`: while every chunk arrives in one piece,
`pos` and `Len(saved)` are what the two chunk counters say (`Sent`), and the bytes
between are the difference. It is there that the sizes of the chunks have to add
up to that of the file (`SentArithmetic`), and that an empty last chunk is read
before or after it is sent without harm.

### 6.3 Sessions (`SessionsAssumption`: any students, spellings, connections, with or without lossy maps)

| theorem | states |
|---|---|
| `SessionsInvariant`, `SessionsTypes` | `Spec => [](TypeOK /\ Inv)` |
| `SessionsTakeover` | `TakeoverIsEarned` |
| `SessionsOffline` | `OfflineIsGone` |
| `SessionsGranted` | `GrantedIsKnown` |

`Inv` has three parts: what a thread's local variables hold where it uses them
(`LocalsReady`), the agreement of the server's kernel with the clients
(`NetFollowsClient`), and that a thread about to put has found no other
connection or a broken one (`FoundIsBroken`), which stays so because a reset is
never forgotten. `PutLemma` is what both action properties need of an
overlapping put: it may lose entries and changes none. `SessionsOffline` has an
invariant of its own too (`Entries`): an open connection that is logged in by an
ID, or about to be, is the one in `user_list`, as long as the ID is not contested.
`UserListChanges` and
`ShownGrows` find the one action that can disturb each of them.
`SessionsGranted` has an invariant of its own, `Kept`, for maps that lose
nothing: from the moment a thread has the verdict "Yes" in hand, through the
queue, to the client that has heard it, both maps have the connection.

### 6.4 Mailboxes (`BoardAssumption`, `NamesAssumption`: the sets are finite and apart)

| theorem | states |
|---|---|
| `BoardInvariant`, `BoardTypes` | `Spec => []Inv`, from which `TypeOK` |
| `BoardOnlyOnesOwn`, `BoardKnownWhenSeen` | the invariants of these names |
| `BoardExactlyOnce` | `ExactlyOnceAlone` |

`Inv` says of every array that what is in it, read or not, is meant for its
owner (`Boxes`, `Shown`): `append`s that overwrite one another never carry a
message into another mailbox. What was appended is appended once (`SentSettled`,
`SentOnce`), from which a pigeonhole argument bounds `count` (`Bounded`), which
`TypeOK` needs. `requests` is within what was posted, and until two puts overlap
it is all of it (`Types`). `BoardExactlyOnce` adds an invariant of mailboxes no
two threads ever worked on at once.

### 6.5 The store (`StoreAssumption`)

| theorem | states |
|---|---|
| `StoreInvariant`, `StoreTypes` | `Spec => []Inv`, a conjunct of which is `TypeOK` |
| `StoreListedResolve` | `ListedIdsResolve` |
| `StoreKeptIsVerified` | `KeptIsVerified` |
| `StoreBufferAccounted` | `BufferAccounted` |
| `StoreRefinement` | `Spec => ImplementsStore` |

None of them assumes that `+=` or a put is one step, that ports are apart, that
opens succeed or that the server stays up; where a property holds only without
such an event, it says so itself (`torn`, `crashes`, `Disturbed`). The events
are needed: section 7 has the behaviours that show it.

`StoreBufferAccounted` counts chunks: what uploads hold is the number of the
pairs of a holder and one of its chunks (`Reserved`). Whether an
upload holds its share is told by its program counter, and in the exception
handler, whose removals are the same lines, by its result. `Accounted` says of
`FILE_BUFFER`, and of what every thread has read and not yet written back, that
it is the sum of the shares held, but for the adds it does not contain (`lost`,
`missed[u]`); and that these adds were really made (`Over`), so that none is
missing twice. A write changes who holds and makes what the writer missed the
adds that are lost, while all others that have read before now miss it
(`WriteAccounts`); every other step leaves the shares (`QuietAccounts`). A
disjoint union adds its sizes (`ReservedPlus`), and sums that wrap may be taken
in any order (`AddAgain`), so that an overflow in between does no harm here.

For the indexes `Indexed` says what each thread finds in them at each of its
steps, as long as `torn` is false; `SpoiltAt` is all that is known of them
afterwards, which is their types. `StoreKeptIsVerified` follows a file from the
upload that opened it: somebody who has still to check it, or has, vouches for
it (`Vouches`, `Kept`).

The refinement argues that no upload touches what is of another path: every step
has a footprint on the indexes and on the disk, and an upload that has its name
to itself (`Lone`) finds everything as it left it, on whatever port it is
(`LoneInv`), until it accepts a foreign client (`PeerKept`). Each step then maps
to a step of `AbstractStore` for its upload, to a stutter, or to `Disturb`, and
the others are spared (`Spares`).

### 6.6 TCP (`TxBufferAssumption`, `ConstantAssumption`, `SenderAssumption`)

| theorem | states |
|---|---|
| `InvHolds`, `TypeCorrect` | `Spec => []Inv`, a conjunct of which is `TypeOK` |
| `LostFromTheHeadOn` | `LostFromBelow` |
| `ScoreboardIsConsistent`, `UnaIsNotSacked`, `NothingForgotten`, `StatesAreKept`, `TimerKeepsRunning` | `ScoreboardConsistent`, `UnaNotSacked`, `AcknowledgedIsReceived`, `CongestionStates`, `TimerRuns` |
| `TimeoutsSendTheHead` | `TimeoutSendsHead` |
| `GivenUpForLosses` | `GivesUpOnlyForLosses` |
| `SendingFitsTheWindow` | `SendsWithinWindow` |
| `RecoveryKeepsPace` | `RecoveryIsPaced` |
| `NothingHeldBack` | when a handler ends, the window has no room for a segment or `NextSeg` names none to send |

for any stream, threshold, windows, estimates, word size, retries and losses.
The proof has the layers of the code. `TcpTxBufferProofs` states what each
operation of the buffer keeps and what it does to the counters;
`TcpSocketProofs` what each handler of the sending socket keeps, from the
lemmas of the operations it calls; `TcpSenderProofs` what the receiver keeps
(its SACK blocks are contiguous and of segments that came), and the whole.

`UnaNotSacked` is the interesting one. That the sender never holds its head to
be SACKed depends on what is in the network, on acks sent long ago and on the
order they come in. `AcksInv` is what makes it inductive: no ack on its way
carries the number of a segment that an ack with a lower or the same number
reports. It follows from the receiver (it acknowledges up to the first
segment it lacks, and lacks that one in all acks before), and it is enough,
because an ack moves the head to its number.

`GivenUpForLosses` is not inductive: between a time-out and the ack that
restarts the count, a retry is spent although nothing needs to be lost.
`RetriesInv` says that every retry spent since the last restart is paid for by a
loss or an early time-out, but for one, whose message is still on its way
(`OnItsWay`: the head, an ack above it, or the delayed ack of a receiver who has
it), and that the state stays LOSS meanwhile. Each message of these is
followed from the sender to the receiver and back; it is lost or it arrives, and
a second time-out before that is an early one.

For `SendingFitsTheWindow` the loop of `SendPendingData` is one sum: it sends as
many segments as there is room for and `NextSeg` allows, in this order.
`DoRetransmit` sends without a look at the window, and is only called right
after a window has been computed that is no smaller than what is in flight
(`RetransmitFits`): `Asked` says that the flight it was computed from is the
true one, or one segment less because the head has just been sent again, and
then `PartialAck` sends nothing. The same sum gives `NothingHeldBack`: a second
call of `SendPendingData` would send nothing (`Idles`), which each handler
keeps.

`RecoveryKeepsPace` looks at what will have been sent when the window is filled
(`Reach`): the window of proportional rate reduction bounds it by one of three
terms (`Paced`), and sending moves an amount from the window to what was
sent and leaves the sum. It needs `Idles` before the step, since room left over
would be sent at once. An ack that enters recovery calls `DoRecovery` twice, with
the same delivery and the same `bytesInFlight`: the fast retransmission between
them is sent after the flight was taken. `Began` relates the counts of the first
call to the second, whose window may therefore be a segment less than what is in
flight.

### 6.7 What is model-checked only

Liveness, which is out of the prover's reach: `UploadEnds`, `ServerEnds`,
`GrantedAtLast`, `DeliveredAtLast`. Every invariant and every
action property that a passing run checks is a theorem.

## 7. Divergences

The five violated runs are disagreements of the code with
`TCPFileManager/README.md`; `PROJECT.json` quotes the sentences. More
statements of that document are written down next to them in the modules and
are violated too. They have no run of their own here. To see one, put it in the
place of the property of the configuration named, with the constants given.

| property | configuration | what happens |
|---|---|---|
| `RequestedUploadStored` | `MCUpload` | a received file is deleted because the student who asked has no mailbox |
| `AbortedIsRemoved` | `MCUpload` | the client times out and says that the file was removed, and the server has stored it |
| `AllEverListed` | `MCSessions`, `Lossy = {TRUE}`, two IDs | a student's entry is lost in overlapping puts |
| `StudentListedOnce` | `MCSessions` | two spellings, two entries |
| `DeniedOnlyIfThere`, `ActiveIsOnline` | `MCSessions` | a connection that was closed takes one more write |
| `DeniedIsTerminated` | `MCSessions` | a denied client may go on |
| `SessionLives` | `MCSessions` | an empty ID, or a login during a walk over the list, ends the thread and not the connection |
| `WelcomeIsTrue` | `MCSessionsDouble` | a late "Yes:" for an earlier ID |
| `ComesIn` | `MCSessionsLive` | each attempt of a student spoils its own answer |
| `NothingTwice` | `MCBoard` with `MaxReads = 2` | `append` writes back a count from before the clearing |
| `BroadcastReachesAll`, `ViewerIsAnswered` | `MCBoard` | IDs 1705000 to 1705099 may log in and have no mailbox |
| `FreeAtRest` | `MCStore` | a lost update of `FILE_BUFFER` |
| `BufferBounded` | `MCStore` | two uploads pass the check before either reserves |
| `HugeIsRefused` | `MCStore` with `MaxBuffer = MaxInt = 2` | the sum wraps |
| `StoredIsOwn` | `MCStore` | two uploads draw one port |
| `ListedHasID` | `MCStore` | a restart, or two threads in one index |
| `DownloadIsFile`, `ClientEnds` | `MCDownload` | padding, appending to an old download; a file deleted before it is opened |

Where comments of ns-3's TCP say something else than its code, the models
follow the code:

* `tcp-socket-base.cc` 3716-3722: the threshold is said to be lowered only if
  the segment "has not yet been resent by way of the retransmission timer". The
  test comes after `SetSentListLost`, which has just cleared every `m_retrans`,
  so that it never finds the head retransmitted and every time-out lowers it.
* 1735-1739: the comment speaks of `IsLost(HighACK + 1)`; the code asks for
  `highRxAckMark + segmentSize`, the segment after the first outstanding one. An
  ack that SACKs enough for the head alone leaves the sender in DISORDER, where
  `SendPendingData` retransmits the head outside recovery.
* 1708-1716: DISORDER is said to have `m_recoverActive` possibly set.
  `CongestionStates` shows that it is set in RECOVERY and LOSS only.
* 3848-3883: `DoRetransmit` sends what `NextSeg` names, which may be new data
  (`NextSeg`'s second rule), without a look at the window: hence the one segment
  in `SendsWithinWindow`.
* `tcp-socket-base.cc` 3370-3371: `m_bytesInFlight` is said to be "used only for
  tracing purpose"; `TcpPrrRecovery::DoRecovery` computes its window from it, and
  finds there the flight of before the last segment sent (3042-3043).
* `tcp-tx-buffer.h` 611 calls `m_highestSack` the highest SACKed byte; `Update`
  sets it to the last block that was news (`tcp-tx-buffer.cc` 835), which may be
  a lower one. A SACK does not clear `m_retrans` either (830).

## 8. Not modelled

* The listings of directories (`mFiles:`, `oFiles:`) only read the disk.
* Menus, parsing and printing of the console; the formats of lines are
  model values where a property does not depend on them.
* What a `HashMap` may do when threads change it at the same time is taken to be
  the loss of entries or of a change. That a bin becomes a cycle (before Java 8),
  or a tree that is half built, is not modelled.
* In `FileStore` the two lookups by which an upload that answers a request finds
  who asked are in `MessageBoard`; here they may fail (`NotifyFails`).
* An ID that is none is answered `InvalidUser:` and changes nothing. `Take` has
  the case; the instance leaves it out to stay small.
* Of TCP: connecting and closing, ECN, pacing, window probes, the receiver's
  window, segments of different sizes, the clock (`EstimateRtt`, the bandwidth
  filter of `TcpConstant::EstimateBW`: a choice of their outcomes stands for
  them), the application that writes while the transfer goes on.
* The rest of ns-3 is vendored: other congestion controls, IP, UDP, routing,
  neighbour caches. `PROJECT.json` lists its parts.
* All that the repository has in Python is registration and configuration:
  `modulegen__gcc_LP64.py` and `modulegen__gcc_ILP32.py` were generated by
  PyBindGen and register the classes and methods of ns-3 one after the other,
  `callbacks_list.py` and `test/examples-to-run.py` are lists, and the two
  `wscript` files name what is built. They hold no state and make no decision;
  a model of them would be a list of names, of which nothing could be stated.
  The programs of this repository are in Java and C++, and that is what the
  modules model.

## 9. Plan

Done: `Chunks`, `UploadTransfer`, `DownloadTransfer`, `HashMaps`, `Sessions`,
`MessageBoard`, `AbstractStore`, `FileStore`, `TcpTxBuffer`, `TcpRxBuffer`,
`TcpConstant`, `TcpSender`, each with its proofs.

What is left:

1. `FileServer`: the command loop as a composition of `Sessions`, `MessageBoard`
   and `FileStore`, with one reader and its read-ahead, to state what pings and
   exceptions in the middle of a command do across components.
2. Of TCP: closing (FIN segments in the scoreboard), the receiver's window and
   its probes.
3. Of ns-3: the ARP cache and RIP with their timers.
4. Proofs: an abstract reliable stream, and that the sender and the receiver
   implement it; the ends that the liveness runs show, as bounds on the number of
   steps left.
