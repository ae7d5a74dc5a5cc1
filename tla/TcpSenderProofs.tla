-------------------------- MODULE TcpSenderProofs --------------------------
(***************************************************************************)
(* The transfer as a whole.  The inductive invariant relates the three     *)
(* places an acknowledgement passes: what the receiver has, what is on its *)
(* way, and the sender's scoreboard.  UnaNotSacked is the reason for most  *)
(* of it: for SND.UNA never to become a SACKed segment, no acknowledgement *)
(* may carry the number of a segment that one with a lower number reports, *)
(* whatever order they come in.                                            *)
(***************************************************************************)
EXTENDS TcpSocketProofs

(* The receiver's buffer: what comes is kept, what is reported has come,   *)
(* and it lies above the next segment in sequence.                         *)

(* A block has no holes: ClearSackList drops a block by its end, which is  *)
(* right only for such blocks.                                             *)
Contiguous(B) == \A i, j \in B : \A k \in i .. j : k \in B

RxShapes == [next : 1..(NumSegs + 1), ooo : SUBSET Segs, sackList : Blocks]

RxOK(r) ==
  /\ r \in RxShapes
  /\ r.ooo \subseteq (r.next + 1) .. NumSegs
  /\ \A k \in Rx!Places : r.sackList[k] \subseteq r.ooo /\ Contiguous(r.sackList[k])

-----------------------------------------------------------------------------
(* The end of the sequence is there: segment NumSegs + 1 never comes.      *)
LEMMA InSequenceOK ==
  ASSUME NEW next \in 1..(NumSegs + 1), NEW have, have \subseteq Segs
  PROVE  LET k == Rx!InSequence(next, have)
         IN /\ k \in next .. (NumSegs + 1) /\ k \notin have
            /\ \A j \in next .. (k - 1) : j \in have
<1> DEFINE T == {k \in next .. (NumSegs + 1) : k \notin have}
           m == Min(T)
<1>1. NumSegs \in Nat /\ next \in Nat /\ next <= NumSegs + 1
  BY TxBufferAssumption
<1>2. T \subseteq Nat /\ T # {}
  <2>1. NumSegs + 1 \notin have
    BY <1>1 DEF Segs
  <2>2. NumSegs + 1 \in T
    BY <1>1, <2>1
  <2> QED
    BY <1>1, <2>2
<1>3. m \in T /\ \A x \in T : m <= x
  <2> HIDE DEF T
  <2> QED
    BY <1>2, LeastExists
<1>4. \A j \in next .. (m - 1) : j \in have
  <2> SUFFICES ASSUME NEW j \in next .. (m - 1), j \notin have PROVE FALSE
    OBVIOUS
  <2>1. m \in next .. (NumSegs + 1)
    BY <1>3
  <2>2. j \in T
    BY <1>1, <2>1
  <2>3. m <= j
    BY <1>3, <2>2
  <2> QED
    BY <1>1, <2>1, <2>3
<1> HIDE DEF m
<1>5. \E k \in next .. (NumSegs + 1) : k \notin have /\ \A j \in next .. (k - 1) : j \in have
  BY <1>3, <1>4
<1> QED
  BY <1>5, Zenon DEF Rx!InSequence

(* The blocks after a segment has come: of what is there, without holes.   *)
LEMMA MergedOK ==
  ASSUME NEW i \in Segs, NEW F, \A B \in F : B \subseteq Segs /\ Contiguous(B) /\ Rx!Touches(B, i)
  PROVE  Contiguous({i} \cup UNION F)
<1> DEFINE M == {i} \cup UNION F
<1>1. i \in Int /\ M \subseteq Int /\ Segs \subseteq Int
  BY DEF Segs
<1>2. ASSUME NEW x \in M PROVE /\ \A k \in x .. i : k \in M
                               /\ \A k \in i .. x : k \in M
  <2>1. CASE x = i
    BY <1>1, <2>1
  <2>2. CASE x # i
    <3>1. PICK B \in F : x \in B
      BY <2>2
    <3>2. B \subseteq M /\ Contiguous(B) /\ B \subseteq Int
      BY <1>1, <3>1
    <3>3. i - 1 \in B \/ i + 1 \in B
      BY <3>1 DEF Rx!Touches
    <3>4. CASE i - 1 \in B
      <4>1. \A k \in x .. (i - 1) : k \in B
        BY <3>1, <3>2, <3>4 DEF Contiguous
      <4>2. \A k \in (i - 1) .. x : k \in B
        BY <3>1, <3>2, <3>4 DEF Contiguous
      <4>3. ASSUME NEW k \in x .. i PROVE k \in M
        <5>1. k = i \/ k \in x .. (i - 1)
          BY <1>1, <3>1, <3>2
        <5> QED
          BY <3>2, <4>1, <5>1
      <4>4. ASSUME NEW k \in i .. x PROVE k \in M
        <5>1. k \in (i - 1) .. x
          BY <1>1, <3>1, <3>2
        <5> QED
          BY <3>2, <4>2, <5>1
      <4> QED
        BY <4>3, <4>4
    <3>5. CASE i + 1 \in B
      <4>1. \A k \in x .. (i + 1) : k \in B
        BY <3>1, <3>2, <3>5 DEF Contiguous
      <4>2. \A k \in (i + 1) .. x : k \in B
        BY <3>1, <3>2, <3>5 DEF Contiguous
      <4>3. ASSUME NEW k \in i .. x PROVE k \in M
        <5>1. k = i \/ k \in (i + 1) .. x
          BY <1>1, <3>1, <3>2
        <5> QED
          BY <3>2, <4>2, <5>1
      <4>4. ASSUME NEW k \in x .. i PROVE k \in M
        <5>1. k \in x .. (i + 1)
          BY <1>1, <3>1, <3>2
        <5> QED
          BY <3>2, <4>1, <5>1
      <4> QED
        BY <4>3, <4>4
    <3> QED
      BY <3>3, <3>4, <3>5
  <2> QED
    BY <2>1, <2>2
<1>3. ASSUME NEW a \in M, NEW b \in M, NEW k \in a .. b PROVE k \in M
  <2> HIDE DEF M
  <2>1. k \in a .. i \/ k \in i .. b
    BY <1>1
  <2> QED
    BY <1>2, <2>1
<1> HIDE DEF M
<1>4. Contiguous(M)
  BY <1>3 DEF Contiguous
<1> QED
  BY <1>4 DEF M

(* ... in every place of the list.                                         *)
LEMMA UpdateSackListOK ==
  ASSUME NEW have, have \subseteq Segs, NEW i \in have, NEW list \in Blocks,
         \A k \in Rx!Places : list[k] \subseteq have /\ Contiguous(list[k])
  PROVE  LET t == Rx!UpdateSackList(list, i)
         IN /\ t \in Blocks
            /\ \A k \in Rx!Places : t[k] \subseteq have /\ Contiguous(t[k])
<1> DEFINE F == {list[k] : k \in {h \in Rx!Places : Rx!Touches(list[h], i)}}
           merged == {i} \cup UNION F
           rest == [k \in Rx!Places |-> IF Rx!Touches(list[k], i) THEN {} ELSE list[k]]
           free(k) == \E h \in 1 .. (k - 1) : rest[h] = {}
           t == [k \in Rx!Places |-> IF k = 1 THEN merged
                                     ELSE IF free(k) THEN rest[k] ELSE rest[k - 1]]
<1>1. Rx!UpdateSackList(list, i) = t
  BY DEF Rx!UpdateSackList
<1>2. merged \subseteq have /\ Contiguous(merged)
  <2>1. \A B \in F : B \subseteq Segs /\ B \subseteq have /\ Contiguous(B) /\ Rx!Touches(B, i)
    OBVIOUS
  <2>2. i \in Segs
    OBVIOUS
  <2> HIDE DEF F
  <2> QED
    BY <2>1, <2>2, MergedOK
<1>3. Contiguous({})
  BY DEF Contiguous
<1>4. \A k \in Rx!Places : rest[k] \subseteq have /\ Contiguous(rest[k])
  BY <1>3
<1> HIDE DEF merged, rest
<1>5. \A k \in Rx!Places : t[k] \subseteq have /\ Contiguous(t[k])
  <2> SUFFICES ASSUME NEW k \in Rx!Places PROVE t[k] \subseteq have /\ Contiguous(t[k])
    OBVIOUS
  <2>1. k # 1 => k - 1 \in Rx!Places
    BY DEF Rx!Places
  <2>2. t[k] \in {merged, rest[k]} \/ (k # 1 /\ t[k] = rest[k - 1])
    OBVIOUS
  <2> HIDE DEF t
  <2> QED
    BY <1>2, <1>4, <2>1, <2>2
<1>6. t \in Blocks
  <2>1. \A k \in Rx!Places : t[k] \in SUBSET Segs
    BY <1>5
  <2>2. t = [k \in Rx!Places |-> t[k]]
    OBVIOUS
  <2> HIDE DEF t
  <2> QED
    BY <2>1, <2>2 DEF Blocks
<1> QED
  BY <1>1, <1>5, <1>6

(* The blocks after the sequence has grown: those that ended below it are  *)
(* gone, and those that are left lie above.                                *)
LEMMA ClearSackListOK ==
  ASSUME NEW have, have \subseteq Segs, NEW next \in Nat, next \notin have,
         NEW list \in Blocks,
         \A k \in Rx!Places : list[k] \subseteq have /\ Contiguous(list[k])
  PROVE  LET t == Rx!ClearSackList(list, next)
         IN /\ t \in Blocks
            /\ \A k \in Rx!Places : /\ t[k] \subseteq {j \in have : j >= next}
                                    /\ Contiguous(t[k])
<1> DEFINE t == Rx!ClearSackList(list, next)
<1>1. t = [k \in Rx!Places |-> IF \E i \in list[k] : next <= i THEN list[k] ELSE {}]
  BY DEF Rx!ClearSackList
<1> HIDE DEF t
<1>2. ASSUME NEW k \in Rx!Places
      PROVE  t[k] \subseteq {j \in have : j >= next} /\ Contiguous(t[k])
  <2>1. CASE t[k] = {}
    BY <2>1 DEF Contiguous
  <2>2. CASE t[k] # {}
    <3>1. t[k] = list[k] /\ \E i \in list[k] : next <= i
      BY <1>1, <2>2
    <3>2. PICK i \in list[k] : next <= i
      BY <3>1
    <3>3. ASSUME NEW j \in list[k] PROVE j \in have /\ j >= next
      <4>1. j \in have /\ j \in Int /\ i \in Int
        <5>1. have \subseteq Int
          BY DEF Segs
        <5>2. list[k] \subseteq have
          OBVIOUS
        <5> QED
          BY <3>2, <5>1, <5>2
      <4>2. j < next => next \in j .. i
        BY <3>2, <4>1
      <4>3. j < next => next \in list[k]
        BY <4>2 DEF Contiguous
      <4> QED
        BY <4>1, <4>3
    <3> QED
      BY <3>1, <3>3
  <2> QED
    BY <2>1, <2>2
<1>3. t \in Blocks
  <2>1. \A k \in Rx!Places : t[k] \in SUBSET Segs
    BY <1>2
  <2>2. t = [k \in Rx!Places |-> t[k]]
    BY <1>1
  <2> QED
    BY <2>1, <2>2 DEF Blocks
<1> QED
  BY <1>2, <1>3 DEF t

(* A segment there is room for: it is kept, and nothing else is lost.      *)
LEMMA AddOK ==
  ASSUME NEW r, RxOK(r), NEW i \in Segs, Rx!CanAdd(r, i)
  PROVE  LET t == Rx!Add(r, i)
         IN /\ RxOK(t) /\ r.next <= t.next
            /\ Rx!Received(t) = Rx!Received(r) \cup {i}
<1> DEFINE have == r.ooo \cup {i}
           next == Rx!InSequence(r.next, have)
           list == IF i > r.next THEN Rx!UpdateSackList(r.sackList, i) ELSE r.sackList
           left == {j \in have : j >= next}
           blocks == IF next = r.next THEN list ELSE Rx!ClearSackList(list, next)
           t == Rx!Add(r, i)
<1>1. /\ r.next \in 1..(NumSegs + 1) /\ r.ooo \subseteq Segs /\ r.sackList \in Blocks
      /\ NumSegs \in Nat /\ r.ooo \subseteq (r.next + 1) .. NumSegs
      /\ \A k \in Rx!Places : r.sackList[k] \subseteq r.ooo /\ Contiguous(r.sackList[k])
  BY TxBufferAssumption DEF RxOK, RxShapes
<1>2. i \in Nat /\ r.next <= i /\ i <= NumSegs /\ i \notin r.ooo
  BY DEF Segs, Rx!CanAdd
<1>3. have \subseteq Segs /\ i \in have /\ \A j \in have : j \in Nat /\ r.next <= j
  BY <1>1, <1>2 DEF Segs
<1>4. t = [next |-> next, ooo |-> left, sackList |-> blocks]
  BY DEF Rx!Add
<1> HIDE DEF t, next
<1>5. /\ next \in r.next .. (NumSegs + 1) /\ next \notin have
      /\ \A j \in r.next .. (next - 1) : j \in have
  <2> HIDE DEF have
  <2> QED
    BY <1>1, <1>3, InSequenceOK DEF next
<1>6. next \in Nat /\ r.next <= next /\ next \in 1..(NumSegs + 1)
  BY <1>1, <1>5
<1>7. /\ list \in Blocks
      /\ \A k \in Rx!Places : list[k] \subseteq have /\ Contiguous(list[k])
  <2>0. \A k \in Rx!Places : r.sackList[k] \subseteq have /\ Contiguous(r.sackList[k])
    BY <1>1
  <2> HIDE DEF have
  <2>1. CASE i > r.next
    BY <1>1, <1>3, <2>0, <2>1, UpdateSackListOK
  <2>2. CASE ~(i > r.next)
    BY <1>1, <2>0, <2>2
  <2> QED
    BY <2>1, <2>2
<1> HIDE DEF list
<1>8. left \subseteq (next + 1) .. NumSegs /\ left \subseteq Segs
  BY <1>3, <1>5, <1>6 DEF Segs
<1>9. /\ blocks \in Blocks
      /\ \A k \in Rx!Places : blocks[k] \subseteq left /\ Contiguous(blocks[k])
  <2>1. CASE next = r.next
    <3>1. left = have
      BY <1>3, <2>1
    <3> QED
      BY <1>7, <2>1, <3>1
  <2>2. CASE next # r.next
    <3> DEFINE c == Rx!ClearSackList(list, next)
    <3> HIDE DEF c, have
    <3>1. /\ c \in Blocks
          /\ \A k \in Rx!Places : /\ c[k] \subseteq {j \in have : j >= next}
                                  /\ Contiguous(c[k])
      BY <1>3, <1>5, <1>6, <1>7, ClearSackListOK DEF c
    <3> QED
      BY <2>2, <3>1 DEF c
  <2> QED
    BY <2>1, <2>2
<1> HIDE DEF left, blocks
<1>10. t.next = next /\ t.ooo = left /\ t.sackList = blocks /\ t \in RxShapes
  BY <1>4, <1>6, <1>8, <1>9 DEF RxShapes
<1>11. RxOK(t)
  BY <1>8, <1>9, <1>10 DEF RxOK
<1>12. Rx!Received(t) = Rx!Received(r) \cup {i}
  <2>1. Rx!Received(t) = 1 .. (next - 1) \cup left
    BY <1>10 DEF Rx!Received
  <2>2. Rx!Received(r) \cup {i} = 1 .. (r.next - 1) \cup have
    BY DEF Rx!Received
  <2>3. 1 .. (next - 1) = 1 .. (r.next - 1) \cup r.next .. (next - 1)
    BY <1>1, <1>6
  <2>4. r.next .. (next - 1) \subseteq have
    BY <1>5
  <2>5. left \subseteq have /\ \A j \in have : j \in left \/ j \in r.next .. (next - 1)
    BY <1>3, <1>6, <1>1 DEF left
  <2> HIDE DEF have
  <2> QED
    BY <2>1, <2>2, <2>3, <2>4, <2>5, Zenon
<1> QED
  BY <1>6, <1>10, <1>11, <1>12 DEF t

(* What an acknowledgement says of a receiver: the next segment, which it  *)
(* has not, and segments above that it has.                                *)
LEMMA AckOfOK ==
  ASSUME NEW r, RxOK(r)
  PROVE  LET m == AckOf(r)
         IN /\ m \in [ack : 1..(NumSegs + 1), blocks : Blocks] /\ m.ack = r.next
            /\ r.next \notin Rx!Received(r)
            /\ Reported(m.blocks) \subseteq Rx!Received(r)
            /\ \A j \in Reported(m.blocks) : j \in Int /\ j > m.ack
<1> DEFINE b == Rx!SackOption(r)
<1>1. /\ r.next \in 1..(NumSegs + 1) /\ NumSegs \in Nat /\ r.sackList \in Blocks
      /\ r.ooo \subseteq (r.next + 1) .. NumSegs
      /\ \A k \in Rx!Places : r.sackList[k] \subseteq r.ooo
  BY TxBufferAssumption DEF RxOK, RxShapes
<1>2. b = [k \in Rx!Places |->
             IF k = 4 /\ \A h \in 1..3 : r.sackList[h] # {} THEN {} ELSE r.sackList[k]]
  BY DEF Rx!SackOption
<1> HIDE DEF b
<1>3. b \in Blocks /\ \A k \in Rx!Places : b[k] \subseteq r.ooo
  BY <1>1, <1>2, Zenon DEF Blocks
<1>4. Reported(b) \subseteq r.ooo
  BY <1>2, <1>3 DEF Reported
<1>5. r.next \notin Rx!Received(r) /\ r.ooo \subseteq Rx!Received(r)
  BY <1>1 DEF Rx!Received
<1>6. AckOf(r) = [ack |-> r.next, blocks |-> b]
  BY DEF AckOf, b
<1>7. \A j \in r.ooo : j \in Int /\ j > r.next
  BY <1>1
<1> QED
  BY <1>1, <1>3, <1>4, <1>5, <1>6, <1>7

(* The buffer of a receiver nothing has come to.                           *)
LEMMA EmptyRxOK == RxOK(Rx!EmptyRx) /\ Rx!Received(Rx!EmptyRx) = {}
<1> DEFINE r == Rx!EmptyRx
<1>1. r = [next |-> 1, ooo |-> {}, sackList |-> Rx!NoBlocks] /\ 1 \in 1..(NumSegs + 1)
  BY TxBufferAssumption DEF Rx!EmptyRx
<1>2. Rx!NoBlocks \in Blocks /\ \A k \in Rx!Places : Rx!NoBlocks[k] = {}
  BY DEF Rx!NoBlocks, Blocks
<1> HIDE DEF r
<1>3. r \in RxShapes
  BY <1>1, <1>2 DEF RxShapes
<1>4. RxOK(r)
  BY <1>1, <1>2, <1>3 DEF RxOK, Contiguous
<1>5. Rx!Received(r) = {}
  BY <1>1 DEF Rx!Received
<1> QED
  BY <1>4, <1>5 DEF r

-----------------------------------------------------------------------------
(* The transfer as a whole.                                                *)

SenderInv ==
  /\ BaseOK(snd) /\ SocketStates(snd, snd.buf.head)
  /\ snd.closed \/ TimerOK(snd, snd.buf.head)

ReceiverInv == RxOK(rx) /\ arrived = Rx!Received(rx)

(* What has come was sent, and what the sender knows has come.             *)
ConnectionInv ==
  /\ \A i \in Segs : wire[i] > 0 => i < snd.buf.high
  /\ \A i \in arrived : i < snd.buf.high
  /\ snd.buf.head <= rx.next
  /\ snd.buf.sacked \subseteq arrived

AckOK(m, next, came, b) ==
  /\ m.ack <= next
  /\ Reported(m.blocks) \subseteq came
  /\ \A j \in Reported(m.blocks) : j \in Int /\ j > m.ack
  /\ m.ack >= b.head => m.ack \notin b.sacked

AcksInv ==
  /\ \A m \in acks : AckOK(m, rx.next, arrived, snd.buf)
  /\ \A m1, m2 \in acks : m1.ack >= m2.ack => m1.ack \notin Reported(m2.blocks)

Inv == TypeOK /\ SenderInv /\ ReceiverInv /\ ConnectionInv /\ AcksInv

-----------------------------------------------------------------------------
(* What every proof about a step needs to know of the numbers.             *)
LEMMA InvFacts ==
  ASSUME Inv
  PROVE  /\ snd.buf.head \in Nat /\ snd.buf.high \in Nat /\ rx.next \in Nat /\ NumSegs \in Nat
         /\ 1 <= snd.buf.head /\ snd.buf.head <= snd.buf.high /\ snd.buf.high <= NumSegs + 1
         /\ rx.next <= NumSegs + 1 /\ 1 <= rx.next /\ rx.next <= snd.buf.high
         /\ 1 .. (rx.next - 1) \subseteq arrived /\ rx.next \notin arrived
         /\ \A m \in acks : m.ack \in Nat
<1>1. /\ snd.buf.head \in 1..(NumSegs + 1) /\ snd.buf.high \in 1..(NumSegs + 1)
      /\ snd.buf.head <= snd.buf.high /\ NumSegs \in Nat
  BY BaseFacts, TxBufferAssumption DEF Inv, SenderInv
<1>2. rx.next \in 1..(NumSegs + 1) /\ rx.ooo \subseteq (rx.next + 1) .. NumSegs
  BY DEF Inv, ReceiverInv, RxOK, RxShapes
<1>3. arrived = 1 .. (rx.next - 1) \cup rx.ooo
  BY DEF Inv, ReceiverInv, Rx!Received
<1>4. rx.next \notin arrived /\ 1 .. (rx.next - 1) \subseteq arrived
  BY <1>1, <1>2, <1>3
<1>5. rx.next <= snd.buf.high
  <2>1. CASE rx.next = 1
    BY <1>1, <2>1
  <2>2. CASE rx.next > 1
    <3>1. rx.next - 1 \in arrived
      BY <1>1, <1>2, <1>4, <2>2
    <3>2. rx.next - 1 < snd.buf.high
      BY <3>1 DEF Inv, ConnectionInv
    <3> QED
      BY <1>1, <1>2, <3>2
  <2> QED
    BY <1>1, <1>2, <2>1, <2>2
<1>6. \A m \in acks : m.ack \in Nat
  BY <1>1 DEF Inv, TypeOK
<1> QED
  BY <1>1, <1>2, <1>4, <1>5, <1>6

(* A handler's socket, handed on with what it has sent.                    *)
LEMMA TransmitOK ==
  ASSUME NEW t, BaseOK(t), SocketStates(t, t.buf.head),
         t.closed \/ TimerOK(t, t.buf.head),
         wire \in [Segs -> Nat], \A i \in Segs : wire[i] > 0 => i < t.buf.high,
         Transmit(t)
  PROVE  /\ snd'.buf = t.buf /\ snd'.closed = t.closed
         /\ snd'.dataRetrCount = t.dataRetrCount
         /\ BaseOK(snd') /\ SocketStates(snd', snd'.buf.head)
         /\ snd'.closed \/ TimerOK(snd', snd'.buf.head)
         /\ wire' \in [Segs -> Nat] /\ \A i \in Segs : wire'[i] > 0 => i < snd'.buf.high
<1>1. t \in Sockets /\ t.out \in [Segs -> Nat]
  BY BaseFacts DEF BaseOK
<1>2. snd' = [t EXCEPT !.out = None] /\ wire' = [i \in Segs |-> wire[i] + t.out[i]]
  BY DEF Transmit
<1>3. None \in [Segs -> Nat] /\ \A i \in Segs : None[i] = 0
  BY DEF None
<1>4. /\ snd'.buf = t.buf /\ snd'.timer = t.timer /\ snd'.out = None /\ snd'.prr = t.prr
      /\ snd'.congState = t.congState /\ snd'.dupAckCount = t.dupAckCount
      /\ snd'.recover = t.recover /\ snd'.recoverActive = t.recoverActive
      /\ snd'.closed = t.closed /\ snd'.dataRetrCount = t.dataRetrCount
  BY <1>1, <1>2 DEF Sockets
<1>5. snd' \in Sockets
  BY <1>1, <1>2, <1>3, Zenon DEF Sockets
<1>6. BaseOK(snd')
  BY <1>3, <1>4, <1>5 DEF BaseOK
<1>7. SocketStates(snd', snd'.buf.head) /\ (snd'.closed \/ TimerOK(snd', snd'.buf.head))
  BY <1>4, Zenon DEF SocketStates, TimerOK
<1>8. wire' \in [Segs -> Nat]
  BY <1>1, <1>2
<1>9. ASSUME NEW i \in Segs, wire'[i] > 0 PROVE i < t.buf.high
  <2>1. wire'[i] = wire[i] + t.out[i] /\ wire[i] \in Nat /\ t.out[i] \in Nat
    BY <1>1, <1>2
  <2>2. wire[i] > 0 \/ t.out[i] > 0
    BY <1>9, <2>1
  <2> QED
    BY <2>2 DEF BaseOK
<1> QED
  BY <1>4, <1>6, <1>7, <1>8, <1>9

(* The first window is on its way, and nothing else.                       *)
LEMMA InitInv == Init => Inv
<1> SUFFICES ASSUME Init PROVE Inv
  OBVIOUS
<1> DEFINE t == SendPendingData(NewSocket)
<1>1. /\ BaseOK(t) /\ t.buf.head = 1 /\ t.buf.sacked = {} /\ t.closed = FALSE
      /\ TimerOK(t, 1) /\ SocketStates(t, 1)
  BY NewSocketOK
<1>2. snd = [t EXCEPT !.out = None] /\ wire = t.out
  BY DEF Init
<1> HIDE DEF t
<1>3. t \in Sockets /\ wire \in [Segs -> Nat]
  BY <1>1, <1>2, BaseFacts DEF BaseOK
<1>4. /\ snd.buf = t.buf /\ snd.timer = t.timer /\ snd.out = None /\ snd.prr = t.prr
      /\ snd.congState = t.congState /\ snd.dupAckCount = t.dupAckCount
      /\ snd.recover = t.recover /\ snd.recoverActive = t.recoverActive
  BY <1>2, <1>3 DEF Sockets
<1>5. None \in [Segs -> Nat] /\ \A i \in Segs : None[i] = 0
  BY DEF None
<1>6. snd \in Sockets
  BY <1>2, <1>3, <1>5, Zenon DEF Sockets
<1>7. BaseOK(snd)
  BY <1>1, <1>4, <1>5, <1>6 DEF BaseOK
<1>8. SenderInv
  <2>1. SocketStates(snd, snd.buf.head) /\ TimerOK(snd, snd.buf.head)
    BY <1>1, <1>4, Zenon DEF SocketStates, TimerOK
  <2> QED
    BY <1>7, <2>1 DEF SenderInv
<1>9. rx = Rx!EmptyRx /\ arrived = {} /\ acks = {}
  BY DEF Init
<1>10. ReceiverInv
  BY <1>9, EmptyRxOK DEF ReceiverInv
<1>11. ConnectionInv
  <2>1. \A i \in Segs : wire[i] > 0 => i < snd.buf.high
    BY <1>1, <1>2, <1>4 DEF BaseOK
  <2>2. rx.next = 1
    BY <1>9 DEF Rx!EmptyRx
  <2> QED
    BY <1>1, <1>4, <1>9, <2>1, <2>2 DEF ConnectionInv
<1>12. AcksInv
  BY <1>9 DEF AcksInv
<1>13. TypeOK
  <2>1. rx \in [next : 1..(NumSegs + 1), ooo : SUBSET Segs, sackList : Blocks]
    BY <1>10 DEF ReceiverInv, RxOK, RxShapes
  <2>2. delAckCount \in 0..DelAckCount /\ delAck \in BOOLEAN
    <3>1. delAckCount = DelAckCount /\ delAck = FALSE
      BY DEF Init
    <3>2. delAckCount \in 0..DelAckCount
      BY <3>1, SenderAssumption
    <3>3. delAck \in BOOLEAN
      BY <3>1, Zenon
    <3> QED
      BY <3>2, <3>3
  <2>3. drops \in 0..MaxDrops /\ spurious \in 0..MaxSpurious
    BY SenderAssumption DEF Init
  <2> QED
    BY <1>3, <1>6, <1>9, <2>1, <2>2, <2>3 DEF TypeOK
<1> QED
  BY <1>8, <1>10, <1>11, <1>12, <1>13 DEF Inv

-----------------------------------------------------------------------------
(* A step that leaves the sender alone: segments and acknowledgements may  *)
(* go, a segment may come, and the receiver may acknowledge what it has.   *)
LEMMA BesideSender ==
  ASSUME Inv, snd' = snd, RxOK(rx'), arrived' = Rx!Received(rx'), rx.next <= rx'.next,
         arrived \subseteq arrived', \A i \in arrived' : i < snd.buf.high,
         acks' \subseteq acks \cup {AckOf(rx')},
         wire' \in [Segs -> Nat], \A i \in Segs : wire'[i] <= wire[i]
  PROVE  /\ SenderInv' /\ ReceiverInv' /\ ConnectionInv' /\ AcksInv'
         /\ snd' \in Sockets /\ rx' \in RxShapes /\ arrived' \subseteq Segs
         /\ acks' \subseteq [ack : 1..(NumSegs + 1), blocks : Blocks]
<1> DEFINE a == AckOf(rx')
<1>1. /\ a \in [ack : 1..(NumSegs + 1), blocks : Blocks] /\ a.ack = rx'.next
      /\ rx'.next \notin arrived' /\ Reported(a.blocks) \subseteq arrived'
      /\ \A j \in Reported(a.blocks) : j \in Int /\ j > a.ack
  BY AckOfOK
<1> HIDE DEF a
<1>2. /\ snd.buf.head \in Nat /\ rx.next \in Nat /\ snd.buf.head <= rx.next
      /\ snd.buf.high \in Nat /\ \A m \in acks : m.ack \in Nat
  BY InvFacts DEF Inv, ConnectionInv
<1>3. rx' \in RxShapes /\ rx'.next \in Nat /\ rx'.ooo \subseteq Segs
  BY TxBufferAssumption DEF RxOK, RxShapes
<1>4. SenderInv'
  BY DEF Inv, SenderInv
<1>5. ReceiverInv'
  BY DEF ReceiverInv
<1>6. snd.buf.sacked \subseteq arrived'
  BY DEF Inv, ConnectionInv
<1>7. ConnectionInv'
  <2>1. ASSUME NEW i \in Segs, wire'[i] > 0 PROVE i < snd.buf.high
    <3>1. wire[i] \in Nat /\ wire'[i] \in Nat
      BY DEF Inv, TypeOK
    <3>2. wire[i] > 0
      BY <2>1, <3>1
    <3> QED
      BY <3>2 DEF Inv, ConnectionInv
  <2>2. snd.buf.head <= rx'.next
    BY <1>2, <1>3
  <2> QED
    BY <1>6, <2>1, <2>2 DEF ConnectionInv
<1>8. ASSUME NEW m \in acks PROVE AckOK(m, rx'.next, arrived', snd'.buf)
  <2>1. AckOK(m, rx.next, arrived, snd.buf)
    BY DEF Inv, AcksInv
  <2>2. m.ack <= rx'.next
    BY <1>2, <1>3, <2>1 DEF AckOK
  <2>3. Reported(m.blocks) \subseteq arrived'
    BY <2>1 DEF AckOK
  <2> QED
    BY <2>1, <2>2, <2>3 DEF AckOK
<1>9. AckOK(a, rx'.next, arrived', snd'.buf)
  <2>1. a.ack \notin snd.buf.sacked
    BY <1>1, <1>6
  <2>2. a.ack <= rx'.next
    BY <1>1, <1>3
  <2> QED
    BY <1>1, <2>1, <2>2 DEF AckOK
<1>10. ASSUME NEW m1 \in acks', NEW m2 \in acks', m1.ack >= m2.ack
       PROVE  m1.ack \notin Reported(m2.blocks)
  <2>1. CASE m1 \in acks /\ m2 \in acks
    BY <1>10, <2>1 DEF Inv, AcksInv
  <2>2. CASE m1 = a
    <3>1. Reported(m2.blocks) \subseteq arrived'
      <4>1. CASE m2 \in acks
        BY <1>8, <4>1 DEF AckOK
      <4>2. CASE m2 = a
        BY <1>1, <4>2
      <4> QED
        BY <4>1, <4>2 DEF a
    <3> QED
      BY <1>1, <2>2, <3>1
  <2>3. CASE m1 \in acks /\ m2 = a
    <3>1. m1.ack <= a.ack
      BY <1>1, <1>8, <2>3 DEF AckOK
    <3>2. m1.ack \in Nat /\ a.ack \in Nat
      BY <1>1, <1>2, <1>3, <2>3
    <3>3. m1.ack = a.ack
      BY <1>10, <2>3, <3>1, <3>2
    <3> QED
      BY <1>1, <2>3, <3>3
  <2> QED
    BY <2>1, <2>2, <2>3 DEF a
<1>11. AcksInv'
  <2>1. \A m \in acks' : AckOK(m, rx'.next, arrived', snd'.buf)
    BY <1>8, <1>9 DEF a
  <2> QED
    BY <1>10, <2>1 DEF AcksInv
<1>12. arrived' \subseteq Segs
  <2>1. 1 .. (rx'.next - 1) \subseteq Segs
    BY <1>3, TxBufferAssumption DEF RxShapes, Segs
  <2> QED
    BY <1>3, <2>1 DEF Rx!Received
<1>13. acks' \subseteq [ack : 1..(NumSegs + 1), blocks : Blocks]
  BY <1>1 DEF Inv, TypeOK, a
<1>14. snd' \in Sockets
  BY DEF Inv, TypeOK
<1> QED
  BY <1>3, <1>4, <1>5, <1>7, <1>11, <1>12, <1>13, <1>14

(* A handler of the sender that moves SND.UNA no further than the receiver *)
(* has come, and holds nothing to be SACKed that has not.                  *)
LEMMA SenderMoves ==
  ASSUME Inv, rx' = rx, arrived' = arrived, acks' \subseteq acks,
         NEW t, BaseOK(t), SocketStates(t, t.buf.head),
         t.closed \/ TimerOK(t, t.buf.head),
         snd.buf.high <= t.buf.high, t.buf.head <= rx.next,
         t.buf.sacked \subseteq arrived,
         \A m \in acks' : m.ack >= t.buf.head => m.ack \notin t.buf.sacked,
         Transmit(t)
  PROVE  /\ SenderInv' /\ ReceiverInv' /\ ConnectionInv' /\ AcksInv'
         /\ snd' \in Sockets /\ wire' \in [Segs -> Nat]
         /\ snd'.buf = t.buf /\ snd'.closed = t.closed
         /\ snd'.dataRetrCount = t.dataRetrCount
<1>1. /\ snd.buf.high \in Nat /\ t.buf.high \in Nat /\ arrived \subseteq Nat
  <2>1. arrived \subseteq Nat
    BY DEF Inv, TypeOK, Segs
  <2> QED
    BY <2>1, InvFacts, BaseFacts
<1>2. \A i \in Segs : wire[i] > 0 => i < t.buf.high
  <2> SUFFICES ASSUME NEW i \in Segs, wire[i] > 0 PROVE i < t.buf.high
    OBVIOUS
  <2>1. i < snd.buf.high /\ i \in Int
    BY DEF Inv, ConnectionInv, Segs
  <2> QED
    BY <1>1, <2>1
<1>3. wire \in [Segs -> Nat]
  BY DEF Inv, TypeOK
<1>4. /\ snd'.buf = t.buf /\ snd'.closed = t.closed
      /\ snd'.dataRetrCount = t.dataRetrCount
      /\ BaseOK(snd') /\ SocketStates(snd', snd'.buf.head)
      /\ snd'.closed \/ TimerOK(snd', snd'.buf.head)
      /\ wire' \in [Segs -> Nat] /\ \A i \in Segs : wire'[i] > 0 => i < snd'.buf.high
  BY <1>2, <1>3, TransmitOK
<1>5. SenderInv' /\ snd' \in Sockets
  BY <1>4 DEF SenderInv, BaseOK
<1>6. ReceiverInv'
  BY DEF Inv, ReceiverInv
<1>7. ConnectionInv'
  <2>1. \A i \in arrived : i < t.buf.high
    <3> SUFFICES ASSUME NEW i \in arrived PROVE i < t.buf.high
      OBVIOUS
    <3>1. i < snd.buf.high /\ i \in Nat
      BY <1>1 DEF Inv, ConnectionInv
    <3> QED
      BY <1>1, <3>1
  <2> QED
    BY <1>4, <2>1 DEF ConnectionInv
<1>8. AcksInv'
  <2>1. ASSUME NEW m \in acks' PROVE AckOK(m, rx'.next, arrived', snd'.buf)
    <3>1. AckOK(m, rx.next, arrived, snd.buf)
      BY DEF Inv, AcksInv
    <3> QED
      BY <1>4, <3>1 DEF AckOK
  <2>2. \A m1, m2 \in acks' : m1.ack >= m2.ack => m1.ack \notin Reported(m2.blocks)
    BY DEF Inv, AcksInv
  <2> QED
    BY <2>1, <2>2 DEF AcksInv
<1> QED
  BY <1>4, <1>5, <1>6, <1>7, <1>8

-----------------------------------------------------------------------------
(* The receiving socket.                                                   *)
LEMMA ReceivedDataInv ==
  ASSUME Inv, NEW i \in Segs, ReceivedData(i)
  PROVE  Inv'
<1> DEFINE r == IF Rx!CanAdd(rx, i) THEN Rx!Add(rx, i) ELSE rx
<1>1. /\ wire[i] > 0 /\ wire' = [wire EXCEPT ![i] = @ - 1]
      /\ rx' = r /\ arrived' = arrived \cup {i}
      /\ snd' = snd /\ drops' = drops /\ spurious' = spurious
      /\ \/ AckNow(i, r) /\ SendAck(r)
         \/ ~AckNow(i, r) /\ delAckCount' = delAckCount + 1 /\ delAck' = TRUE /\ acks' = acks
  BY DEF ReceivedData, bounds
<1>2. RxOK(rx) /\ arrived = Rx!Received(rx) /\ rx.next \in Nat
  BY InvFacts DEF Inv, ReceiverInv
<1> HIDE DEF r
<1>3. /\ RxOK(r) /\ rx.next <= r.next /\ Rx!Received(r) = arrived \cup {i}
  <2>1. CASE Rx!CanAdd(rx, i)
    BY <1>2, <2>1, AddOK DEF r
  <2>2. CASE ~Rx!CanAdd(rx, i)
    <3>1. r = rx
      BY <2>2 DEF r
    <3>2. i \in Rx!Received(rx)
      BY <1>2, <2>2 DEF Rx!CanAdd, Rx!Received, Segs
    <3> QED
      BY <1>2, <3>1, <3>2
  <2> QED
    BY <2>1, <2>2
<1>4. \A j \in arrived' : j < snd.buf.high
  <2>1. i < snd.buf.high
    BY <1>1 DEF Inv, ConnectionInv
  <2>2. \A j \in arrived : j < snd.buf.high
    BY DEF Inv, ConnectionInv
  <2> QED
    BY <1>1, <2>1, <2>2
<1>5. wire' \in [Segs -> Nat] /\ \A j \in Segs : wire'[j] <= wire[j]
  <2>1. wire \in [Segs -> Nat]
    BY DEF Inv, TypeOK
  <2>2. wire[i] - 1 \in Nat
    BY <1>1, <2>1
  <2> QED
    BY <1>1, <2>1, <2>2
<1>6. acks' \subseteq acks \cup {AckOf(rx')}
  BY <1>1 DEF SendAck
<1>7. /\ SenderInv' /\ ReceiverInv' /\ ConnectionInv' /\ AcksInv'
      /\ snd' \in Sockets /\ rx' \in RxShapes /\ arrived' \subseteq Segs
      /\ acks' \subseteq [ack : 1..(NumSegs + 1), blocks : Blocks]
  <2>1. /\ RxOK(rx') /\ arrived' = Rx!Received(rx') /\ rx.next <= rx'.next
        /\ arrived \subseteq arrived'
    BY <1>1, <1>3
  <2> QED
    BY <1>1, <1>4, <1>5, <1>6, <2>1, BesideSender
<1>8. delAckCount' \in 0..DelAckCount
  <2>1. delAckCount \in Nat /\ DelAckCount \in Nat
    BY SenderAssumption DEF Inv, TypeOK
  <2>2. CASE SendAck(r)
    BY <2>1, <2>2 DEF SendAck
  <2>3. CASE ~AckNow(i, r) /\ delAckCount' = delAckCount + 1
    <3>1. ~(delAckCount + 1 >= DelAckCount)
      BY <2>3 DEF AckNow
    <3> QED
      BY <2>1, <2>3, <3>1
  <2> QED
    BY <1>1, <2>2, <2>3
<1>9. delAck' \in BOOLEAN
  BY <1>1, Zenon DEF SendAck
<1>10. drops' \in 0..MaxDrops /\ spurious' \in 0..MaxSpurious
  BY <1>1 DEF Inv, TypeOK
<1>11. TypeOK'
  BY <1>5, <1>7, <1>8, <1>9, <1>10 DEF TypeOK, RxShapes
<1> QED
  BY <1>7, <1>11 DEF Inv

(* The delayed acknowledgement.                                            *)
LEMMA DelAckTimeoutInv ==
  ASSUME Inv, DelAckTimeout
  PROVE  Inv'
<1>1. /\ rx' = rx /\ arrived' = arrived /\ wire' = wire /\ snd' = snd
      /\ drops' = drops /\ spurious' = spurious /\ SendAck(rx)
  BY DEF DelAckTimeout, bounds
<1>2. /\ acks' \subseteq acks \cup {AckOf(rx')} /\ delAckCount' = 0 /\ delAck' = FALSE
  BY <1>1 DEF SendAck
<1>3. /\ RxOK(rx') /\ arrived' = Rx!Received(rx') /\ rx.next <= rx'.next
      /\ \A i \in arrived' : i < snd.buf.high
  BY <1>1, InvFacts DEF Inv, ReceiverInv, ConnectionInv
<1>4. wire' \in [Segs -> Nat] /\ \A j \in Segs : wire'[j] <= wire[j]
  BY <1>1 DEF Inv, TypeOK
<1>5. /\ SenderInv' /\ ReceiverInv' /\ ConnectionInv' /\ AcksInv'
      /\ snd' \in Sockets /\ rx' \in RxShapes /\ arrived' \subseteq Segs
      /\ acks' \subseteq [ack : 1..(NumSegs + 1), blocks : Blocks]
  BY <1>1, <1>2, <1>3, <1>4, BesideSender
<1>6. delAckCount' \in 0..DelAckCount
  BY <1>2, SenderAssumption
<1>7. delAck' \in BOOLEAN
  BY <1>2, Zenon
<1>8. drops' \in 0..MaxDrops /\ spurious' \in 0..MaxSpurious
  BY <1>1 DEF Inv, TypeOK
<1>9. TypeOK'
  BY <1>4, <1>5, <1>6, <1>7, <1>8 DEF TypeOK, RxShapes
<1> QED
  BY <1>5, <1>9 DEF Inv

(* The network.                                                            *)
LEMMA LossInv ==
  ASSUME Inv, snd' = snd, rx' = rx, arrived' = arrived, acks' \subseteq acks,
         delAckCount' = delAckCount, delAck' = delAck, spurious' = spurious,
         drops < MaxDrops, drops' = drops + 1,
         wire' \in [Segs -> Nat], \A j \in Segs : wire'[j] <= wire[j]
  PROVE  Inv'
<1>1. /\ acks' \subseteq acks \cup {AckOf(rx')}
      /\ RxOK(rx') /\ arrived' = Rx!Received(rx') /\ rx.next <= rx'.next
      /\ \A i \in arrived' : i < snd.buf.high
      /\ arrived \subseteq arrived'
  BY InvFacts DEF Inv, ReceiverInv, ConnectionInv
<1>2. /\ SenderInv' /\ ReceiverInv' /\ ConnectionInv' /\ AcksInv'
      /\ snd' \in Sockets /\ rx' \in RxShapes /\ arrived' \subseteq Segs
      /\ acks' \subseteq [ack : 1..(NumSegs + 1), blocks : Blocks]
  BY <1>1, BesideSender
<1>3. drops' \in 0..MaxDrops
  BY SenderAssumption DEF Inv, TypeOK
<1>4. /\ spurious' \in 0..MaxSpurious /\ delAckCount' \in 0..DelAckCount
      /\ delAck' \in BOOLEAN
  BY DEF Inv, TypeOK
<1>5. TypeOK'
  BY <1>2, <1>3, <1>4 DEF TypeOK, RxShapes
<1> QED
  BY <1>2, <1>5 DEF Inv

(* The two things the network loses.                                       *)
LEMMA LoseSegmentInv ==
  ASSUME Inv, NEW i \in Segs, LoseSegment(i)
  PROVE  Inv'
<1>1. /\ wire[i] > 0 /\ wire' = [wire EXCEPT ![i] = @ - 1] /\ wire \in [Segs -> Nat]
  BY DEF LoseSegment, Inv, TypeOK
<1>2. wire[i] - 1 \in Nat
  BY <1>1
<1>3. wire' \in [Segs -> Nat] /\ \A j \in Segs : wire'[j] <= wire[j]
  BY <1>1, <1>2
<1> QED
  BY <1>3, LossInv DEF LoseSegment, receiver

(* An acknowledgement that is lost disturbs nothing.                      *)
LEMMA LoseAckInv ==
  ASSUME Inv, NEW m \in acks, LoseAck(m)
  PROVE  Inv'
<1>1. wire' \in [Segs -> Nat] /\ \A j \in Segs : wire'[j] <= wire[j]
  BY DEF LoseAck, Inv, TypeOK
<1>2. acks' \subseteq acks
  BY DEF LoseAck
<1> QED
  BY <1>1, <1>2, LossInv DEF LoseAck, receiver

-----------------------------------------------------------------------------
(* The sending socket.  What it may hold to be SACKed after an             *)
(* acknowledgement is not the number of any other that is on its way.      *)
LEMMA ProcessEstablishedInv ==
  ASSUME Inv, NEW m \in acks, ProcessEstablished(m)
  PROVE  Inv' /\ snd'.dataRetrCount >= snd.dataRetrCount
<1>1. /\ acks' = acks \ {m} /\ rx' = rx /\ arrived' = arrived
      /\ delAckCount' = delAckCount /\ delAck' = delAck
      /\ drops' = drops /\ spurious' = spurious
  BY DEF ProcessEstablished, receiver, bounds
<1>2. /\ delAckCount' \in 0..DelAckCount /\ delAck' \in BOOLEAN
      /\ drops' \in 0..MaxDrops /\ spurious' \in 0..MaxSpurious
      /\ rx' \in [next : 1..(NumSegs + 1), ooo : SUBSET Segs, sackList : Blocks]
      /\ acks' \subseteq [ack : 1..(NumSegs + 1), blocks : Blocks] /\ arrived' \subseteq Segs
  BY <1>1 DEF Inv, TypeOK
<1>3. snd.dataRetrCount \in 0..DataRetries /\ snd \in Sockets
  BY DEF Inv, TypeOK, Sockets
<1>4. CASE snd' = snd /\ wire' = wire
  <2>1. /\ acks' \subseteq acks \cup {AckOf(rx')}
        /\ RxOK(rx') /\ arrived' = Rx!Received(rx') /\ rx.next <= rx'.next
        /\ \A i \in arrived' : i < snd.buf.high
        /\ arrived \subseteq arrived'
    BY <1>1, InvFacts DEF Inv, ReceiverInv, ConnectionInv
  <2>2. wire' \in [Segs -> Nat] /\ \A j \in Segs : wire'[j] <= wire[j]
    BY <1>4 DEF Inv, TypeOK
  <2>3. SenderInv' /\ ReceiverInv' /\ ConnectionInv' /\ AcksInv' /\ snd' \in Sockets
    BY <1>4, <2>1, <2>2, BesideSender
  <2>4. TypeOK'
    BY <1>2, <2>2, <2>3 DEF TypeOK
  <2>5. snd'.dataRetrCount >= snd.dataRetrCount
    BY <1>3, <1>4
  <2> QED
    BY <2>3, <2>4, <2>5 DEF Inv
<1>5. ASSUME ~snd.closed, m.ack >= snd.buf.head, NEW e \in Estimates \cup {SameRtt},
             Transmit(ReceivedAck(snd, m, e))
      PROVE  Inv' /\ snd'.dataRetrCount >= snd.dataRetrCount
  <2> DEFINE t == ReceivedAck(snd, m, e)
  <2>1. /\ AckOK(m, rx.next, arrived, snd.buf)
        /\ BaseOK(snd) /\ SocketStates(snd, snd.buf.head) /\ TimerOK(snd, snd.buf.head)
    BY <1>5 DEF Inv, AcksInv, SenderInv
  <2>2. Acknowledges(m, snd)
    BY <1>5, <2>1, InvFacts DEF AckOK, Acknowledges
  <2> HIDE DEF t
  <2>3. /\ BaseOK(t) /\ t.buf.head = m.ack /\ t.closed = snd.closed
        /\ t.dataRetrCount \in {snd.dataRetrCount, DataRetries}
        /\ t.buf.sacked \subseteq snd.buf.sacked \cup Reported(m.blocks)
        /\ snd.buf.high <= t.buf.high
        /\ TimerOK(t, m.ack) /\ SocketStates(t, m.ack)
    BY <2>1, <2>2, ReceivedAckOK DEF t
  <2>4. t.buf.head <= rx.next /\ t.buf.sacked \subseteq arrived
    BY <2>1, <2>3 DEF AckOK, Inv, ConnectionInv
  <2>5. \A x \in acks' : x.ack >= t.buf.head => x.ack \notin t.buf.sacked
    <3> SUFFICES ASSUME NEW x \in acks, x.ack >= m.ack PROVE x.ack \notin t.buf.sacked
      BY <1>1, <2>3
    <3>1. x.ack >= snd.buf.head
      BY <1>5, InvFacts
    <3>2. x.ack \notin snd.buf.sacked
      BY <3>1 DEF Inv, AcksInv, AckOK
    <3>3. x.ack \notin Reported(m.blocks)
      BY DEF Inv, AcksInv
    <3> QED
      BY <2>3, <3>2, <3>3
  <2>6. /\ SenderInv' /\ ReceiverInv' /\ ConnectionInv' /\ AcksInv'
        /\ snd' \in Sockets /\ wire' \in [Segs -> Nat]
        /\ snd'.dataRetrCount = t.dataRetrCount
    <3>1. Transmit(t) /\ acks' \subseteq acks
      BY <1>1, <1>5 DEF t
    <3>2. SocketStates(t, t.buf.head) /\ TimerOK(t, t.buf.head)
      BY <2>3
    <3> QED
      BY <1>1, <2>3, <2>4, <2>5, <3>1, <3>2, SenderMoves
  <2>7. TypeOK'
    BY <1>2, <2>6 DEF TypeOK
  <2>8. snd'.dataRetrCount >= snd.dataRetrCount
    BY <1>3, <2>3, <2>6, SenderAssumption
  <2> QED
    BY <2>6, <2>7, <2>8 DEF Inv
<1> QED
  BY <1>4, <1>5 DEF ProcessEstablished

(* A time-out, the one that gives the connection up included.              *)
LEMMA RetxTimerInv ==
  ASSUME Inv, RetxTimer
  PROVE  /\ Inv'
         /\ snd'.dataRetrCount < snd.dataRetrCount =>
              /\ BytesInFlight(snd'.buf) = 1
              /\ snd.buf.head \in snd'.buf.retrans \cup {snd.buf.high}
<1> DEFINE t == ReTxTimeout(snd)
<1>1. /\ acks' = acks /\ rx' = rx /\ arrived' = arrived
      /\ delAckCount' = delAckCount /\ delAck' = delAck /\ drops' = drops
      /\ snd.timer /\ ~snd.closed /\ Transmit(t)
      /\ Idle \/ spurious < MaxSpurious
      /\ spurious' = IF Idle THEN spurious ELSE spurious + 1
  BY DEF RetxTimer, receiver
<1>2. /\ delAckCount' \in 0..DelAckCount /\ delAck' \in BOOLEAN /\ drops' \in 0..MaxDrops
      /\ rx' \in [next : 1..(NumSegs + 1), ooo : SUBSET Segs, sackList : Blocks]
      /\ acks' \subseteq [ack : 1..(NumSegs + 1), blocks : Blocks] /\ arrived' \subseteq Segs
  BY <1>1 DEF Inv, TypeOK
<1>3. spurious' \in 0..MaxSpurious
  <2>1. spurious \in 0..MaxSpurious /\ MaxSpurious \in Nat
    BY SenderAssumption DEF Inv, TypeOK
  <2> QED
    BY <1>1, <2>1
<1>4. /\ BaseOK(snd) /\ SocketStates(snd, snd.buf.head) /\ TimerOK(snd, snd.buf.head)
      /\ snd.buf.head <= NumSegs /\ snd \in Sockets
  BY <1>1 DEF Inv, SenderInv, TimerOK, TypeOK
<1> HIDE DEF t
<1>5. /\ BaseOK(t) /\ t.buf.head = snd.buf.head /\ t.buf.sacked = snd.buf.sacked
      /\ snd.buf.high <= t.buf.high /\ SocketStates(t, t.buf.head)
      /\ t.closed \/ TimerOK(t, t.buf.head)
      /\ \/ t.dataRetrCount = snd.dataRetrCount
         \/ /\ BytesInFlight(t.buf) = 1
            /\ snd.buf.head \in t.buf.retrans \cup {snd.buf.high}
  <2>1. CASE GivesUp(snd)
    <3>1. t = [snd EXCEPT !.closed = TRUE, !.timer = FALSE]
      BY <2>1 DEF ReTxTimeout, t
    <3>2. /\ t.buf = snd.buf /\ t.out = snd.out /\ t.prr = snd.prr
          /\ t.congState = snd.congState /\ t.dupAckCount = snd.dupAckCount
          /\ t.recover = snd.recover /\ t.recoverActive = snd.recoverActive
          /\ t.closed = TRUE /\ t.dataRetrCount = snd.dataRetrCount
      BY <1>4, <3>1 DEF Sockets
    <3>3. TRUE \in BOOLEAN /\ FALSE \in BOOLEAN
      OBVIOUS
    <3>4. t \in Sockets
      BY <1>4, <3>1, <3>3, Zenon DEF Sockets
    <3>5. BaseOK(t)
      BY <1>4, <3>2, <3>4 DEF BaseOK
    <3>6. SocketStates(t, t.buf.head)
      BY <1>4, <3>2, Zenon DEF SocketStates
    <3> QED
      BY <1>4, <3>2, <3>5, <3>6, InvFacts
  <2>2. CASE ~GivesUp(snd)
    BY <1>4, <2>2, TimeoutOK DEF t
  <2> QED
    BY <2>1, <2>2
<1>6. t.buf.head <= rx.next /\ t.buf.sacked \subseteq arrived
  BY <1>5 DEF Inv, ConnectionInv
<1>7. \A x \in acks' : x.ack >= t.buf.head => x.ack \notin t.buf.sacked
  BY <1>1, <1>5 DEF Inv, AcksInv, AckOK
<1>8. /\ SenderInv' /\ ReceiverInv' /\ ConnectionInv' /\ AcksInv'
      /\ snd' \in Sockets /\ wire' \in [Segs -> Nat] /\ snd'.buf = t.buf
      /\ snd'.dataRetrCount = t.dataRetrCount
  <2>1. acks' \subseteq acks
    BY <1>1
  <2> QED
    BY <1>1, <1>5, <1>6, <1>7, <2>1, SenderMoves
<1>9. TypeOK'
  BY <1>2, <1>3, <1>8 DEF TypeOK
<1>10. snd'.dataRetrCount < snd.dataRetrCount =>
         /\ BytesInFlight(snd'.buf) = 1
         /\ snd.buf.head \in snd'.buf.retrans \cup {snd.buf.high}
  <2>1. ~(snd.dataRetrCount < snd.dataRetrCount)
    BY <1>4 DEF Sockets
  <2> QED
    BY <1>5, <1>8, <2>1
<1> QED
  BY <1>8, <1>9, <1>10 DEF Inv

-----------------------------------------------------------------------------
(* Giving up.  What a retry was spent on is still on its way to bring      *)
(* SND.UNA on: the head, an acknowledgement above it, or the delayed one   *)
(* that a receiver who has the head will send; or it has been lost, or     *)
(* another time-out was early.  After a time-out the state stays LOSS      *)
(* until an acknowledgement of new data starts the count again.            *)
OnItsWay ==
  \/ snd.buf.head \in Segs /\ wire[snd.buf.head] > 0
  \/ \E m \in acks : m.ack > snd.buf.head
  \/ delAck /\ rx.next > snd.buf.head

RetriesInv ==
  /\ snd.dataRetrCount < DataRetries => snd.congState = "LOSS"
  /\ snd.closed => drops + spurious >= DataRetries
  /\ ~snd.closed => drops + spurious + OneIf(OnItsWay) >= DataRetries - snd.dataRetrCount

(* The numbers in it.                                                      *)
LEMMA RetryFacts ==
  ASSUME Inv
  PROVE  /\ drops \in Nat /\ spurious \in Nat /\ DataRetries \in Nat
         /\ snd.dataRetrCount \in 0..DataRetries /\ snd.closed \in BOOLEAN
         /\ OneIf(OnItsWay) \in {0, 1} /\ OneIf(OnItsWay)' \in {0, 1}
BY SenderAssumption DEF Inv, TypeOK, Sockets, OneIf

(* A step beside the sender: what was on its way still is, or it has been  *)
(* lost.                                                                   *)
LEMMA RetriesBeside ==
  ASSUME Inv, RetriesInv, snd' = snd, spurious' = spurious,
         drops' = drops + 1 \/ (drops' = drops /\ (OnItsWay => OnItsWay'))
  PROVE  RetriesInv'
<1> DEFINE n == OneIf(OnItsWay)
           k == OneIf(OnItsWay')
<1>1. /\ drops \in Nat /\ spurious \in Nat /\ DataRetries \in Nat
      /\ snd.dataRetrCount \in 0..DataRetries
  BY RetryFacts
<1>2. n \in {0, 1} /\ k \in {0, 1} /\ (OnItsWay => n = 1) /\ (OnItsWay' => k = 1)
      /\ (~OnItsWay => n = 0)
  BY DEF OneIf
<1>3. /\ snd.closed => drops + spurious >= DataRetries
      /\ ~snd.closed => drops + spurious + n >= DataRetries - snd.dataRetrCount
      /\ snd.dataRetrCount < DataRetries => snd.congState = "LOSS"
  BY DEF RetriesInv
<1>4. /\ drops' + spurious' + k >= drops + spurious + n
      /\ drops' + spurious' >= drops + spurious
      /\ drops' \in Nat /\ spurious' \in Nat
  <2> HIDE DEF n, k
  <2>1. CASE drops' = drops + 1
    BY <1>1, <1>2, <2>1
  <2>2. CASE drops' = drops /\ (OnItsWay => OnItsWay')
    BY <1>1, <1>2, <2>2
  <2> QED
    BY <2>1, <2>2
<1> HIDE DEF n, k
<1>5. /\ snd.closed => drops' + spurious' >= DataRetries
      /\ ~snd.closed => drops' + spurious' + k >= DataRetries - snd.dataRetrCount
  <2> DEFINE d == DataRetries - snd.dataRetrCount
  <2>1. d \in Int /\ n \in Int /\ k \in Int
    BY <1>1, <1>2
  <2>2. ~snd.closed => drops + spurious + n >= d
    BY <1>3
  <2> HIDE DEF d
  <2>3. ASSUME ~snd.closed PROVE drops' + spurious' + k >= d
    <3>1. drops + spurious + n >= d
      BY <2>2, <2>3
    <3>2. drops' + spurious' + k >= drops + spurious + n
      BY <1>4
    <3>3. drops' + spurious' + k \in Int
      BY <1>4, <2>1
    <3>4. drops + spurious + n \in Int
      BY <1>1, <2>1
    <3> QED
      BY <2>1, <3>1, <3>2, <3>3, <3>4
  <2>4. ASSUME snd.closed PROVE drops' + spurious' >= DataRetries
    <3>1. drops + spurious >= DataRetries
      BY <1>3, <2>4
    <3>2. drops' + spurious' \in Int /\ drops + spurious \in Int
      BY <1>1, <1>4
    <3>3. drops' + spurious' >= drops + spurious
      BY <1>4
    <3> QED
      BY <1>1, <3>1, <3>2, <3>3
  <2> QED
    BY <2>3, <2>4 DEF d
<1> QED
  BY <1>3, <1>5 DEF RetriesInv, k

(* The receiver turns the head into an acknowledgement, sooner or later.   *)
LEMMA ReceivedStaysOnItsWay ==
  ASSUME Inv, NEW i \in Segs, ReceivedData(i), OnItsWay
  PROVE  OnItsWay'
<1> DEFINE r == IF Rx!CanAdd(rx, i) THEN Rx!Add(rx, i) ELSE rx
           head == snd.buf.head
<1>1. /\ wire' = [wire EXCEPT ![i] = @ - 1] /\ rx' = r /\ snd' = snd
      /\ \/ SendAck(r)
         \/ delAck' = TRUE /\ acks' = acks
  BY DEF ReceivedData
<1>2. /\ RxOK(rx) /\ rx.next \in Nat /\ head \in Nat /\ head <= rx.next /\ NumSegs \in Nat
      /\ rx.ooo \subseteq (rx.next + 1) .. NumSegs
  BY InvFacts DEF Inv, ReceiverInv, ConnectionInv, RxOK
<1>3. RxOK(r) /\ rx.next <= r.next /\ Rx!Received(r) = Rx!Received(rx) \cup {i}
  <2>1. CASE Rx!CanAdd(rx, i)
    BY <1>2, <2>1, AddOK
  <2>2. CASE ~Rx!CanAdd(rx, i)
    <3>1. r = rx
      BY <2>2
    <3>2. i \in Rx!Received(rx)
      BY <1>2, <2>2 DEF Rx!CanAdd, Rx!Received, Segs
    <3> QED
      BY <1>2, <3>1, <3>2
  <2> QED
    BY <2>1, <2>2
<1> HIDE DEF r
<1>4. r.next \in Nat
  BY <1>3, TxBufferAssumption DEF RxOK, RxShapes
<1>5. CASE r.next > head
  <2>1. CASE SendAck(r)
    <3>1. AckOf(r) \in acks' /\ AckOf(r).ack = r.next
      BY <2>1 DEF SendAck, AckOf
    <3> QED
      BY <1>1, <1>5, <3>1 DEF OnItsWay
  <2>2. CASE delAck' = TRUE
    BY <1>1, <1>5, <2>2 DEF OnItsWay
  <2> QED
    BY <1>1, <2>1, <2>2
<1>6. CASE r.next = head
  <2>1. rx.next = head
    BY <1>2, <1>3, <1>4, <1>6
  <2>2. i # head
    <3>1. head \notin Rx!Received(r)
      BY <1>3, <1>6, AckOfOK
    <3> QED
      BY <1>3, <3>1
  <2>3. acks \subseteq acks'
    BY <1>1 DEF SendAck
  <2>4. ~(rx.next > head)
    BY <1>2, <2>1
  <2>5. head \in Segs /\ wire[head] > 0 => wire'[head] > 0
    <3>1. wire \in [Segs -> Nat]
      BY DEF Inv, TypeOK
    <3> QED
      BY <1>1, <2>2, <3>1
  <2> QED
    BY <1>1, <2>3, <2>4, <2>5 DEF OnItsWay
<1> QED
  BY <1>2, <1>3, <1>4, <1>5, <1>6

(* The delayed acknowledgement is sent.                                    *)
LEMMA DelAckStaysOnItsWay ==
  ASSUME Inv, DelAckTimeout, OnItsWay
  PROVE  OnItsWay'
<1>1. /\ wire' = wire /\ snd' = snd /\ rx' = rx /\ acks' = acks \cup {AckOf(rx)}
  BY DEF DelAckTimeout, SendAck
<1>2. AckOf(rx).ack = rx.next
  BY DEF AckOf
<1> QED
  BY <1>1, <1>2 DEF OnItsWay

(* What an acknowledgement that is not ignored may be.                     *)
LEMMA AckIsTaken ==
  ASSUME Inv, NEW m \in acks, ~snd.closed, m.ack >= snd.buf.head
  PROVE  /\ BaseOK(snd) /\ SocketStates(snd, snd.buf.head) /\ TimerOK(snd, snd.buf.head)
         /\ Acknowledges(m, snd)
<1>1. /\ AckOK(m, rx.next, arrived, snd.buf)
      /\ BaseOK(snd) /\ SocketStates(snd, snd.buf.head) /\ TimerOK(snd, snd.buf.head)
  BY DEF Inv, AcksInv, SenderInv
<1>2. Acknowledges(m, snd)
  BY <1>1, InvFacts DEF AckOK, Acknowledges
<1> QED
  BY <1>1, <1>2

(* An acknowledgement: of new data, it starts the count again; any other   *)
(* takes nothing off what is on its way.                                   *)
LEMMA ProcessEstablishedRetries ==
  ASSUME Inv, RetriesInv, NEW m \in acks, ProcessEstablished(m)
  PROVE  RetriesInv'
<1>1. acks' = acks \ {m} /\ rx' = rx /\ delAck' = delAck /\ drops' = drops
      /\ spurious' = spurious /\ ~snd.closed
  BY DEF ProcessEstablished, receiver, bounds
<1>2. /\ drops \in Nat /\ spurious \in Nat /\ DataRetries \in Nat
      /\ snd.dataRetrCount \in 0..DataRetries
      /\ OneIf(OnItsWay) \in {0, 1} /\ OneIf(OnItsWay') \in {0, 1}
  BY RetryFacts DEF OneIf
<1>3. wire \in [Segs -> Nat] /\ snd.buf.head \in Nat /\ m.ack \in Nat
  BY InvFacts DEF Inv, TypeOK
<1>4. CASE m.ack < snd.buf.head /\ snd' = snd /\ wire' = wire
  <2>1. ~(m.ack > snd.buf.head)
    BY <1>3, <1>4
  <2>2. OnItsWay => OnItsWay'
    BY <1>1, <1>4, <2>1 DEF OnItsWay
  <2> QED
    BY <1>1, <1>4, <2>2, RetriesBeside
<1>5. ASSUME m.ack >= snd.buf.head, NEW e \in Estimates \cup {SameRtt},
             Transmit(ReceivedAck(snd, m, e))
      PROVE  RetriesInv'
  <2> DEFINE t == ReceivedAck(snd, m, e)
  <2>1. /\ BaseOK(snd) /\ SocketStates(snd, snd.buf.head) /\ TimerOK(snd, snd.buf.head)
        /\ Acknowledges(m, snd)
    BY <1>1, <1>5, AckIsTaken
  <2>2. snd' = [t EXCEPT !.out = None] /\ wire' = [i \in Segs |-> wire[i] + t.out[i]]
    BY <1>5 DEF Transmit
  <2> HIDE DEF t
  <2>3. /\ BaseOK(t) /\ t.buf.head = m.ack /\ t.closed = snd.closed
        /\ t.dataRetrCount \in {snd.dataRetrCount, DataRetries}
    BY <2>1, ReceivedAckOK DEF t
  <2>4. /\ t \in Sockets /\ t.out \in [Segs -> Nat]
    BY <2>3, BaseFacts DEF BaseOK
  <2>5. /\ snd'.buf = t.buf /\ snd'.closed = FALSE /\ snd'.congState = t.congState
        /\ snd'.dataRetrCount = t.dataRetrCount
    BY <1>1, <2>2, <2>3, <2>4 DEF Sockets
  <2>6. CASE t.dataRetrCount = DataRetries
    <3>1. drops' + spurious' + OneIf(OnItsWay') >= DataRetries - snd'.dataRetrCount
      BY <1>1, <1>2, <2>5, <2>6
    <3>2. ~(snd'.dataRetrCount < DataRetries)
      BY <1>2, <2>5, <2>6
    <3> QED
      BY <2>5, <3>1, <3>2 DEF RetriesInv
  <2>7. CASE t.dataRetrCount # DataRetries
    <3>1. t.dataRetrCount = snd.dataRetrCount /\ snd.dataRetrCount < DataRetries
      BY <1>2, <2>3, <2>7
    <3>2. snd.congState = "LOSS"
      BY <3>1 DEF RetriesInv
    <3>3. m.ack = snd.buf.head /\ t.congState = "LOSS"
      BY <2>1, <2>7, <3>2, AckAfterTimeout DEF t
    <3>4. ~(m.ack > snd.buf.head)
      BY <1>3, <3>3
    <3>5. snd.buf.head \in Segs /\ wire[snd.buf.head] > 0 => wire'[snd.buf.head] > 0
      BY <1>3, <2>2, <2>4
    <3>6. OnItsWay => OnItsWay'
      BY <1>1, <2>3, <2>5, <3>3, <3>4, <3>5 DEF OnItsWay
    <3>7. OneIf(OnItsWay') >= OneIf(OnItsWay)
      BY <3>6 DEF OneIf
    <3>8. drops + spurious + OneIf(OnItsWay) >= DataRetries - snd.dataRetrCount
      BY <1>1 DEF RetriesInv
    <3>9. drops' + spurious' + OneIf(OnItsWay') >= DataRetries - snd'.dataRetrCount
      BY <1>1, <1>2, <2>5, <3>1, <3>7, <3>8
    <3> QED
      BY <2>5, <3>3, <3>9 DEF RetriesInv
  <2> QED
    BY <2>6, <2>7
<1> QED
  BY <1>4, <1>5 DEF ProcessEstablished

(* A time-out: an early one is counted, one that is not finds nothing on   *)
(* its way; either puts the head there, if it does not give up.            *)
LEMMA RetxTimerRetries ==
  ASSUME Inv, RetriesInv, RetxTimer
  PROVE  RetriesInv'
<1> DEFINE t == ReTxTimeout(snd)
           n == OneIf(OnItsWay)
<1>1. /\ acks' = acks /\ rx' = rx /\ delAck' = delAck /\ drops' = drops
      /\ snd.timer /\ ~snd.closed /\ Transmit(t)
      /\ spurious' = IF Idle THEN spurious ELSE spurious + 1
  BY DEF RetxTimer, receiver
<1>2. /\ drops \in Nat /\ spurious \in Nat /\ DataRetries \in Nat
      /\ snd.dataRetrCount \in 0..DataRetries
      /\ n \in {0, 1} /\ (n = 1 => OnItsWay)
  BY RetryFacts DEF OneIf
<1>3. /\ BaseOK(snd) /\ TimerOK(snd, snd.buf.head) /\ snd \in Sockets
      /\ snd.buf.head <= NumSegs /\ snd.buf.head \in Segs /\ wire \in [Segs -> Nat]
  BY <1>1, InvFacts DEF Inv, SenderInv, TimerOK, TypeOK, Segs
<1>4. OnItsWay => ~Idle
  <2> SUFFICES ASSUME Idle PROVE ~OnItsWay
    OBVIOUS
  <2>1. \A i \in Segs : wire[i] = 0
    BY DEF Idle, None
  <2> QED
    BY <2>1 DEF OnItsWay, Idle
<1>5. drops' + spurious' >= DataRetries - snd.dataRetrCount /\ drops' + spurious' \in Nat
  <2>1. drops + spurious + n >= DataRetries - snd.dataRetrCount
    BY <1>1 DEF RetriesInv
  <2> HIDE DEF n
  <2>2. CASE n = 1
    <3>1. spurious' = spurious + 1
      BY <1>1, <1>2, <1>4, <2>2
    <3> QED
      BY <1>1, <1>2, <2>1, <2>2, <3>1
  <2>3. CASE n = 0
    <3>1. spurious' \in {spurious, spurious + 1}
      BY <1>1
    <3> QED
      BY <1>1, <1>2, <2>1, <2>3, <3>1
  <2> QED
    BY <1>2, <2>2, <2>3
<1>6. snd' = [t EXCEPT !.out = None] /\ wire' = [i \in Segs |-> wire[i] + t.out[i]]
  BY <1>1 DEF Transmit
<1> HIDE DEF t
<1>7. CASE GivesUp(snd)
  <2>1. t = [snd EXCEPT !.closed = TRUE, !.timer = FALSE]
    BY <1>7 DEF ReTxTimeout, t
  <2>2. /\ snd'.closed = TRUE /\ snd'.congState = snd.congState
        /\ snd'.dataRetrCount = snd.dataRetrCount
    BY <1>3, <1>6, <2>1 DEF Sockets
  <2>3. snd.dataRetrCount = 0
    BY <1>7 DEF GivesUp
  <2>4. drops' + spurious' >= DataRetries
    BY <1>2, <1>5, <2>3
  <2> QED
    BY <2>2, <2>4 DEF RetriesInv
<1>8. CASE ~GivesUp(snd)
  <2>1. /\ BaseOK(t) /\ t.buf.head = snd.buf.head /\ t.closed = snd.closed
        /\ t.out[snd.buf.head] >= 1 /\ t.congState = "LOSS"
        /\ t.dataRetrCount = snd.dataRetrCount - 1
    BY <1>3, <1>8, TimeoutOK DEF t
  <2>2. t \in Sockets /\ t.out \in [Segs -> Nat]
    BY <2>1, BaseFacts DEF BaseOK
  <2>3. /\ snd'.closed = snd.closed /\ snd'.congState = "LOSS"
        /\ snd'.dataRetrCount = snd.dataRetrCount - 1 /\ snd'.buf.head = snd.buf.head
    BY <1>6, <2>1, <2>2 DEF Sockets
  <2>4. wire'[snd.buf.head] > 0
    BY <1>3, <1>6, <2>1, <2>2
  <2>5. OnItsWay'
    BY <1>3, <2>3, <2>4 DEF OnItsWay
  <2>6. OneIf(OnItsWay') = 1
    BY <2>5 DEF OneIf
  <2>7. drops' + spurious' + OneIf(OnItsWay') >= DataRetries - snd'.dataRetrCount
    BY <1>2, <1>5, <2>3, <2>6
  <2> QED
    BY <1>1, <2>3, <2>7 DEF RetriesInv
<1> QED
  BY <1>7, <1>8

(* Every step of the transfer keeps the account of the retries.            *)
LEMMA NextRetries ==
  ASSUME Inv, RetriesInv, [Next]_vars
  PROVE  RetriesInv'
<1>1. CASE UNCHANGED vars
  BY <1>1 DEF vars, receiver, bounds, RetriesInv, OnItsWay
<1>2. ASSUME NEW i \in Segs, ReceivedData(i) PROVE RetriesInv'
  BY <1>2, ReceivedStaysOnItsWay, RetriesBeside DEF ReceivedData, bounds
<1>3. CASE DelAckTimeout
  BY <1>3, DelAckStaysOnItsWay, RetriesBeside DEF DelAckTimeout, bounds
<1>4. ASSUME NEW i \in Segs, LoseSegment(i) PROVE RetriesInv'
  BY <1>4, RetriesBeside DEF LoseSegment
<1>5. ASSUME NEW m \in acks, LoseAck(m) PROVE RetriesInv'
  BY <1>5, RetriesBeside DEF LoseAck
<1> QED
  BY <1>1, <1>2, <1>3, <1>4, <1>5, ProcessEstablishedRetries, RetxTimerRetries
     DEF Next, Step

(* Nothing has been retried at the beginning.                              *)
LEMMA InitRetries == Init => RetriesInv
<1> SUFFICES ASSUME Init PROVE RetriesInv
  OBVIOUS
<1> DEFINE t == SendPendingData(NewSocket)
<1>1. BaseOK(t) /\ t.closed = FALSE /\ t.dataRetrCount = DataRetries
  BY NewSocketOK
<1>2. snd = [t EXCEPT !.out = None] /\ drops = 0 /\ spurious = 0
  BY DEF Init
<1> HIDE DEF t
<1>3. snd.closed = FALSE /\ snd.dataRetrCount = DataRetries
  BY <1>1, <1>2 DEF BaseOK, Sockets
<1>4. OneIf(OnItsWay) \in {0, 1} /\ DataRetries \in Nat
  BY SenderAssumption DEF OneIf
<1>5. drops + spurious + OneIf(OnItsWay) >= DataRetries - snd.dataRetrCount
      /\ ~(snd.dataRetrCount < DataRetries)
  BY <1>2, <1>3, <1>4
<1> QED
  BY <1>3, <1>5 DEF RetriesInv

-----------------------------------------------------------------------------
(* Every step keeps the invariant.                                         *)
LEMMA NextInv ==
  ASSUME Inv, [Next]_vars
  PROVE  Inv'
<1>1. CASE UNCHANGED vars
  <2>1. /\ snd' = snd /\ wire' = wire /\ rx' = rx /\ delAckCount' = delAckCount
        /\ delAck' = delAck /\ arrived' = arrived /\ acks' = acks
        /\ drops' = drops /\ spurious' = spurious
    BY <1>1 DEF vars, receiver, bounds
  <2>2. TypeOK'
    BY <2>1 DEF Inv, TypeOK
  <2>3. SenderInv' /\ ReceiverInv' /\ ConnectionInv' /\ AcksInv'
    BY <2>1 DEF Inv, SenderInv, ReceiverInv, ConnectionInv, AcksInv
  <2> QED
    BY <2>2, <2>3 DEF Inv
<1>2. CASE Next
  BY <1>2, ReceivedDataInv, DelAckTimeoutInv, ProcessEstablishedInv, RetxTimerInv,
     LoseSegmentInv, LoseAckInv DEF Next, Step
<1> QED
  BY <1>1, <1>2

(* The invariant holds of every behaviour.                                 *)
THEOREM InvHolds == Spec => []Inv
<1>1. Inv /\ [Next]_vars => Inv'
  BY NextInv
<1> QED
  BY InitInv, <1>1, PTL DEF Spec

(* Every state is of its type: the windows and counters are not negative,  *)
(* although every one of them is a difference in the code.                 *)
THEOREM TypeCorrect == Spec => []TypeOK
<1>1. Inv => TypeOK
  BY DEF Inv
<1> QED
  BY InvHolds, <1>1, PTL

(* The three counters of the scoreboard are those of its flags.            *)
THEOREM ScoreboardIsConsistent == Spec => []ScoreboardConsistent
<1>1. Inv => ScoreboardConsistent
  BY DEF Inv, SenderInv, BaseOK, ScoreboardConsistent
<1> QED
  BY InvHolds, <1>1, PTL

(* What is lost is lost from the head on: what EnterRecovery asks IsLost,  *)
(* and why the fast retransmission is the head's.                          *)
THEOREM LostFromTheHeadOn == Spec => []LostFromBelow
<1>1. Inv => LostFromBelow
  BY DEF Inv, SenderInv, BaseOK, LostFromBelow
<1> QED
  BY InvHolds, <1>1, PTL

(* SND.UNA is never SACKed: the repair in DiscardUpTo is never needed.     *)
THEOREM UnaIsNotSacked == Spec => []UnaNotSacked
<1>1. Inv => UnaNotSacked
  BY DEF Inv, SenderInv, BaseOK, UnaNotSacked
<1> QED
  BY InvHolds, <1>1, PTL

(* The sender forgets nothing that has not arrived.                        *)
THEOREM NothingForgotten == Spec => []AcknowledgedIsReceived
<1>1. Inv => AcknowledgedIsReceived
  <2> SUFFICES ASSUME Inv PROVE AcknowledgedIsReceived
    OBVIOUS
  <2>1. 1 .. (snd.buf.head - 1) \subseteq 1 .. (rx.next - 1)
    BY InvFacts DEF Inv, ConnectionInv
  <2>2. 1 .. (rx.next - 1) \subseteq arrived /\ snd.buf.sacked \subseteq arrived
    BY InvFacts DEF Inv, ConnectionInv
  <2> QED
    BY <2>1, <2>2 DEF AcknowledgedIsReceived
<1> QED
  BY InvHolds, <1>1, PTL

(* The congestion states go with the counts beside them.                   *)
THEOREM StatesAreKept == Spec => []CongestionStates
<1>1. Inv => CongestionStates
  BY DEF Inv, SenderInv, SocketStates, CongestionStates
<1> QED
  BY InvHolds, <1>1, PTL

(* While something is outstanding the retransmission timer runs.           *)
THEOREM TimerKeepsRunning == Spec => []TimerRuns
<1>1. Inv => TimerRuns
  BY DEF Inv, SenderInv, TimerOK, TimerRuns
<1> QED
  BY InvHolds, <1>1, PTL

(* A connection is given up for no less than one lost or late message per  *)
(* retry, whatever is lost and whenever the timer fires: the same message  *)
(* is never charged to two time-outs.                                      *)
THEOREM GivenUpForLosses == Spec => []GivesUpOnlyForLosses
<1>1. Init => Inv /\ RetriesInv
  BY InitInv, InitRetries
<1>2. Inv /\ RetriesInv /\ [Next]_vars => Inv' /\ RetriesInv'
  BY NextInv, NextRetries
<1>3. RetriesInv => GivesUpOnlyForLosses
  BY DEF RetriesInv, GivesUpOnlyForLosses
<1> QED
  BY <1>1, <1>2, <1>3, PTL DEF Spec

(* After a time-out the head, and nothing else, is in flight.              *)
THEOREM TimeoutsSendTheHead == Spec => TimeoutSendsHead
<1> DEFINE P == snd'.dataRetrCount < snd.dataRetrCount =>
                  /\ BytesInFlight(snd'.buf) = 1
                  /\ snd.buf.head \in snd'.buf.retrans \cup {snd.buf.high}
<1>1. Inv /\ [Next]_vars => [P]_vars
  <2> SUFFICES ASSUME Inv, Next PROVE P
    OBVIOUS
  <2>1. snd.dataRetrCount \in Nat
    BY DEF Inv, TypeOK, Sockets
  <2>2. CASE snd' = snd
    <3>1. ~(snd'.dataRetrCount < snd.dataRetrCount)
      BY <2>1, <2>2
    <3> QED
      BY <3>1
  <2>3. ASSUME NEW m \in acks, ProcessEstablished(m) PROVE P
    <3>1. Inv' /\ snd'.dataRetrCount >= snd.dataRetrCount
      BY <2>3, ProcessEstablishedInv
    <3>2. snd'.dataRetrCount \in Nat
      BY <3>1 DEF Inv, TypeOK, Sockets
    <3>3. ~(snd'.dataRetrCount < snd.dataRetrCount)
      BY <2>1, <3>1, <3>2
    <3> QED
      BY <3>3
  <2>4. CASE RetxTimer
    BY <2>4, RetxTimerInv
  <2>5. snd' = snd \/ RetxTimer \/ \E m \in acks : ProcessEstablished(m)
    BY DEF Next, Step, ReceivedData, DelAckTimeout, LoseSegment, LoseAck
  <2> HIDE DEF P
  <2> QED
    BY <2>2, <2>3, <2>4, <2>5
<1> QED
  BY InvHolds, <1>1, PTL DEF Spec, TimeoutSendsHead

-----------------------------------------------------------------------------
(* The windows.  What a handler makes of the socket is what the next state *)
(* has, but for what it has sent.                                          *)
LEMMA HandedOn ==
  ASSUME NEW t \in Sockets, Transmit(t)
  PROVE  /\ snd'.buf = t.buf /\ snd'.w = t.w /\ snd'.prr = t.prr
         /\ snd'.congState = t.congState
BY DEF Transmit, Sockets

(* What an acknowledgement that is taken says to the sending socket.       *)
LEMMA TakenIsOK ==
  ASSUME Inv, NEW m \in acks, ~snd.closed, m.ack >= snd.buf.head
  PROVE  /\ BaseOK(snd) /\ Acknowledges(m, snd)
         /\ SocketStates(snd, snd.buf.head) /\ TimerOK(snd, snd.buf.head)
<1>1. /\ AckOK(m, rx.next, arrived, snd.buf)
      /\ BaseOK(snd) /\ SocketStates(snd, snd.buf.head) /\ TimerOK(snd, snd.buf.head)
  BY DEF Inv, AcksInv, SenderInv
<1> QED
  BY <1>1, InvFacts DEF AckOK, Acknowledges

(* The steps that touch the sending socket, and what they make of it.      *)
LEMMA SocketSteps ==
  ASSUME Inv, Next
  PROVE  \/ snd' = snd
         \/ \E m \in acks, e \in Estimates \cup {SameRtt} :
              ~snd.closed /\ m.ack >= snd.buf.head /\ Transmit(ReceivedAck(snd, m, e))
         \/ RetxTimer /\ GivesUp(snd)
         \/ /\ RetxTimer /\ ~GivesUp(snd) /\ BaseOK(snd) /\ snd.buf.head <= NumSegs
            /\ Transmit(ReTxTimeout(snd))
<1>1. ASSUME NEW m \in acks, ProcessEstablished(m)
      PROVE  \/ snd' = snd
             \/ \E e \in Estimates \cup {SameRtt} :
                  ~snd.closed /\ m.ack >= snd.buf.head /\ Transmit(ReceivedAck(snd, m, e))
  BY <1>1 DEF ProcessEstablished
<1>2. ASSUME RetxTimer
      PROVE  BaseOK(snd) /\ snd.buf.head <= NumSegs /\ Transmit(ReTxTimeout(snd))
  BY <1>2 DEF RetxTimer, Inv, SenderInv, TimerOK
<1>3. snd' = snd \/ RetxTimer \/ \E m \in acks : ProcessEstablished(m)
  BY DEF Next, Step, ReceivedData, DelAckTimeout, LoseSegment, LoseAck
<1> QED
  BY <1>1, <1>2, <1>3

(* Giving up sends nothing.                                                *)
LEMMA GivenUpIs ==
  ASSUME Inv, RetxTimer, GivesUp(snd)
  PROVE  snd'.buf = snd.buf /\ snd'.w = snd.w /\ snd'.prr = snd.prr
         /\ snd'.congState = snd.congState
<1> DEFINE t == [snd EXCEPT !.closed = TRUE, !.timer = FALSE]
<1>1. snd \in Sockets /\ TRUE \in BOOLEAN /\ FALSE \in BOOLEAN
  BY DEF Inv, TypeOK
<1>2. t \in Sockets
  BY <1>1, Zenon DEF Sockets
<1>3. t.buf = snd.buf /\ t.w = snd.w /\ t.prr = snd.prr /\ t.congState = snd.congState
  BY <1>1 DEF Sockets
<1>4. Transmit(t)
  BY DEF RetxTimer, ReTxTimeout
<1> HIDE DEF t
<1> QED
  BY <1>2, <1>3, <1>4, HandedOn

(* Whatever it sends, a step leaves no more in flight than the window and  *)
(* one segment: SendPendingData looks at the window, the retransmission of *)
(* DoRetransmit does not, but recovery has just made the window as large   *)
(* as what is in flight.                                                   *)
THEOREM SendingFitsTheWindow == Spec => SendsWithinWindow
<1> DEFINE P == snd'.buf.high > snd.buf.high \/ ~(snd'.buf.retrans \subseteq snd.buf.retrans) =>
                  BytesInFlight(snd'.buf) * SegSize <= snd'.w.cwnd + SegSize
<1>1. Inv /\ [Next]_vars => [P]_vars
  <2> SUFFICES ASSUME Inv, Next PROVE P
    OBVIOUS
  <2>1. snd.buf.high \in Nat
    BY InvFacts
  <2>2. CASE snd'.buf = snd.buf
    <3>1. ~(snd'.buf.high > snd.buf.high) /\ snd'.buf.retrans \subseteq snd.buf.retrans
      BY <2>1, <2>2
    <3> QED
      BY <3>1
  <2>3. ASSUME NEW m \in acks, NEW e \in Estimates \cup {SameRtt},
               ~snd.closed, m.ack >= snd.buf.head, Transmit(ReceivedAck(snd, m, e))
        PROVE  P
    <3> DEFINE t == ReceivedAck(snd, m, e)
    <3>1. /\ BaseOK(snd) /\ Acknowledges(m, snd)
          /\ SocketStates(snd, snd.buf.head) /\ TimerOK(snd, snd.buf.head)
      BY <2>3, TakenIsOK
    <3>2. /\ BaseOK(t)
          /\ \/ t.buf.high = snd.buf.high /\ t.buf.retrans \subseteq snd.buf.retrans
             \/ Fits(t)
      BY <3>1, ReceivedAckOK, ReceivedAckFits
    <3>3. Transmit(t)
      BY <2>3
    <3> HIDE DEF t
    <3>4. snd'.buf = t.buf /\ snd'.w = t.w
      BY <3>2, <3>3, HandedOn DEF BaseOK
    <3>5. CASE t.buf.high = snd.buf.high /\ t.buf.retrans \subseteq snd.buf.retrans
      <4>1. ~(snd'.buf.high > snd.buf.high) /\ snd'.buf.retrans \subseteq snd.buf.retrans
        BY <2>1, <3>4, <3>5
      <4> QED
        BY <4>1
    <3>6. CASE Fits(t)
      BY <3>4, <3>6 DEF Fits
    <3> QED
      BY <3>2, <3>5, <3>6
  <2>4. ASSUME ~GivesUp(snd), BaseOK(snd), snd.buf.head <= NumSegs,
               Transmit(ReTxTimeout(snd))
        PROVE  P
    <3> DEFINE t == ReTxTimeout(snd)
    <3>1. BaseOK(t) /\ BytesInFlight(t.buf) = 1
      BY <2>4, TimeoutOK
    <3>2. Transmit(t)
      BY <2>4
    <3> HIDE DEF t
    <3>3. snd'.buf = t.buf /\ snd'.w = t.w /\ t.w.cwnd \in Nat /\ SegSize \in Nat
      BY <3>1, <3>2, HandedOn, BaseFacts, ConstantAssumption DEF BaseOK, Windows
    <3>4. BytesInFlight(snd'.buf) * SegSize <= snd'.w.cwnd + SegSize
      BY <3>1, <3>3
    <3> QED
      BY <3>4
  <2>5. CASE RetxTimer /\ GivesUp(snd)
    BY <2>2, <2>5, GivenUpIs
  <2> HIDE DEF P
  <2> QED
    BY <2>2, <2>3, <2>4, <2>5, SocketSteps
<1> QED
  BY InvHolds, <1>1, PTL DEF Spec, SendsWithinWindow

-----------------------------------------------------------------------------
(* The pace of recovery.  A socket at rest has nothing to send, in every   *)
(* step's first state and in its last.                                     *)
LEMMA InitIdles == Init => Idles(snd)
<1> SUFFICES ASSUME Init PROVE Idles(snd)
  OBVIOUS
<1> DEFINE t == SendPendingData(NewSocket)
<1>1. t \in Sockets /\ Idles(t)
  BY NewSocketOK DEF BaseOK
<1>2. snd = [t EXCEPT !.out = None]
  BY DEF Init
<1> HIDE DEF t
<1>3. snd.buf = t.buf /\ snd.w = t.w /\ snd.congState = t.congState
  BY <1>1, <1>2 DEF Sockets
<1> QED
  BY <1>1, <1>3, SentCountSame DEF Idles

(* What every step makes of the sending socket.                            *)
PacedStep ==
  /\ Idles(snd')
  /\ snd'.congState = "RECOVERY" => Paced(Was(snd), snd'.prr.out, snd')

(* Each handler of the sending socket ends with nothing left to send, and  *)
(* leaves the socket out of recovery or with the pace kept.                *)
LEMMA NextPaced ==
  ASSUME Inv, Idles(snd), [Next]_vars
  PROVE  PacedStep
<1>1. ASSUME NEW t, BaseOK(t), Transmit(t), Idles(t),
             t.congState = "RECOVERY" => Paced(Was(snd), t.prr.out, t)
      PROVE  PacedStep
  <2>1. /\ snd'.buf = t.buf /\ snd'.w = t.w /\ snd'.prr = t.prr
        /\ snd'.congState = t.congState
    BY <1>1, HandedOn DEF BaseOK
  <2>2. Idles(snd')
    BY <1>1, <2>1, SentCountSame DEF Idles
  <2>3. snd'.congState = "RECOVERY" => Paced(Was(snd), snd'.prr.out, snd')
    BY <1>1, <2>1, PacedSame
  <2> QED
    BY <2>2, <2>3 DEF PacedStep
<1>2. ASSUME snd'.buf = snd.buf, snd'.w = snd.w, snd'.prr = snd.prr,
             snd'.congState = snd.congState
      PROVE  PacedStep
  <2>1. Idles(snd')
    BY <1>2, SentCountSame DEF Idles
  <2>2. ASSUME snd'.congState = "RECOVERY"
        PROVE  Paced(Was(snd), snd'.prr.out, snd')
    <3>1. Was(snd) = snd.prr /\ snd'.prr = snd.prr
      BY <1>2, <2>2 DEF Was
    <3>2. BaseOK(snd) /\ snd.prr.flight > 0
      BY <1>2, <2>2 DEF Inv, SenderInv, SocketStates
    <3>3. snd.prr.out \in Nat /\ snd.prr.delivered \in Nat /\ SegSize \in Nat
      BY <3>2, PaceFacts
    <3> DEFINE more == IF snd.prr.out <= snd.prr.delivered THEN SegSize ELSE 0
    <3>4. snd.prr.out - snd.prr.out <= snd.prr.delivered - snd.prr.delivered + more
      BY <3>3
    <3> QED
      BY <3>1, <3>4 DEF Paced
  <2> QED
    BY <2>1, <2>2 DEF PacedStep
<1>3. ASSUME NEW m \in acks, NEW e \in Estimates \cup {SameRtt},
             ~snd.closed, m.ack >= snd.buf.head, Transmit(ReceivedAck(snd, m, e))
      PROVE  PacedStep
  <2> DEFINE t == ReceivedAck(snd, m, e)
  <2>1. /\ BaseOK(snd) /\ Acknowledges(m, snd)
        /\ SocketStates(snd, snd.buf.head) /\ TimerOK(snd, snd.buf.head)
    BY <1>3, TakenIsOK
  <2>2. /\ BaseOK(t) /\ Idles(t)
        /\ t.congState = "RECOVERY" => Paced(Was(snd), t.prr.out, t)
    BY <2>1, ReceivedAckOK, ReceivedAckPace
  <2>3. Transmit(t)
    BY <1>3
  <2> HIDE DEF t
  <2> QED
    BY <1>1, <2>2, <2>3
<1>4. ASSUME ~GivesUp(snd), BaseOK(snd), snd.buf.head <= NumSegs,
             Transmit(ReTxTimeout(snd))
      PROVE  PacedStep
  <2> DEFINE t == ReTxTimeout(snd)
  <2>1. BaseOK(t) /\ Idles(t) /\ t.congState = "LOSS"
    BY <1>4, TimeoutOK
  <2>2. Transmit(t)
    BY <1>4
  <2> HIDE DEF t
  <2> QED
    BY <1>1, <2>1, <2>2
<1>5. CASE RetxTimer /\ GivesUp(snd)
  BY <1>2, <1>5, GivenUpIs
<1>6. CASE snd' = snd
  BY <1>2, <1>6
<1>7. CASE UNCHANGED vars
  BY <1>6, <1>7 DEF vars
<1>8. CASE Next
  BY <1>3, <1>4, <1>5, <1>6, <1>8, SocketSteps
<1> QED
  BY <1>7, <1>8

(* A socket at rest has nothing to send: a second SendPendingData would    *)
(* send nothing.                                                           *)
LEMMA SocketIdles == Spec => []Idles(snd)
<1>1. Inv /\ Idles(snd) /\ [Next]_vars => Idles(snd)'
  BY NextPaced DEF PacedStep
<1> QED
  BY InvHolds, InitIdles, <1>1, PTL DEF Spec

(* Whatever the window has room for has been sent when a handler ends:     *)
(* either there is no room for a segment, or the scoreboard has none to    *)
(* send next.  Only an acknowledgement or a time-out can make one.         *)
THEOREM NothingHeldBack ==
  Spec => [](Room(snd) = 0 \/ NextSeg(snd.buf, snd.congState = "RECOVERY") = 0)
<1>1. Inv /\ Idles(snd) => Room(snd) = 0 \/ NextSeg(snd.buf, snd.congState = "RECOVERY") = 0
  BY IdleMeans DEF Inv, SenderInv
<1> QED
  BY InvHolds, SocketIdles, <1>1, PTL

(* Recovery keeps its pace: what was sent since it began is no more than   *)
(* what was delivered and one segment, or grew in this step by no more     *)
(* than that, or is no more than the share of the threshold.               *)
THEOREM RecoveryKeepsPace == Spec => RecoveryIsPaced
<1> DEFINE P == snd'.congState = "RECOVERY" =>
       LET was == IF snd.congState = "RECOVERY" THEN snd.prr ELSE NewReduction(0)
           is == snd'.prr
           more == IF was.out <= is.delivered THEN SegSize ELSE 0
       IN \/ is.out <= is.delivered + SegSize
          \/ is.out - was.out <= is.delivered - was.delivered + more
          \/ /\ snd'.w.cwnd > snd'.w.ssthresh
             /\ is.out <= CeilDiv(is.delivered * snd'.w.ssthresh, is.flight)
                          + SegSize
<1>1. Inv /\ Idles(snd) /\ [Next]_vars => [P]_vars
  <2> SUFFICES ASSUME Inv, Idles(snd), [Next]_vars, ~UNCHANGED vars PROVE P
    OBVIOUS
  <2>1. snd'.congState = "RECOVERY" => Paced(Was(snd), snd'.prr.out, snd')
    BY NextPaced DEF PacedStep
  <2> QED
    BY <2>1, Zenon DEF Paced, Was
<1> QED
  BY InvHolds, SocketIdles, <1>1, PTL DEF Spec, RecoveryIsPaced
=============================================================================
