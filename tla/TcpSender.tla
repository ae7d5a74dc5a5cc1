----------------------------- MODULE TcpSender -----------------------------
(***************************************************************************)
(* A bulk transfer over ns-3's TCP as the experiments of this repository   *)
(* configure it: SACK and timestamps, no ECN, TcpConstant as congestion    *)
(* control, proportional rate reduction in recovery.  The sending socket   *)
(* (TcpSocketBase with its TcpTxBuffer), the receiving one (ReceivedData   *)
(* and its TcpRxBuffer) and the network between them, which may lose,      *)
(* delay and reorder what it is given.                                     *)
(*                                                                         *)
(* The connection is ESTABLISHED and the application has written the whole *)
(* stream; closing the connection is not modelled.  A handler of the       *)
(* simulator runs to its end, so each is one action.  The state of the     *)
(* sending socket is one record; a handler is an operator from what it was *)
(* to what it is after, and `out` counts the segments it hands to IP.      *)
(***************************************************************************)
EXTENDS Integers, FiniteSets, TcpTxBuffer, TcpConstant

CONSTANTS
  InitialCwnd,      \* the first window and the first threshold, in units
  InitialSsThresh,
  DataRetries,      \* time-outs in a row before the connection is dropped
  DelAckCount,      \* segments in sequence that make an acknowledgement
  MaxDrops,         \* bound: messages the network loses
  MaxSpurious       \* bound: time-outs while something is still on its way

ASSUME SenderAssumption ==
  /\ InitialCwnd \in Nat /\ InitialCwnd >= SegSize /\ InitialSsThresh \in Nat \ {0}
  /\ DataRetries \in Nat /\ DelAckCount \in Nat \ {0}
  /\ MaxDrops \in Nat /\ MaxSpurious \in Nat

Rx == INSTANCE TcpRxBuffer

VARIABLES
  snd,          \* the sending socket
  wire,         \* segment -> copies of it on their way
  rx,           \* the buffer of the receiving socket
  delAckCount,  \* its segments in sequence that are not acknowledged
  delAck,       \* is its delayed acknowledgement scheduled?
  arrived,      \* history: the segments that came
  acks,         \* acknowledgements on their way: a second one that says the
                \* same changes nothing
  drops, spurious

receiver == <<rx, delAckCount, delAck, arrived>>
bounds == <<drops, spurious>>
vars == <<snd, wire, receiver, acks, bounds>>

None == [i \in Segs |-> 0]

-----------------------------------------------------------------------------
(* Sending one segment, and as many as the window has room for: first the  *)
(* lost ones, then new ones, then in recovery those nobody has missed yet. *)
(* `bytesInFlight` is the flight when it was last asked for, in segments:  *)
(* SendDataPacket asks before it copies the segment.                       *)
SendDataPacket(s, i) ==
  [s EXCEPT !.buf = CopyFromSequence(@, i),
            !.bytesInFlight = BytesInFlight(s.buf),
            !.timer = TRUE,
            !.prr.out = IF s.congState = "RECOVERY" THEN @ + SegSize ELSE @,
            !.out[i] = @ + 1]

Lowest(S, k) == {i \in S : Cardinality({j \in S : j < i}) < k}

(* Mutant: what is in flight is not taken off.                             *)
RoomOfWindow(s) == s.w.cwnd \div SegSize

Room(s) ==
  IF s.w.cwnd < BytesInFlight(s.buf) * SegSize THEN 0
  ELSE (s.w.cwnd - BytesInFlight(s.buf) * SegSize) \div SegSize

Retransmit(b, S) ==
  [b EXCEPT !.retrans = @ \cup S, !.retransOut = @ + Cardinality(S)]

OneIf(p) == IF p THEN 1 ELSE 0

SendPendingData(s) ==
  LET lost == Lowest(LostSegs(s.buf), Room(s))
      left1 == Room(s) - Cardinality(lost)
      fresh == Lowest(UnsentSegs(s.buf), left1)
      sent == [Retransmit(s.buf, lost) EXCEPT !.high = @ + Cardinality(fresh)]
      left2 == left1 - Cardinality(fresh)
      rescue == IF s.congState = "RECOVERY" THEN Lowest(RescueSegs(sent), left2)
                ELSE {}
      all == Cardinality(lost) + Cardinality(fresh) + Cardinality(rescue)
  IN [s EXCEPT !.buf = Retransmit(sent, rescue),
               !.bytesInFlight = BytesInFlight(Retransmit(sent, rescue)),
               !.timer = @ \/ all > 0,
               !.prr.out = IF s.congState = "RECOVERY" THEN @ + all * SegSize ELSE @,
               !.out = [i \in Segs |-> @[i] + OneIf(i \in lost \cup fresh)
                                            + OneIf(i \in rescue)]]

(* Without a look at the window.                                           *)
DoRetransmit(s) ==
  LET i == NextSeg(s.buf, FALSE)
  IN SendDataPacket(s, IF i = 0 THEN s.buf.head ELSE i)

-----------------------------------------------------------------------------
(* Recovery.  `news` is what an acknowledgement brings beside its number:  *)
(* the units that were delivered, whether one was a retransmission, and    *)
(* what the clock says.  The flight is the one last asked for: when an     *)
(* acknowledgement enters recovery and is partial too, the second call     *)
(* does not see the fast retransmission.                                   *)
DoRecovery(s, news) ==
  LET prr == AfterDelivery(s.prr, news.delivered)
  IN [s EXCEPT !.prr = prr,
               !.w = RecoveryWindow(prr, @, s.bytesInFlight * SegSize,
                                    news.delivered, news.retransAcked)]

EnterRecovery(s, news) ==
  LET b == IF IsLost(s.buf, s.buf.head) THEN s.buf ELSE MarkHeadAsLost(s.buf)
  IN DoRetransmit(DoRecovery(
       [s EXCEPT !.buf = b, !.bytesInFlight = BytesInFlight(b),
                 !.congState = "RECOVERY",
                 !.recover = b.high, !.recoverActive = TRUE,
                 !.w.ssthresh = GetSsThresh(s.w),
                 !.prr = NewReduction(SentSize(b) * SegSize)],
       news))

(* Do the duplicates, or the scoreboard, say that a segment is lost?       *)
EntersRecovery(s, ack) ==
  \/ s.dupAckCount = DupAckThresh /\ (ack >= s.recover \/ ~s.recoverActive)
  \/ IsLost(s.buf, ack + 1)

DupAck(s, ack, news) ==
  LET t == [s EXCEPT !.dupAckCount = @ + 1, !.congState = "DISORDER"]
  IN IF s.congState = "LOSS" THEN s
     ELSE IF s.congState = "RECOVERY" THEN DoRecovery(s, news)
     ELSE IF EntersRecovery(t, ack) THEN EnterRecovery(t, news)
     ELSE t

(* Mutant: the timer is cancelled, and not scheduled again.                *)
NewAckStopsTimer(s, resetRTO) ==
  [s EXCEPT !.dataRetrCount = DataRetries, !.timer = FALSE]

NewAck(s, resetRTO) ==
  [s EXCEPT !.dataRetrCount = DataRetries,
            !.timer = s.buf.head <= NumSegs /\ (resetRTO \/ @)]

-----------------------------------------------------------------------------
(* An acknowledgement of new data.                                         *)
PartialAck(s, ack, news) ==
  LET r == DoRecovery(s, news)
      t == IF IsRetransmitted(r.buf, ack) THEN r ELSE DoRetransmit(r)
  IN [NewAck(t, t.isFirstPartialAck) EXCEPT !.isFirstPartialAck = FALSE]

LossAck(s, acked, news) ==
  NewAck([s EXCEPT !.w = IncreaseWindow(@, acked, news.estimate)], TRUE)

(* Mutant: the way back to OPEN does not reset the duplicates.             *)
FullAckKeepsDupAcks(s, ack, acked, isDupack, news) ==
  NewAck([s EXCEPT !.congState = "OPEN", !.isFirstPartialAck = TRUE,
                   !.recoverActive = @ /\ ack < s.recover,
                   !.w = IncreaseWindow(@, acked, news.estimate)], TRUE)

FullAck(s, ack, acked, isDupack, news) ==
  LET recovered == s.congState = "RECOVERY"
      count == IF s.congState = "LOSS" THEN ack - s.recover ELSE acked
      t == [s EXCEPT
              !.congState = IF @ = "DISORDER" /\ isDupack THEN @ ELSE "OPEN",
              !.isFirstPartialAck = @ \/ s.congState \in {"RECOVERY", "LOSS"},
              !.dupAckCount = IF recovered THEN 0 ELSE @,
              !.recoverActive = @ /\ ack < s.recover,
              !.w.cwnd = IF recovered THEN s.w.ssthresh ELSE @]
  IN IF t.congState = "OPEN"
     THEN NewAck([t EXCEPT !.w = IncreaseWindow(@, count, news.estimate)], TRUE)
     ELSE t

ProcessAck(s, ack, oldHead, isDupack, news) ==
  LET d == IF isDupack THEN DupAck(s, ack, news) ELSE s
      t == IF isDupack THEN d ELSE [d EXCEPT !.dupAckCount = 0]
      acked == ack - oldHead
  IN IF acked = 0 THEN d
     ELSE IF t.congState = "RECOVERY" /\ ack < t.recover THEN PartialAck(t, ack, news)
     ELSE IF t.congState = "LOSS" /\ ack < t.recover THEN LossAck(t, acked, news)
     ELSE FullAck(t, ack, acked, isDupack, news)

ReceivedAck(s, m, estimate) ==
  LET b == Update(s.buf, m.blocks)
      sacked == b.sacked \ s.buf.sacked
      covered == s.buf.head .. (m.ack - 1)
      news == [delivered |-> SegSize * (Cardinality(sacked)
                                        + Cardinality(covered \ b.sacked)),
               retransAcked |-> /\ s.congState = "RECOVERY" /\ m.ack < s.recover
                                /\ \E i \in covered : IsRetransmitted(b, i),
               estimate |-> estimate]
      una == DiscardUpTo(b, m.ack)
  IN SendPendingData(ProcessAck([s EXCEPT !.buf = una,
                                          !.bytesInFlight = BytesInFlight(una)],
                                m.ack, s.buf.head, sacked # {}, news))

(* Mutants: the retries are not looked at; the last one is not taken.      *)
GivesUpNever(s) == FALSE

GivesUpEarly(s) == s.dataRetrCount = 1

GivesUp(s) == s.dataRetrCount = 0

(* The retransmission timer: everything is lost, and the head is sent.     *)
ReTxTimeout(s) ==
  LET b == SetSentListLost(s.buf)
  IN IF GivesUp(s) THEN [s EXCEPT !.closed = TRUE, !.timer = FALSE]
     ELSE SendPendingData(
       [s EXCEPT !.buf = b, !.dataRetrCount = @ - 1, !.dupAckCount = 0,
                 !.recover = b.high, !.recoverActive = TRUE,
                 !.congState = "LOSS", !.timer = FALSE,
                 !.w.ssthresh = IF s.congState # "LOSS" \/ b.head \notin b.retrans
                                THEN GetSsThresh(s.w) ELSE @,
                 !.w.cwnd = SegSize])

-----------------------------------------------------------------------------
NewSocket ==
  [congState |-> "OPEN", buf |-> EmptyBuffer, bytesInFlight |-> 0,
   w |-> [cwnd |-> InitialCwnd, ssthresh |-> InitialSsThresh, k_rounds |-> KRounds],
   prr |-> NewReduction(0),
   dupAckCount |-> 0, recover |-> 1, recoverActive |-> FALSE,
   isFirstPartialAck |-> TRUE, dataRetrCount |-> DataRetries,
   timer |-> FALSE, closed |-> FALSE, out |-> None]

(* What a handler has handed to IP is on its way.                          *)
Transmit(s) ==
  /\ snd' = [s EXCEPT !.out = None]
  /\ wire' = [i \in Segs |-> wire[i] + s.out[i]]

Init ==
  /\ LET s == SendPendingData(NewSocket)
     IN snd = [s EXCEPT !.out = None] /\ wire = s.out
  /\ rx = Rx!EmptyRx /\ delAckCount = DelAckCount /\ delAck = FALSE
  /\ arrived = {} /\ acks = {} /\ drops = 0 /\ spurious = 0

-----------------------------------------------------------------------------
(* The receiving socket.  What is old, leaves a gap or fills one is        *)
(* acknowledged at once, the rest when enough has come or when the timer   *)
(* of the delayed acknowledgement expires.                                 *)
AckOf(r) == [ack |-> r.next, blocks |-> Rx!SackOption(r)]

SendAck(r) ==
  /\ acks' = acks \cup {AckOf(r)}
  /\ delAckCount' = 0 /\ delAck' = FALSE

AckNow(i, r) ==
  \/ ~Rx!CanAdd(rx, i)
  \/ r.ooo # {}
  \/ r.next > rx.next + 1
  \/ delAckCount + 1 >= DelAckCount

ReceivedData(i) ==
  LET r == IF Rx!CanAdd(rx, i) THEN Rx!Add(rx, i) ELSE rx
  IN /\ wire[i] > 0
     /\ wire' = [wire EXCEPT ![i] = @ - 1]
     /\ rx' = r /\ arrived' = arrived \cup {i}
     /\ \/ AckNow(i, r) /\ SendAck(r)
        \/ ~AckNow(i, r) /\ delAckCount' = delAckCount + 1 /\ delAck' = TRUE
           /\ UNCHANGED acks
     /\ UNCHANGED <<snd, bounds>>

DelAckTimeout ==
  /\ delAck /\ SendAck(rx)
  /\ UNCHANGED <<snd, wire, rx, arrived, bounds>>

(* The sending socket.  An acknowledgement below SND.UNA is ignored.       *)
ProcessEstablished(m) ==
  /\ m \in acks /\ ~snd.closed
  /\ acks' = acks \ {m}
  /\ \/ m.ack < snd.buf.head /\ UNCHANGED <<snd, wire>>
     \/ /\ m.ack >= snd.buf.head
        /\ \E e \in Estimates \cup {SameRtt} : Transmit(ReceivedAck(snd, m, e))
  /\ UNCHANGED <<receiver, bounds>>

Idle == wire = None /\ acks = {} /\ ~delAck

RetxTimer ==
  /\ snd.timer /\ ~snd.closed
  /\ Idle \/ spurious < MaxSpurious
  /\ spurious' = IF Idle THEN spurious ELSE spurious + 1
  /\ Transmit(ReTxTimeout(snd))
  /\ UNCHANGED <<receiver, acks, drops>>

(* The network.                                                            *)
LoseSegment(i) ==
  /\ drops < MaxDrops /\ drops' = drops + 1
  /\ wire[i] > 0 /\ wire' = [wire EXCEPT ![i] = @ - 1]
  /\ UNCHANGED <<snd, receiver, acks, spurious>>

LoseAck(m) ==
  /\ drops < MaxDrops /\ drops' = drops + 1
  /\ m \in acks /\ acks' = acks \ {m}
  /\ UNCHANGED <<snd, wire, receiver, spurious>>

Step ==
  \/ \E i \in Segs : ReceivedData(i)
  \/ DelAckTimeout
  \/ \E m \in acks : ProcessEstablished(m)
  \/ RetxTimer

Next ==
  \/ Step
  \/ \E i \in Segs : LoseSegment(i)
  \/ \E m \in acks : LoseAck(m)

Spec == Init /\ [][Next]_vars

(* The simulator carries out every event that is scheduled: weak fairness  *)
(* of Step, with what enables it written out.                              *)
Pending ==
  \/ wire # None \/ delAck
  \/ /\ ~snd.closed
     /\ acks # {} \/ (snd.timer /\ (Idle \/ spurious < MaxSpurious))

FairSpec == Spec /\ ([]<>~Pending \/ []<><<Step>>_vars)
-----------------------------------------------------------------------------
(* The types; both windows are at least what the code keeps them at.       *)
Windows == [cwnd : Nat, ssthresh : Nat, k_rounds : 0..KRounds]

Reductions == [out : Nat, delivered : Nat, flight : Nat]

Sockets ==
  [congState : {"OPEN", "DISORDER", "RECOVERY", "LOSS"}, buf : Buffers,
   bytesInFlight : Nat, w : Windows, prr : Reductions, dupAckCount : Nat,
   recover : 1..(NumSegs + 1), recoverActive : BOOLEAN,
   isFirstPartialAck : BOOLEAN, dataRetrCount : 0..DataRetries,
   timer : BOOLEAN, closed : BOOLEAN, out : [Segs -> Nat]]

Blocks == [Rx!Places -> SUBSET Segs]

TypeOK ==
  /\ snd \in Sockets
  /\ wire \in [Segs -> Nat]
  /\ rx \in [next : 1..(NumSegs + 1), ooo : SUBSET Segs, sackList : Blocks]
  /\ delAckCount \in 0..DelAckCount /\ delAck \in BOOLEAN
  /\ acks \subseteq [ack : 1..(NumSegs + 1), blocks : Blocks]
  /\ arrived \subseteq Segs
  /\ drops \in 0..MaxDrops /\ spurious \in 0..MaxSpurious

(* The counters of the scoreboard are those of its flags, no segment is    *)
(* lost and SACKed, and there is no flag outside the sent list: the check  *)
(* the build leaves out (TcpTxBuffer::ConsistencyCheck), on whose counters *)
(* BytesInFlight and so the window rest.                                   *)
ScoreboardConsistent == ConsistencyCheck(snd.buf)

(* "It is not possible to have the UNA sacked; otherwise, it would have    *)
(* been ACKed" (TcpTxBuffer::DiscardUpTo), and the repair that follows is  *)
(* dead code under SACK, whatever order acknowledgements come in.          *)
UnaNotSacked == snd.buf.head \notin snd.buf.sacked

(* EnterRecovery asks whether the head is lost, IsLost answers for the     *)
(* first segment from there on that has a flag: the answer is right, for   *)
(* no unSACKed segment is thought to be there when a later one is lost.    *)
LostFromBelow == LostBelow(snd.buf)

(* What the sender drops or will not send again has arrived.               *)
AcknowledgedIsReceived ==
  1 .. (snd.buf.head - 1) \cup snd.buf.sacked \subseteq arrived

(* The congestion states against the counts beside them, as DupAck asserts *)
(* them: no duplicates are counted in OPEN and LOSS, fewer than the        *)
(* threshold in DISORDER, and a recovery point is there in RECOVERY and    *)
(* LOSS and, unlike the comment in DupAck says, nowhere else; it is ahead. *)
CongestionStates ==
  /\ snd.congState \in {"OPEN", "LOSS"} => snd.dupAckCount = 0
  /\ snd.congState = "DISORDER" => snd.dupAckCount \in 1 .. (DupAckThresh - 1)
  /\ snd.recoverActive <=> snd.congState \in {"RECOVERY", "LOSS"}
  /\ snd.recoverActive => snd.buf.head <= snd.recover /\ snd.recover <= snd.buf.high
  /\ snd.congState = "RECOVERY" => snd.buf.head < snd.recover

(* While something is not acknowledged the retransmission timer runs: with *)
(* a window of less than a segment nothing else would ever send again.     *)
TimerRuns == ~snd.closed /\ snd.buf.head <= NumSegs => snd.timer

(* A connection is given up for no less than one lost or late message per  *)
(* retry: acknowledgements that get through start the count again.         *)
GivesUpOnlyForLosses == snd.closed => drops + spurious >= DataRetries

(* After a time-out the head, and nothing else, is in flight: the two      *)
(* assertions of ReTxTimeout.                                              *)
TimeoutSendsHead ==
  [][snd'.dataRetrCount < snd.dataRetrCount =>
       /\ BytesInFlight(snd'.buf) = 1
       /\ snd.buf.head \in snd'.buf.retrans \cup {snd.buf.high}]_vars

(* A step that sends leaves no more in flight than the window and the one  *)
(* segment that a partial acknowledgement may send without a look at it.   *)
SendsWithinWindow ==
  [][snd'.buf.high > snd.buf.high \/ ~(snd'.buf.retrans \subseteq snd.buf.retrans) =>
       BytesInFlight(snd'.buf) * SegSize <= snd'.w.cwnd + SegSize]_vars

(* Recovery sends no more than what was delivered since it began, and the  *)
(* one segment of the fast retransmission; or, once a retransmission has   *)
(* been acknowledged and unless more was sent than delivered, no more than *)
(* this step delivered and one segment; or, with more in flight than the   *)
(* threshold, the share of what was delivered that the threshold is of the *)
(* flight, and the fast retransmission: what proportional rate reduction   *)
(* is for.                                                                 *)
RecoveryIsPaced ==
  [][snd'.congState = "RECOVERY" =>
       LET was == IF snd.congState = "RECOVERY" THEN snd.prr ELSE NewReduction(0)
           is == snd'.prr
           more == IF was.out <= is.delivered THEN SegSize ELSE 0
       IN \/ is.out <= is.delivered + SegSize
          \/ is.out - was.out <= is.delivered - was.delivered + more
          \/ /\ snd'.w.cwnd > snd'.w.ssthresh
             /\ is.out <= CeilDiv(is.delivered * snd'.w.ssthresh, is.flight)
                          + SegSize]_vars

(* Every byte is delivered in the end, unless the connection is given up.  *)
DeliveredAtLast == <>(snd.closed \/ snd.buf.head > NumSegs)
=============================================================================
