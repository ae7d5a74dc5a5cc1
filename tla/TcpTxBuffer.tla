---------------------------- MODULE TcpTxBuffer ----------------------------
(***************************************************************************)
(* The sender's buffer with its SACK scoreboard (class TcpTxBuffer), of a  *)
(* connection that has negotiated SACK.                                    *)
(*                                                                         *)
(* The stream is a number of whole segments, 1..NumSegs, all of them in    *)
(* the buffer; a sequence number is the number of a segment, and 0 is the  *)
(* SequenceNumber32 (0) that stands for "none".  The sent list is what     *)
(* lies from head (SND.UNA) up to high; the flags of its items are kept    *)
(* as three sets of segments, beside the three counters of the class,      *)
(* which count segments instead of bytes.  The receiver's window is never  *)
(* the limit: with the default attributes it is as large as this buffer,   *)
(* and the sinks of the experiments read at once.                          *)
(***************************************************************************)
EXTENDS Integers, FiniteSets, FiniteSetsExt

CONSTANTS
  NumSegs,        \* segments of the stream
  DupAckThresh    \* m_dupAckThresh, from the attribute ReTxThreshold

ASSUME TxBufferAssumption ==
  /\ NumSegs \in Nat \ {0} /\ DupAckThresh \in Nat \ {0}

Segs == 1..NumSegs

Buffers ==
  [head : 1..(NumSegs + 1), high : 1..(NumSegs + 1),
   sacked : SUBSET Segs, lost : SUBSET Segs, retrans : SUBSET Segs,
   sackedOut : 0..NumSegs, lostOut : 0..NumSegs, retransOut : 0..NumSegs,
   highestSack : 0..NumSegs]

EmptyBuffer ==
  [head |-> 1, high |-> 1, sacked |-> {}, lost |-> {}, retrans |-> {},
   sackedOut |-> 0, lostOut |-> 0, retransOut |-> 0, highestSack |-> 0]

SentList(b) == b.head .. (b.high - 1)

SentSize(b) == b.high - b.head

BytesInFlight(b) == SentSize(b) - (b.sackedOut + b.lostOut) + b.retransOut

-----------------------------------------------------------------------------
(* Sending.  A segment that was sent before gets the flag m_retrans.       *)
GetTransmittedSegment(b, i) ==
  [b EXCEPT !.retrans = @ \cup {i},
            !.retransOut = IF i \in b.retrans THEN @ ELSE @ + 1]

GetNewSegment(b) == [b EXCEPT !.high = @ + 1]

CopyFromSequence(b, i) ==
  IF i < b.high THEN GetTransmittedSegment(b, i) ELSE GetNewSegment(b)

(* What the three rules of NextSeg may choose from.                        *)
LostSegs(b) == (SentList(b) \cap b.lost) \ (b.retrans \cup b.sacked)

UnsentSegs(b) == b.high .. NumSegs

RescueSegs(b) == SentList(b) \ (b.retrans \cup b.sacked)

(* The next segment to send, or 0.                                         *)
NextSeg(b, isRecovery) ==
  IF LostSegs(b) # {} THEN Min(LostSegs(b))
  ELSE IF UnsentSegs(b) # {} THEN b.high
  ELSE IF isRecovery /\ RescueSegs(b) # {} THEN Min(RescueSegs(b))
  ELSE 0

-----------------------------------------------------------------------------
(* Losses.                                                                 *)
MarkHeadAsLost(b) ==
  IF SentList(b) = {} THEN b
  ELSE [b EXCEPT !.sacked = @ \ {b.head},
                 !.sackedOut = IF b.head \in b.sacked THEN @ - 1 ELSE @,
                 !.retrans = @ \ {b.head},
                 !.retransOut = IF b.head \in b.retrans THEN @ - 1 ELSE @,
                 !.lost = @ \cup {b.head},
                 !.lostOut = IF b.head \in b.lost THEN @ ELSE @ + 1]

(* Mutant: the flags and the count of retransmissions are left.            *)
SetSentListLostOnly(b) ==
  [b EXCEPT !.lost = SentList(b) \ b.sacked,
            !.lostOut = Cardinality(SentList(b) \ b.sacked)]

(* After a time-out: everything that is not SACKed is lost, and nothing    *)
(* has been retransmitted.                                                 *)
SetSentListLost(b) ==
  LET all == SentList(b) \ (b.sacked \ b.lost)
  IN [b EXCEPT !.retrans = @ \ SentList(b), !.retransOut = 0,
               !.lost = @ \cup all, !.lostOut = Cardinality(all)]

(* How many SACKed items the walk down from m_highestSack has met at i.    *)
SackedFrom(b, i) == Cardinality({j \in b.sacked : i <= j /\ j <= b.highestSack})

(* Mutant: the walk ends before it comes to the head.                      *)
UpdateLostCountAbove(b) ==
  LET gone == {i \in SentList(b) :
                 /\ b.head < i /\ i <= b.highestSack
                 /\ SackedFrom(b, i) >= DupAckThresh
                 /\ i \notin b.sacked}
      found == gone \ b.lost
  IN [b EXCEPT !.lost = @ \cup found, !.lostOut = @ + Cardinality(found)]

UpdateLostCount(b) ==
  LET gone == {i \in SentList(b) :
                 /\ b.head < i /\ i <= b.highestSack
                 /\ SackedFrom(b, i) >= DupAckThresh
                 /\ i \notin b.sacked}
      head == IF SackedFrom(b, b.head + 1) >= DupAckThresh THEN {b.head} ELSE {}
      found == (gone \cup head) \ b.lost
  IN [b EXCEPT !.lost = @ \cup found, !.lostOut = @ + Cardinality(found)]

(* Is the first flagged segment from s on a lost one?                      *)
IsLost(b, s) ==
  /\ s < b.highestSack
  /\ \E i \in SentList(b) : /\ s <= i /\ i \in b.lost
                            /\ \A j \in s .. (i - 1) : j \notin b.sacked

(* Is segment i an unSACKed retransmission?                                *)
IsRetransmitted(b, i) == i \in SentList(b) /\ i \in b.retrans /\ i \notin b.sacked

-----------------------------------------------------------------------------
(* The scoreboard takes up one block of an option: m_highestSack follows   *)
(* the segments that are new as the walk over the sent list meets them.    *)
Highest(highest, fresh) ==
  LET above == {i \in fresh : highest = 0 \/ highest <= i + 1}
  IN IF above = {} THEN highest ELSE Max(above)

FreshIn(b, block) == (SentList(b) \cap block) \ b.sacked

(* The segments an option reports: four blocks at most, the first first.   *)
Reported(blocks) == UNION {blocks[k] : k \in DOMAIN blocks}

HighestAfter(b, blocks) ==
  LET fresh(k) == FreshIn(b, blocks[k])
  IN Highest(Highest(Highest(Highest(b.highestSack, fresh(1)), fresh(2)),
                     fresh(3)), fresh(4))

(* Mutant: a segment stays lost when it is SACKed.                         *)
UpdateKeepsLost(b, blocks) ==
  LET fresh == FreshIn(b, Reported(blocks))
  IN IF fresh = {} THEN b
     ELSE UpdateLostCount(
            [b EXCEPT !.sacked = @ \cup fresh,
                      !.sackedOut = @ + Cardinality(fresh),
                      !.highestSack = HighestAfter(b, blocks)])

Update(b, blocks) ==
  LET fresh == FreshIn(b, Reported(blocks))
  IN IF fresh = {} THEN b
     ELSE UpdateLostCount(
            [b EXCEPT !.sacked = @ \cup fresh,
                      !.sackedOut = @ + Cardinality(fresh),
                      !.lost = @ \ fresh,
                      !.lostOut = @ - Cardinality(fresh \cap b.lost),
                      !.highestSack = HighestAfter(b, blocks)])

-----------------------------------------------------------------------------
(* A guess for a SACK that must have been misplaced.                       *)
AddRenoSack(b) ==
  LET room == (SentList(b) \ {b.head}) \ b.sacked
  IN IF room = {} THEN b
     ELSE [b EXCEPT !.sacked = @ \cup {Min(room)}, !.sackedOut = @ + 1,
                    !.highestSack = Min(room)]

(* Everything before segment a is removed, from the counters too.          *)
RemoveUpTo(b, a) ==
  LET gone == b.head .. (a - 1)
  IN [b EXCEPT !.head = a,
               !.sacked = @ \ gone, !.sackedOut = @ - Cardinality(gone \cap b.sacked),
               !.retrans = @ \ gone,
               !.retransOut = @ - Cardinality(gone \cap b.retrans),
               !.lost = @ \ gone, !.lostOut = @ - Cardinality(gone \cap b.lost)]

(* A head that is SACKed is taken for a wrong guess.                       *)
UnsackHead(b) ==
  IF b.head \in b.sacked /\ SentList(b) # {}
  THEN MarkHeadAsLost(AddRenoSack(
         [b EXCEPT !.sacked = @ \ {b.head}, !.sackedOut = @ - 1]))
  ELSE b

DiscardUpTo(b, a) ==
  IF a <= b.head THEN b
  ELSE LET c == UnsackHead(RemoveUpTo(b, a))
       IN IF c.highestSack <= c.head THEN [c EXCEPT !.highestSack = 0] ELSE c

-----------------------------------------------------------------------------
(* The flags of segments that are not in the sent list are gone, and the   *)
(* counters are those of the flags: what ConsistencyCheck compares when it *)
(* is compiled in.                                                         *)
ConsistencyCheck(b) ==
  /\ b.head <= b.high
  /\ b.sacked \cup b.lost \cup b.retrans \subseteq SentList(b)
  /\ b.sacked \cap b.lost = {}
  /\ b.sackedOut = Cardinality(b.sacked)
  /\ b.lostOut = Cardinality(b.lost)
  /\ b.retransOut = Cardinality(b.retrans)

(* What is not SACKed is lost when something after it is.                  *)
LostBelow(b) == \A i \in b.lost, j \in SentList(b) \ b.sacked : j < i => j \in b.lost
=============================================================================
