---------------------------- MODULE TcpRxBuffer ----------------------------
(***************************************************************************)
(* The receiver's buffer (class TcpRxBuffer): the next segment in          *)
(* sequence, the segments that came out of order, and the blocks of them   *)
(* to report, the most recent first.  A block is a set of consecutive      *)
(* segments; what is in sequence is read by the application at once.       *)
(*                                                                         *)
(* The list of blocks has four places.  The empty set is a place that is   *)
(* not in use, wherever it is: only the order of the others counts.        *)
(***************************************************************************)
EXTENDS Integers

CONSTANT NumSegs   \* segments of the stream

Segs == 1..NumSegs
Places == 1..4

NoBlocks == [k \in Places |-> {}]

EmptyRx == [next |-> 1, ooo |-> {}, sackList |-> NoBlocks]

Received(rx) == 1 .. (rx.next - 1) \cup rx.ooo

(* The new segment and the blocks it touches become the first block; those *)
(* before the first free place make room for it, and if there is none the  *)
(* last one is dropped.                                                    *)
Touches(block, i) == i - 1 \in block \/ i + 1 \in block

UpdateSackList(list, i) ==
  LET merged == {i} \cup UNION {list[k] : k \in {h \in Places : Touches(list[h], i)}}
      rest == [k \in Places |-> IF Touches(list[k], i) THEN {} ELSE list[k]]
      free(k) == \E h \in 1 .. (k - 1) : rest[h] = {}
  IN [k \in Places |-> IF k = 1 THEN merged
                       ELSE IF free(k) THEN rest[k] ELSE rest[k - 1]]

ClearSackList(list, next) ==
  [k \in Places |-> IF \E i \in list[k] : next <= i THEN list[k] ELSE {}]

(* Mutants: what is buffered next to the segment, or a gap, is passed over. *)
InSequenceOne(next, have) == IF next \in have THEN next + 1 ELSE next

InSequenceHighest(next, have) ==
  CHOOSE k \in next .. (NumSegs + 1) : \A j \in have : j < k

(* Where the sequence ends when have is there beyond next.                 *)
InSequence(next, have) ==
  CHOOSE k \in next .. (NumSegs + 1) :
    /\ k \notin have
    /\ \A j \in next .. (k - 1) : j \in have

(* Is there anything in segment i to buffer?                               *)
CanAdd(rx, i) == rx.next <= i /\ i \notin rx.ooo

Add(rx, i) ==
  LET have == rx.ooo \cup {i}
      next == InSequence(rx.next, have)
      list == IF i > rx.next THEN UpdateSackList(rx.sackList, i) ELSE rx.sackList
  IN [next |-> next,
      ooo |-> {j \in have : j >= next},
      sackList |-> IF next = rx.next THEN list ELSE ClearSackList(list, next)]

(* The SACK option of an ACK: beside the timestamp option there is room    *)
(* for three blocks.                                                       *)
SackOption(rx) ==
  [k \in Places |-> IF k = 4 /\ \A h \in 1..3 : rx.sackList[h] # {} THEN {}
                    ELSE rx.sackList[k]]
=============================================================================
