---------------------------- MODULE TcpConstant ----------------------------
(***************************************************************************)
(* The congestion control of this repository (class TcpConstant) and the   *)
(* proportional rate reduction it is used with (class TcpPrrRecovery).     *)
(* Windows are counted in units of which a segment holds SegSize, so that  *)
(* a window may be less than a segment.                                    *)
(*                                                                         *)
(* The clock is left out.  In congestion avoidance the window becomes      *)
(* estimated bandwidth times smallest round-trip time, in the code's own   *)
(* scale, whenever the round-trip time has moved by more than the fraction *)
(* beta since the window was set last; which of these happens, and what    *)
(* the estimate is, may be anything the clock allows.                      *)
(***************************************************************************)
EXTENDS Integers, FiniteSets

CONSTANTS
  SegSize,     \* m_segmentSize, in units
  KRounds,     \* k_rounds as the constructor sets it
  Estimates,   \* what bandwidth times round-trip time may come to, in units
  SameRtt,     \* in the place of an estimate: the round-trip time is the same
  WordSize     \* the number of values of a uint32_t

ASSUME ConstantAssumption ==
  /\ SegSize \in Nat \ {0} /\ KRounds \in Nat /\ Estimates \subseteq Nat
  /\ SameRtt \notin Estimates /\ WordSize \in Nat \ {0}

AtLeast(a, b) == IF a < b THEN b ELSE a
AtMost(a, b) == IF a < b THEN a ELSE b

-----------------------------------------------------------------------------
(* A window: [cwnd, ssthresh, k_rounds].                                   *)
SlowStart(w, acked) ==
  [w EXCEPT !.cwnd = IF acked >= 1 THEN AtMost(@ + acked * SegSize, w.ssthresh) ELSE @]

CongestionAvoidance(w, estimate) ==
  IF estimate = SameRtt THEN w ELSE [w EXCEPT !.cwnd = AtLeast(estimate, 1)]

IncreaseWindow(w, acked, estimate) ==
  IF w.cwnd < w.ssthresh /\ w.k_rounds > 0
  THEN [SlowStart(w, acked) EXCEPT !.k_rounds = @ - 1]
  ELSE CongestionAvoidance(w, estimate)

GetSsThresh(w) == AtLeast(w.cwnd \div 2, 2 * SegSize)

-----------------------------------------------------------------------------
(* A reduction: [out, delivered, flight], m_prrOut, m_prrDelivered and     *)
(* m_recoveryFlightSize.  The product is one of two uint32_t; the          *)
(* difference of two of them is compared as the large number it becomes    *)
(* when it is negative.                                                    *)
CeilDiv(a, b) == (a + b - 1) \div b

SendCount(prr, w, inFlight, delivered, retransAcked) ==
  LET room == w.ssthresh - inFlight
      owed == prr.delivered - prr.out
      limit == IF ~retransAcked THEN delivered
               ELSE (IF owed < 0 THEN owed ELSE AtLeast(owed, delivered)) + SegSize
      count == IF inFlight > w.ssthresh
               THEN CeilDiv((prr.delivered * w.ssthresh) % WordSize, prr.flight) - prr.out
               ELSE AtMost(limit, room)
  IN AtLeast(count, IF prr.out > 0 THEN 0 ELSE SegSize)

AfterDelivery(prr, delivered) == [prr EXCEPT !.delivered = @ + delivered]

(* Mutant: the window of classic fast recovery, inflated for each          *)
(* duplicate.                                                              *)
RecoveryWindowInflated(prr, w, inFlight, delivered, retransAcked) ==
  [w EXCEPT !.cwnd = @ + SegSize]

(* The window of DoRecovery; prr has counted what was delivered.           *)
RecoveryWindow(prr, w, inFlight, delivered, retransAcked) ==
  [w EXCEPT !.cwnd = inFlight + SendCount(prr, w, inFlight, delivered, retransAcked)]

NewReduction(flight) == [out |-> 0, delivered |-> 0, flight |-> flight]
=============================================================================
