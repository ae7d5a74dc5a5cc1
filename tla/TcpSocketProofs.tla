-------------------------- MODULE TcpSocketProofs --------------------------
(***************************************************************************)
(* What every operator of the sending socket makes of a socket whose       *)
(* scoreboard is consistent, for all values of the constants.              *)
(***************************************************************************)
EXTENDS TcpSender, TcpTxBufferProofs

(* Windows.  AtLeast and AtMost pick one of the two.                       *)
LEMMA Bounds ==
  ASSUME NEW a \in Int, NEW b \in Int
  PROVE  /\ AtLeast(a, b) \in {a, b} /\ AtLeast(a, b) >= a /\ AtLeast(a, b) >= b
         /\ AtMost(a, b) \in {a, b} /\ AtMost(a, b) <= a /\ AtMost(a, b) <= b
BY DEF AtLeast, AtMost

(* Whatever the clock says, the next window is a window.                   *)
LEMMA IncreaseOK ==
  ASSUME NEW w \in Windows, NEW acked \in Int, NEW e \in Estimates \cup {SameRtt}
  PROVE  IncreaseWindow(w, acked, e) \in Windows
<1>1. w.cwnd \in Nat /\ w.ssthresh \in Nat /\ w.k_rounds \in 0..KRounds
  BY DEF Windows
<1>2. CASE w.cwnd < w.ssthresh /\ w.k_rounds > 0
  <2> DEFINE c == IF acked >= 1 THEN AtMost(w.cwnd + acked * SegSize, w.ssthresh) ELSE w.cwnd
  <2>1. c \in Nat
    <3>1. CASE acked >= 1
      <4>1. acked * SegSize \in Nat
        BY <3>1, ConstantAssumption
      <4>2. w.cwnd + acked * SegSize \in Nat
        BY <1>1, <4>1
      <4> QED
        BY <1>1, <3>1, <4>2, Bounds
    <3> QED
      BY <1>1, <3>1
  <2>2. IncreaseWindow(w, acked, e) = [w EXCEPT !.cwnd = c, !.k_rounds = w.k_rounds - 1]
    BY <1>2 DEF IncreaseWindow, SlowStart, Windows
  <2>3. w.k_rounds - 1 \in 0..KRounds
    BY <1>1, <1>2, ConstantAssumption
  <2> QED
    BY <2>1, <2>2, <2>3 DEF Windows
<1>3. CASE ~(w.cwnd < w.ssthresh /\ w.k_rounds > 0)
  <2>1. IncreaseWindow(w, acked, e) = CongestionAvoidance(w, e)
    BY <1>3 DEF IncreaseWindow
  <2>2. CASE e = SameRtt
    BY <2>1, <2>2 DEF CongestionAvoidance
  <2>3. CASE e # SameRtt
    <3>1. AtLeast(e, 1) \in Nat
      BY <2>3, ConstantAssumption, Bounds
    <3> QED
      BY <2>1, <2>3, <3>1 DEF CongestionAvoidance, Windows
  <2> QED
    BY <2>2, <2>3
<1> QED
  BY <1>2, <1>3

(* The threshold after a loss.                                             *)
LEMMA ThresholdOK ==
  ASSUME NEW w \in Windows
  PROVE  GetSsThresh(w) \in Nat
<1>1. w.cwnd \in Nat
  BY DEF Windows
<1>2. w.cwnd \div 2 \in Nat /\ 2 * SegSize \in Nat
  BY <1>1, ConstantAssumption, Z3
<1> QED
  BY <1>2, Bounds DEF GetSsThresh

(* The send count of a reduction is not negative, so neither is the window *)
(* of recovery, although every difference in it may be.                    *)
LEMMA RecoveryWindowOK ==
  ASSUME NEW prr \in Reductions, prr.flight > 0, NEW w \in Windows,
         NEW inFlight \in Nat, NEW delivered \in Nat, NEW r \in BOOLEAN
  PROVE  LET t == RecoveryWindow(prr, w, inFlight, delivered, r)
         IN /\ t \in Windows /\ t.ssthresh = w.ssthresh
            /\ t.cwnd = inFlight + SendCount(prr, w, inFlight, delivered, r)
            /\ SendCount(prr, w, inFlight, delivered, r) \in Nat
<1> DEFINE owed == prr.delivered - prr.out
           limit == IF ~r THEN delivered
                    ELSE (IF owed < 0 THEN owed ELSE AtLeast(owed, delivered)) + SegSize
           product == (prr.delivered * w.ssthresh) % WordSize
           reduced == CeilDiv(product, prr.flight) - prr.out
           count == IF inFlight > w.ssthresh THEN reduced
                    ELSE AtMost(limit, w.ssthresh - inFlight)
           least == IF prr.out > 0 THEN 0 ELSE SegSize
<1>1. /\ prr.delivered \in Nat /\ prr.out \in Nat /\ prr.flight \in Nat
      /\ w.ssthresh \in Nat /\ SegSize \in Nat /\ WordSize \in Nat \ {0}
  BY ConstantAssumption DEF Reductions, Windows
<1>2. owed \in Int /\ limit \in Int
  BY <1>1, Bounds
<1>3. reduced \in Int
  <2>1. prr.delivered * w.ssthresh \in Nat
    BY <1>1
  <2>2. product \in Int
    <3> DEFINE p == prr.delivered * w.ssthresh
    <3>1. p \in Nat
      BY <2>1
    <3> HIDE DEF p
    <3>2. p % WordSize \in Int
      BY <1>1, <3>1, Z3
    <3> QED
      BY <3>2 DEF p
  <2> HIDE DEF product
  <2>3. CeilDiv(product, prr.flight) \in Int
    <3> DEFINE f == prr.flight
    <3>1. f \in Nat /\ f > 0
      BY <1>1
    <3> HIDE DEF f
    <3>2. (product + f - 1) \div f \in Int
      BY <2>2, <3>1, Z3
    <3> QED
      BY <3>2 DEF CeilDiv, f
  <2> QED
    BY <1>1, <2>3
<1> HIDE DEF reduced, limit
<1>4. count \in Int /\ least \in Nat
  BY <1>1, <1>2, <1>3, Bounds
<1>5. SendCount(prr, w, inFlight, delivered, r) = AtLeast(count, least)
  BY DEF SendCount, reduced, limit
<1> HIDE DEF count, least
<1>6. SendCount(prr, w, inFlight, delivered, r) \in Nat
  BY <1>4, <1>5, Bounds
<1> QED
  BY <1>6 DEF RecoveryWindow, Windows

(* Rounding up grows with what is divided, and a remainder is no more.     *)
LEMMA ShareGrows ==
  ASSUME NEW a \in Nat, NEW m \in Nat \ {0}, NEW f \in Nat \ {0}
  PROVE  CeilDiv(a % m, f) <= CeilDiv(a, f) /\ CeilDiv(a, f) \in Nat
<1> DEFINE b == a % m
           x == b + f - 1
           y == a + f - 1
           p == x \div f
           q == y \div f
<1>1. b \in Nat /\ b <= a
  BY Z3
<1> HIDE DEF b
<1>2. x \in Nat /\ y \in Nat /\ x <= y
  BY <1>1
<1>3. CeilDiv(b, f) = p /\ CeilDiv(a, f) = q
  BY DEF CeilDiv
<1> HIDE DEF x, y
<1>4. /\ p \in Nat /\ q \in Nat
      /\ p * f <= x /\ y < (q + 1) * f
  BY <1>2, Z3
<1> HIDE DEF p, q
<1>5. p * f < (q + 1) * f
  <2>1. p * f \in Int /\ (q + 1) * f \in Int
    BY <1>4
  <2> QED
    BY <1>2, <1>4, <2>1
<1>6. p < q + 1
  BY <1>4, <1>5, Z3
<1> QED
  BY <1>3, <1>4, <1>6 DEF b

(* What the send count is bounded by: a segment at the start, nothing, the *)
(* share of what was delivered, or one of the limits.                      *)
LEMMA SendCountBound ==
  ASSUME NEW prr \in Reductions, prr.flight > 0, NEW w \in Windows,
         NEW inFlight \in Nat, NEW delivered \in Nat, NEW r \in BOOLEAN
  PROVE  LET k == SendCount(prr, w, inFlight, delivered, r)
         IN \/ prr.out = 0 /\ k = SegSize
            \/ k <= 0
            \/ /\ inFlight > w.ssthresh
               /\ prr.out + k <= CeilDiv(prr.delivered * w.ssthresh, prr.flight)
            \/ ~r /\ k <= delivered
            \/ r /\ prr.out + k <= prr.delivered + SegSize
            \/ r /\ prr.out <= prr.delivered /\ k <= delivered + SegSize
<1> DEFINE owed == prr.delivered - prr.out
           limit == IF ~r THEN delivered
                    ELSE (IF owed < 0 THEN owed ELSE AtLeast(owed, delivered)) + SegSize
           total == prr.delivered * w.ssthresh
           share == CeilDiv(total % WordSize, prr.flight)
           count == IF inFlight > w.ssthresh THEN share - prr.out
                    ELSE AtMost(limit, w.ssthresh - inFlight)
           least == IF prr.out > 0 THEN 0 ELSE SegSize
           k == SendCount(prr, w, inFlight, delivered, r)
<1>1. /\ prr.delivered \in Nat /\ prr.out \in Nat /\ prr.flight \in Nat \ {0}
      /\ w.ssthresh \in Nat /\ SegSize \in Nat /\ WordSize \in Nat \ {0}
  BY ConstantAssumption DEF Reductions, Windows
<1>2. owed \in Int /\ limit \in Int
  BY <1>1, Bounds
<1>3. total \in Nat
  BY <1>1
<1> HIDE DEF total
<1>4. share <= CeilDiv(total, prr.flight) /\ share \in Nat /\ CeilDiv(total, prr.flight) \in Nat
  <2>1. total % WordSize \in Nat
    BY <1>1, <1>3, Z3
  <2> DEFINE b == total % WordSize
  <2> HIDE DEF b
  <2>2. CeilDiv(b, prr.flight) \in Nat
    BY <1>1, <2>1, ShareGrows DEF b
  <2> QED
    BY <1>1, <1>3, <2>2, ShareGrows DEF b
<1> HIDE DEF share
<1>5. k = AtLeast(count, least)
  BY DEF SendCount, share, total
<1>6. count \in Int /\ least \in Int
  BY <1>1, <1>2, <1>4, Bounds
<1>7. k = count \/ k = least
  BY <1>5, <1>6, Bounds
<1> HIDE DEF k
<1>8. CASE k = least
  BY <1>1, <1>8 DEF k
<1>9. CASE k = count /\ inFlight > w.ssthresh
  <2>1. prr.out + k = share
    BY <1>1, <1>4, <1>9
  <2> QED
    BY <1>9, <1>4, <2>1 DEF k, total
<1>10. CASE k = count /\ ~(inFlight > w.ssthresh)
  <2>1. k <= limit /\ k \in Int
    BY <1>1, <1>2, <1>6, <1>10, Bounds
  <2>2. CASE ~r
    BY <2>1, <2>2 DEF k
  <2>3. CASE r /\ owed < 0
    <3>1. k <= owed + SegSize
      BY <2>1, <2>3
    <3>2. prr.out + k <= prr.delivered + SegSize
      BY <1>1, <2>1, <3>1
    <3> QED
      BY <2>3, <3>2 DEF k
  <2>4. CASE r /\ ~(owed < 0)
    <3>1. k <= AtLeast(owed, delivered) + SegSize
      BY <2>1, <2>4
    <3>2. AtLeast(owed, delivered) \in {owed, delivered}
      BY <1>2, Bounds
    <3>3. prr.out <= prr.delivered
      BY <1>1, <2>4
    <3>4. \/ prr.out + k <= prr.delivered + SegSize
          \/ k <= delivered + SegSize
      BY <1>1, <2>1, <3>1, <3>2
    <3> QED
      BY <2>4, <3>3, <3>4 DEF k
  <2> QED
    BY <2>2, <2>3, <2>4
<1> QED
  BY <1>7, <1>8, <1>9, <1>10

-----------------------------------------------------------------------------
(* The pipe.  What is SACKed or lost is part of the sent list, so the      *)
(* difference that BytesInFlight takes is not negative.                    *)
LEMMA PipeOK ==
  ASSUME NEW b, BufferOK(b)
  PROVE  BytesInFlight(b) \in Nat /\ SentSize(b) \in Nat
<1>1. /\ b.head \in Nat /\ b.high \in Nat /\ b.head <= b.high
      /\ SentList(b) \subseteq Segs /\ b.sacked \cup b.lost \subseteq SentList(b)
      /\ b.sacked \subseteq Segs /\ b.lost \subseteq Segs /\ b.retrans \subseteq Segs
  BY BufferFacts
<1>2. IsFiniteSet(SentList(b)) /\ Cardinality(SentList(b)) = b.high - b.head
  BY <1>1, SegmentsCount, FS_Interval DEF SentList
<1>3. Cardinality(b.sacked \cup b.lost) = Cardinality(b.sacked) + Cardinality(b.lost)
  <2>1. /\ Cardinality(b.sacked \cup b.lost)
             = Cardinality(b.sacked) + Cardinality(b.lost) - Cardinality(b.sacked \cap b.lost)
        /\ Cardinality(b.sacked \cap b.lost) = 0
    BY <1>1, BufferFacts, JoinCount
  <2> QED
    BY <1>1, <2>1, SegmentsCount
<1>4. Cardinality(b.sacked \cup b.lost) <= b.high - b.head
  BY <1>1, <1>2, FS_Subset
<1>5. /\ Cardinality(b.sacked) \in Nat /\ Cardinality(b.lost) \in Nat
      /\ Cardinality(b.retrans) \in Nat
  BY <1>1, SegmentsCount
<1>6. /\ b.sackedOut = Cardinality(b.sacked) /\ b.lostOut = Cardinality(b.lost)
      /\ b.retransOut = Cardinality(b.retrans)
  BY BufferFacts
<1> QED
  BY <1>1, <1>3, <1>4, <1>5, <1>6 DEF BytesInFlight, SentSize

(* The same in units.                                                      *)
LEMMA PipeUnits ==
  ASSUME NEW b, BufferOK(b)
  PROVE  BytesInFlight(b) * SegSize \in Nat /\ SentSize(b) * SegSize \in Nat
BY PipeOK, ConstantAssumption

-----------------------------------------------------------------------------
(* The k lowest of some segments: some of them, and the least one when     *)
(* there is room for one.                                                  *)
LEMMA LowestFacts ==
  ASSUME NEW S, S \subseteq Segs, NEW k \in Int
  PROVE  /\ Lowest(S, k) \subseteq S
         /\ k <= 0 => Lowest(S, k) = {}
         /\ k >= 1 /\ S # {} => Min(S) \in Lowest(S, k)
         /\ k = 1 /\ S # {} => Lowest(S, k) = {Min(S)}
<1>1. S \subseteq Nat
  BY TxBufferAssumption DEF Segs
<1>2. \A i \in S : Cardinality({j \in S : j < i}) \in Nat
  BY SegmentsCount
<1> DEFINE m == Min(S)
<1>0. S # {} => m \in S /\ \A x \in S : m <= x
  BY <1>1, LeastExists
<1> HIDE DEF m
<1>3. ASSUME S # {} PROVE m \in S /\ Cardinality({j \in S : j < m}) = 0
  <2>1. {j \in S : j < m} = {}
    <3> SUFFICES ASSUME NEW j \in S, j < m PROVE FALSE
      OBVIOUS
    <3>1. j \in Nat /\ m \in Nat /\ m <= j
      BY <1>0, <1>1, <1>3
    <3> QED
      BY <3>1
  <2> QED
    BY <1>0, <1>3, <2>1, FS_EmptySet
<1>4. ASSUME S # {}, NEW i \in S, i # m
      PROVE  Cardinality({j \in S : j < i}) >= 1
  <2> DEFINE below == {j \in S : j < i}
  <2>0. i \in Nat /\ m \in Nat /\ m <= i /\ m \in S
    BY <1>0, <1>1, <1>4
  <2>1. m \in below
    BY <1>4, <2>0
  <2>2. IsFiniteSet(below) /\ Cardinality(below) \in Nat
    BY SegmentsCount
  <2>3. Cardinality(below) # 0
    BY <2>1, <2>2, FS_EmptySet
  <2> QED
    BY <2>2, <2>3
<1>5. k <= 0 => Lowest(S, k) = {}
  BY <1>2 DEF Lowest
<1>6. k >= 1 /\ S # {} => m \in Lowest(S, k)
  BY <1>3 DEF Lowest
<1>7. k = 1 /\ S # {} => Lowest(S, k) = {m}
  <2> SUFFICES ASSUME k = 1, S # {}, NEW i \in Lowest(S, k) PROVE i = m
    BY <1>6
  <2>1. i \in S /\ Cardinality({j \in S : j < i}) < 1
    BY DEF Lowest
  <2> QED
    BY <1>2, <1>4, <2>1
<1> QED
  BY <1>5, <1>6, <1>7 DEF Lowest, m

(* They are no more than k, and all of them when they are fewer.           *)
LEMMA LowestCount ==
  ASSUME NEW S, S \subseteq Segs, NEW k \in Nat
  PROVE  /\ Cardinality(Lowest(S, k)) \in 0..k
         /\ Cardinality(Lowest(S, k)) < k => Lowest(S, k) = S
<1> DEFINE P == Lowest(S, k)
           D == S \ P
<1>1. S \subseteq Nat /\ P \subseteq S /\ P \subseteq Segs /\ P \subseteq Nat /\ D \subseteq Nat
  <2>1. S \subseteq Nat
    BY TxBufferAssumption DEF Segs
  <2>2. P \subseteq S
    BY Zenon DEF Lowest
  <2> HIDE DEF P
  <2> QED
    BY <2>1, <2>2
<1>2. \A i \in S : /\ {j \in S : j < i} \subseteq Segs
                  /\ Cardinality({j \in S : j < i}) \in Nat
                  /\ (i \in P <=> Cardinality({j \in S : j < i}) < k)
  BY SegmentsCount DEF Lowest
<1>3. IsFiniteSet(P) /\ Cardinality(P) \in Nat
  BY <1>1, SegmentsCount
<1> HIDE DEF P
<1>4. P = {} => Cardinality(P) \in 0..k
  BY FS_EmptySet
<1>5. ASSUME P # {} PROVE Cardinality(P) \in 0..k
  <2> DEFINE x == Max(P)
             B == {j \in S : j < x}
  <2>1. x \in P /\ \A y \in P : y <= x
    BY <1>1, <1>5, LargestExists
  <2> HIDE DEF x
  <2>2. x \in S /\ B \subseteq Segs /\ Cardinality(B) \in Nat /\ Cardinality(B) < k
    BY <1>1, <1>2, <2>1
  <2>3. P \subseteq B \cup {x} /\ x \in Segs /\ B \cup {x} \subseteq Segs
    <3> SUFFICES ASSUME NEW y \in P PROVE y \in B \cup {x}
      BY <1>1, <2>1, <2>2
    <3>1. y \in Nat /\ x \in Nat /\ y <= x
      BY <1>1, <2>1
    <3> QED
      BY <1>1, <3>1
  <2>4. x \notin B
    BY <1>1, <2>2
  <2> HIDE DEF B
  <2>5. IsFiniteSet(B \cup {x}) /\ Cardinality(B \cup {x}) = Cardinality(B) + 1
    BY <2>2, <2>3, <2>4, OneCount, SegmentsCount
  <2>6. Cardinality(P) <= Cardinality(B) + 1
    BY <2>3, <2>5, FS_Subset
  <2> QED
    BY <1>3, <2>2, <2>6
<1>6. ASSUME P # S PROVE Cardinality(P) >= k
  <2> DEFINE m == Min(D)
             B == {j \in S : j < m}
  <2>1. D # {}
    BY <1>1, <1>6
  <2>2. m \in D /\ \A y \in D : m <= y
    <3> HIDE DEF D
    <3> QED
      BY <1>1, <2>1, LeastExists
  <2> HIDE DEF m
  <2>3. B \subseteq P
    <3> SUFFICES ASSUME NEW j \in S, j < m, j \notin P PROVE FALSE
      OBVIOUS
    <3>1. m <= j /\ m \in Nat /\ j \in Nat
      BY <1>1, <2>2
    <3> QED
      BY <3>1
  <2>4. Cardinality(B) \in Nat /\ Cardinality(B) >= k
    BY <1>2, <2>2
  <2> HIDE DEF B
  <2>5. Cardinality(B) <= Cardinality(P)
    BY <1>3, <2>3, FS_Subset
  <2> QED
    BY <1>3, <2>4, <2>5
<1>7. Cardinality(P) < k => P = S
  BY <1>3, <1>6
<1> QED
  BY <1>4, <1>5, <1>7 DEF P

(* An interval, counted.                                                   *)
LEMMA IntervalCount ==
  ASSUME NEW a \in Int, NEW z \in Int, a <= z + 1
  PROVE  IsFiniteSet(a .. z) /\ Cardinality(a .. z) = z - a + 1
<1>1. IsFiniteSet(a .. z) /\ Cardinality(a .. z) = IF a > z THEN 0 ELSE z - a + 1
  BY FS_Interval
<1> QED
  BY <1>1

(* The lowest segments of those not sent follow one another.               *)
LEMMA LowestUnsent ==
  ASSUME NEW b, BufferOK(b), NEW k \in Int
  PROVE  LET fresh == Lowest(UnsentSegs(b), k)
         IN /\ fresh \subseteq Segs /\ b.high + Cardinality(fresh) \in b.high .. (NumSegs + 1)
            /\ \A i \in fresh : i < b.high + Cardinality(fresh)
<1> DEFINE U == UnsentSegs(b)
           fresh == Lowest(U, k)
<1>1. b.high \in 1..(NumSegs + 1) /\ NumSegs \in Nat
  BY BufferFacts, TxBufferAssumption
<1>2. U \subseteq Segs /\ U = b.high .. NumSegs
  BY <1>1 DEF UnsentSegs, Segs
<1>3. fresh \subseteq U
  BY <1>2, LowestFacts
<1>4. IsFiniteSet(U) /\ Cardinality(U) = NumSegs + 1 - b.high
  <2>1. /\ IsFiniteSet(b.high .. NumSegs)
        /\ Cardinality(b.high .. NumSegs) = NumSegs - b.high + 1
    BY <1>1, IntervalCount
  <2>2. NumSegs - b.high + 1 = NumSegs + 1 - b.high
    BY <1>1
  <2> QED
    BY <1>2, <2>1, <2>2, Zenon
<1>5. IsFiniteSet(fresh) /\ Cardinality(fresh) \in Nat /\ Cardinality(fresh) <= Cardinality(U)
  <2>1. fresh \subseteq Segs
    BY <1>2, <1>3
  <2> HIDE DEF fresh, U
  <2> QED
    BY <1>3, <1>4, <2>1, SegmentsCount, FS_Subset
<1>6. ASSUME NEW i \in fresh PROVE i < b.high + Cardinality(fresh)
  <2>1. i \in b.high .. NumSegs /\ Cardinality({j \in U : j < i}) < k
    BY <1>2 DEF Lowest
  <2>2. ASSUME NEW h \in b.high .. i PROVE h \in fresh
    <3>1. h \in U /\ {j \in U : j < h} \subseteq {j \in U : j < i}
      BY <1>1, <1>2, <2>1
    <3>2. Cardinality({j \in U : j < h}) <= Cardinality({j \in U : j < i})
      BY <1>2, <3>1, SegmentsCount, FS_Subset
    <3>3. /\ Cardinality({j \in U : j < h}) \in Nat
          /\ Cardinality({j \in U : j < i}) \in Nat
      BY <1>2, SegmentsCount
    <3>4. Cardinality({j \in U : j < h}) < k
      <4> HIDE DEF U
      <4> QED
        BY <2>1, <3>2, <3>3
    <3> QED
      BY <3>1, <3>4 DEF Lowest
  <2>3. b.high .. i \subseteq fresh
    BY <2>2
  <2>4. Cardinality(b.high .. i) = i - b.high + 1
    BY <1>1, <2>1, IntervalCount
  <2>5. Cardinality(b.high .. i) <= Cardinality(fresh)
    BY <1>5, <2>3, FS_Subset
  <2> QED
    BY <1>1, <1>5, <2>1, <2>4, <2>5
<1> QED
  BY <1>1, <1>2, <1>3, <1>4, <1>5, <1>6

-----------------------------------------------------------------------------
(* Sending from the buffer, several segments at a time.                    *)
LEMMA RetransmitOK ==
  ASSUME NEW b, BufferOK(b), NEW S, S \subseteq SentList(b), S \cap b.retrans = {}
  PROVE  LET c == Retransmit(b, S)
         IN /\ BufferOK(c) /\ SameSacks(c, b) /\ c.high = b.high
            /\ c.retrans = b.retrans \cup S /\ c.lost = b.lost
            /\ BytesInFlight(c) = BytesInFlight(b) + Cardinality(S)
<1> DEFINE c == Retransmit(b, S)
           R == b.retrans \cup S
           n == b.retransOut + Cardinality(S)
<1>1. /\ b \in Shapes /\ S \subseteq Segs /\ b.retrans \subseteq Segs
      /\ b.retransOut = Cardinality(b.retrans) /\ R \in SUBSET Segs
  BY BufferFacts, BufferShape
<1>2. n = Cardinality(R)
  <2>1. Cardinality(R) = Cardinality(b.retrans) + Cardinality(S) - Cardinality(b.retrans \cap S)
    BY <1>1, JoinCount
  <2>2. Cardinality(b.retrans \cap S) = 0
    BY FS_EmptySet
  <2>3. Cardinality(b.retrans) \in Int /\ Cardinality(S) \in Int
    BY <1>1, SegmentsCount
  <2> QED
    BY <1>1, <2>1, <2>2, <2>3
<1>3. n \in Int
  BY <1>1, <1>2, SegmentsCount
<1>4. c = [b EXCEPT !.retrans = R, !.retransOut = n] /\ R \subseteq SentList(b)
  BY BufferFacts DEF Retransmit
<1> HIDE DEF c, R, n
<1>5. c \in Shapes
  BY <1>1, <1>3, <1>4, Zenon DEF Shapes
<1>6. /\ c.head = b.head /\ c.high = b.high /\ c.sacked = b.sacked /\ c.lost = b.lost
      /\ c.sackedOut = b.sackedOut /\ c.lostOut = b.lostOut
      /\ c.retrans = R /\ c.retransOut = n
  BY <1>1, <1>4 DEF Shapes
<1>7. ConsistencyCheck(c)
  BY <1>2, <1>4, <1>6, BufferFacts DEF ConsistencyCheck, SentList
<1>8. BytesInFlight(c) = BytesInFlight(b) + Cardinality(S)
  <2>1. /\ b.head \in Int /\ b.high \in Int /\ b.sackedOut \in Int /\ b.lostOut \in Int
        /\ b.retransOut \in Int /\ Cardinality(S) \in Int
    BY <1>1, SegmentsCount DEF Shapes
  <2> QED
    BY <1>6, <2>1 DEF BytesInFlight, SentSize, n
<1>9. LostBelow(c)
  BY <1>6, BufferFacts DEF LostBelow, SentList
<1> QED
  BY <1>5, <1>6, <1>7, <1>8, <1>9, BufferBuilt DEF SameSacks, c, R

Advance(b, n) == [b EXCEPT !.high = @ + n]

(* Several segments sent for the first time, at once.                      *)
LEMMA AdvanceOK ==
  ASSUME NEW b, BufferOK(b), NEW n \in Nat, b.high + n <= NumSegs + 1
  PROVE  LET c == Advance(b, n)
         IN /\ BufferOK(c) /\ SameSacks(c, b) /\ c.high = b.high + n
            /\ c.retrans = b.retrans /\ c.lost = b.lost
            /\ BytesInFlight(c) = BytesInFlight(b) + n
<1> DEFINE c == Advance(b, n)
<1>1. b \in Shapes /\ b.high + n \in 1..(NumSegs + 1)
  BY BufferFacts, BufferShape, TxBufferAssumption
<1>2. c \in Shapes
  BY <1>1, Zenon DEF Advance, Shapes
<1>3. /\ c.head = b.head /\ c.high = b.high + n /\ c.sacked = b.sacked /\ c.lost = b.lost
      /\ c.sackedOut = b.sackedOut /\ c.lostOut = b.lostOut
      /\ c.retrans = b.retrans /\ c.retransOut = b.retransOut
  BY <1>1 DEF Advance, Shapes
<1> HIDE DEF c
<1>4. SentList(b) \subseteq SentList(c) /\ c.head <= c.high
  BY <1>3, BufferFacts DEF SentList
<1>5. ConsistencyCheck(c)
  BY <1>3, <1>4, BufferFacts DEF ConsistencyCheck
<1>6. BytesInFlight(c) = BytesInFlight(b) + n
  <2>1. /\ b.head \in Int /\ b.high \in Int /\ b.sackedOut \in Int /\ b.lostOut \in Int
        /\ b.retransOut \in Int
    BY <1>1 DEF Shapes
  <2> QED
    BY <1>3, <2>1 DEF BytesInFlight, SentSize
<1>7. LostBelow(c)
  <2> SUFFICES ASSUME NEW i \in c.lost, NEW j \in SentList(c) \ c.sacked, j < i
               PROVE  j \in c.lost
    BY DEF LostBelow
  <2>1. i \in SentList(b) /\ j \in SentList(b) \ b.sacked
    BY <1>3, BufferFacts DEF SentList
  <2> QED
    BY <1>3, <2>1, BufferFacts DEF LostBelow
<1> QED
  BY <1>2, <1>3, <1>5, <1>6, <1>7, BufferBuilt DEF SameSacks, c

-----------------------------------------------------------------------------
(* The socket in the middle of a handler, and what most operators leave as *)
(* it was.                                                                 *)
BaseOK(s) ==
  /\ s \in Sockets /\ ConsistencyCheck(s.buf) /\ LostBelow(s.buf)
  /\ s.buf.head \notin s.buf.sacked
  /\ \A i \in Segs : s.out[i] > 0 => i < s.buf.high

Follows(t, s) ==
  /\ t.buf.head = s.buf.head /\ t.buf.sacked = s.buf.sacked
  /\ s.buf.high <= t.buf.high /\ t.closed = s.closed
  /\ t.dataRetrCount \in {s.dataRetrCount, DataRetries}

SameStates(t, s) ==
  /\ t.congState = s.congState /\ t.dupAckCount = s.dupAckCount
  /\ t.recover = s.recover /\ t.recoverActive = s.recoverActive
  /\ t.prr.flight = s.prr.flight

(* The flight last asked for is the one of the buffer; or one segment was  *)
(* retransmitted since, and that was the head.                             *)
Fresh(s) == s.bytesInFlight = BytesInFlight(s.buf)

Asked(s) ==
  \/ Fresh(s)
  \/ /\ s.buf.head \in s.buf.retrans
     /\ BytesInFlight(s.buf) \in {s.bytesInFlight, s.bytesInFlight + 1}

(* What BaseOK says of the fields, for the proofs to cite.                 *)
LEMMA BaseFacts ==
  ASSUME NEW s, BaseOK(s)
  PROVE  /\ BufferOK(s.buf) /\ s.buf.head \notin s.buf.sacked
         /\ s.w \in Windows /\ s.prr \in Reductions
         /\ s.buf.head \in 1..(NumSegs + 1) /\ s.buf.high \in 1..(NumSegs + 1)
         /\ s.buf.head <= s.buf.high
         /\ s.out \in [Segs -> Nat] /\ s.timer \in BOOLEAN
         /\ s.bytesInFlight \in Nat
BY BufferFacts DEF BaseOK, BufferOK, Sockets

(* A socket with another buffer, or other windows.                         *)
LEMMA BufferPut ==
  ASSUME NEW s \in Sockets, NEW b \in Buffers
  PROVE  [s EXCEPT !.buf = b] \in Sockets
BY DEF Sockets

(* The sets that one call of SendPendingData sends, and what remains of    *)
(* the room after each.                                                    *)
SentLost(s) == Lowest(LostSegs(s.buf), Room(s))
SentNew(s) == Lowest(UnsentSegs(s.buf), Room(s) - Cardinality(SentLost(s)))
BufferThen(s) == Advance(Retransmit(s.buf, SentLost(s)), Cardinality(SentNew(s)))
SentRescue(s) ==
  IF s.congState = "RECOVERY"
  THEN Lowest(RescueSegs(BufferThen(s)),
              Room(s) - Cardinality(SentLost(s)) - Cardinality(SentNew(s)))
  ELSE {}
SentCount(s) ==
  Cardinality(SentLost(s)) + Cardinality(SentNew(s)) + Cardinality(SentRescue(s))

(* SendPendingData in these words.                                         *)
LEMMA PendingIs ==
  ASSUME NEW s, BaseOK(s)
  PROVE  SendPendingData(s)
           = [s EXCEPT !.buf = Retransmit(BufferThen(s), SentRescue(s)),
                       !.bytesInFlight = BytesInFlight(Retransmit(BufferThen(s), SentRescue(s))),
                       !.timer = @ \/ SentCount(s) > 0,
                       !.prr.out = IF s.congState = "RECOVERY"
                                   THEN @ + SentCount(s) * SegSize ELSE @,
                       !.out = [i \in Segs |-> @[i] + OneIf(i \in SentLost(s) \cup SentNew(s))
                                                    + OneIf(i \in SentRescue(s))]]
BY Zenon DEF SendPendingData, SentLost, SentNew, BufferThen, SentRescue, SentCount, Advance

(* An empty pipe leaves room for a window of at least a segment.           *)
LEMMA RoomOK ==
  ASSUME NEW s, BaseOK(s)
  PROVE  /\ Room(s) \in Nat
         /\ BytesInFlight(s.buf) = 0 /\ s.w.cwnd >= SegSize => Room(s) >= 1
         /\ BytesInFlight(s.buf) = 0 /\ s.w.cwnd = SegSize => Room(s) = 1
<1> DEFINE p == BytesInFlight(s.buf) * SegSize
           c == s.w.cwnd
           z == SegSize
<1>1. p \in Nat /\ c \in Nat /\ z \in Nat /\ z > 0
  BY BaseFacts, PipeUnits, ConstantAssumption DEF Windows
<1>2. BytesInFlight(s.buf) = 0 => p = 0
  BY <1>1
<1>3. Room(s) = IF c < p THEN 0 ELSE (c - p) \div z
  BY DEF Room
<1> HIDE DEF p, c, z
<1>4. Room(s) \in Nat
  <2>1. CASE c < p
    BY <1>3, <2>1
  <2>2. CASE ~(c < p)
    <3>1. c - p \in Nat
      BY <1>1, <2>2
    <3>2. (c - p) \div z \in Nat
      BY <1>1, <3>1, Z3
    <3> QED
      BY <1>3, <2>2, <3>2
  <2> QED
    BY <2>1, <2>2
<1>5. p = 0 /\ c >= z => (c - p) \div z >= 1
  BY <1>1, Z3
<1>6. p = 0 /\ c = z => (c - p) \div z = 1
  BY <1>1, Z3
<1>7. p = 0 => ~(c < p)
  BY <1>1
<1> QED
  BY <1>2, <1>3, <1>4, <1>5, <1>6, <1>7 DEF c, z

(* The buffer after each of the three rules.                               *)
LEMMA SentOK ==
  ASSUME NEW s, BaseOK(s)
  PROVE  LET b == Retransmit(BufferThen(s), SentRescue(s))
         IN /\ BufferOK(b) /\ SameSacks(b, s.buf)
            /\ b.high = s.buf.high + Cardinality(SentNew(s)) /\ s.buf.high <= b.high
            /\ BytesInFlight(b) = BytesInFlight(s.buf) + SentCount(s)
            /\ b.retrans = s.buf.retrans \cup SentLost(s) \cup SentRescue(s)
            /\ \A i \in SentLost(s) \cup SentNew(s) \cup SentRescue(s) : i < b.high
            /\ SentCount(s) \in Nat
            /\ SentLost(s) \subseteq Segs /\ SentNew(s) \subseteq Segs
            /\ SentRescue(s) \subseteq Segs
            /\ BufferOK(BufferThen(s)) /\ SameSacks(BufferThen(s), s.buf)
            /\ BufferThen(s).retrans = s.buf.retrans \cup SentLost(s)
            /\ BufferThen(s).high = b.high /\ b.lost = s.buf.lost
<1> DEFINE L == SentLost(s)
           A == SentNew(s)
           Q == SentRescue(s)
           b0 == s.buf
           b1 == Retransmit(b0, L)
           b2 == BufferThen(s)
           b3 == Retransmit(b2, Q)
<1>0. BufferOK(b0) /\ Room(s) \in Nat
  BY BaseFacts, RoomOK
<1>1. LostSegs(b0) \subseteq SentList(b0) /\ LostSegs(b0) \cap b0.retrans = {}
  BY DEF LostSegs
<1>2. L \subseteq LostSegs(b0) /\ L \subseteq Segs /\ Cardinality(L) \in Nat
  <2>1. LostSegs(b0) \subseteq Segs
    BY <1>0, <1>1, BufferFacts
  <2>2. L \subseteq LostSegs(b0)
    BY <1>0, <2>1, LowestFacts DEF SentLost
  <2> QED
    BY <2>1, <2>2, SegmentsCount
<1>3. /\ BufferOK(b1) /\ SameSacks(b1, b0) /\ b1.high = b0.high
      /\ b1.retrans = b0.retrans \cup L /\ b1.lost = b0.lost
      /\ BytesInFlight(b1) = BytesInFlight(b0) + Cardinality(L)
  <2>1. L \subseteq SentList(b0) /\ L \cap b0.retrans = {}
    BY <1>1, <1>2
  <2> HIDE DEF L, b0
  <2> QED
    BY <1>0, <2>1, RetransmitOK
<1>4. /\ A \subseteq Segs /\ Cardinality(A) \in Nat
      /\ b0.high + Cardinality(A) <= NumSegs + 1
      /\ \A i \in A : i < b0.high + Cardinality(A)
  <2> DEFINE k == Room(s) - Cardinality(L)
  <2>1. k \in Int /\ A = Lowest(UnsentSegs(b0), k)
    BY <1>0, <1>2 DEF SentNew
  <2> HIDE DEF k, L, A, b0
  <2>2. /\ A \subseteq Segs /\ b0.high + Cardinality(A) \in b0.high .. (NumSegs + 1)
        /\ \A i \in A : i < b0.high + Cardinality(A)
    BY <1>0, <2>1, LowestUnsent
  <2>3. Cardinality(A) \in Nat
    BY <2>2, SegmentsCount
  <2> QED
    BY <2>2, <2>3
<1>5. /\ BufferOK(b2) /\ SameSacks(b2, b1) /\ b2.high = b1.high + Cardinality(A)
      /\ b2.retrans = b1.retrans /\ b2.lost = b1.lost
      /\ BytesInFlight(b2) = BytesInFlight(b1) + Cardinality(A)
  <2>1. b2 = Advance(b1, Cardinality(A)) /\ b1.high + Cardinality(A) <= NumSegs + 1
    BY <1>3, <1>4 DEF BufferThen
  <2> HIDE DEF b1, b2, A
  <2> QED
    BY <1>3, <1>4, <2>1, AdvanceOK
<1>6. RescueSegs(b2) \subseteq SentList(b2) /\ RescueSegs(b2) \cap b2.retrans = {}
  BY DEF RescueSegs
<1>7. Q \subseteq RescueSegs(b2) /\ Q \subseteq Segs /\ Cardinality(Q) \in Nat
  <2>1. RescueSegs(b2) \subseteq Segs
    BY <1>5, <1>6, BufferFacts
  <2> DEFINE k == Room(s) - Cardinality(L) - Cardinality(A)
  <2>2. k \in Int
    BY <1>0, <1>2, <1>4
  <2>3. Q = {} \/ Q = Lowest(RescueSegs(b2), k)
    BY DEF SentRescue
  <2> HIDE DEF k, Q, b2
  <2>4. Q \subseteq RescueSegs(b2)
    BY <2>1, <2>2, <2>3, LowestFacts
  <2> QED
    BY <2>1, <2>4, SegmentsCount
<1>8. /\ BufferOK(b3) /\ SameSacks(b3, b2) /\ b3.high = b2.high
      /\ b3.retrans = b2.retrans \cup Q /\ b3.lost = b2.lost
      /\ BytesInFlight(b3) = BytesInFlight(b2) + Cardinality(Q)
  <2>1. Q \subseteq SentList(b2) /\ Q \cap b2.retrans = {}
    BY <1>6, <1>7
  <2> HIDE DEF Q, b2
  <2> QED
    BY <1>5, <2>1, RetransmitOK
<1>9. /\ SameSacks(b3, b0) /\ b3.retrans = b0.retrans \cup L \cup Q
      /\ b3.lost = b0.lost
  BY <1>3, <1>5, <1>8 DEF SameSacks
<1>13. /\ BufferOK(b2) /\ SameSacks(b2, b0) /\ b2.retrans = b0.retrans \cup L
       /\ b2.high = b3.high
  BY <1>3, <1>5, <1>8 DEF SameSacks
<1>10. b0.high \in Nat /\ b3.high = b0.high + Cardinality(A) /\ b0.high <= b3.high
  BY <1>0, <1>3, <1>4, <1>5, <1>8, BufferFacts
<1>11. \A i \in L \cup A \cup Q : i < b3.high
  <2>1. ASSUME NEW i \in L PROVE i < b3.high
    <3>1. i \in SentList(b0)
      BY <1>1, <1>2
    <3>2. i \in Int /\ i < b0.high
      BY <1>0, <3>1, BufferFacts DEF SentList
    <3> QED
      BY <1>4, <1>10, <3>2
  <2>2. ASSUME NEW i \in Q PROVE i < b3.high
    <3>1. i \in SentList(b2)
      BY <1>6, <1>7
    <3>2. i < b2.high
      BY <1>5, <3>1, BufferFacts DEF SentList
    <3> QED
      BY <1>8, <3>2
  <2> HIDE DEF A, L, Q, b3
  <2> QED
    BY <1>4, <1>10, <2>1, <2>2
<1>12. SentCount(s) \in Nat /\ BytesInFlight(b3) = BytesInFlight(b0) + SentCount(s)
  <2>1. BytesInFlight(b0) \in Nat
    BY <1>0, PipeOK
  <2>2. SentCount(s) = Cardinality(L) + Cardinality(A) + Cardinality(Q)
    BY DEF SentCount
  <2> HIDE DEF L, A, Q, b0, b1, b2, b3
  <2> QED
    BY <1>2, <1>3, <1>4, <1>5, <1>7, <1>8, <2>1, <2>2
<1> QED
  BY <1>2, <1>4, <1>7, <1>8, <1>9, <1>10, <1>11, <1>12, <1>13

(* SendPendingData: the scoreboard is consistent, the states are           *)
(* untouched.                                                              *)
LEMMA SendPendingOK ==
  ASSUME NEW s, BaseOK(s)
  PROVE  LET t == SendPendingData(s)
         IN /\ BaseOK(t) /\ Follows(t, s) /\ SameStates(t, s)
            /\ BytesInFlight(t.buf) = BytesInFlight(s.buf) + SentCount(s)
            /\ t.buf.retrans = s.buf.retrans \cup SentLost(s) \cup SentRescue(s)
            /\ t.buf.high = s.buf.high + Cardinality(SentNew(s))
            /\ t.timer = (s.timer \/ SentCount(s) > 0)
            /\ t.dataRetrCount = s.dataRetrCount /\ t.w = s.w
            /\ t.buf = Retransmit(BufferThen(s), SentRescue(s))
            /\ t.prr.delivered = s.prr.delivered
            /\ t.prr.out = IF s.congState = "RECOVERY"
                           THEN s.prr.out + SentCount(s) * SegSize ELSE s.prr.out
            /\ \A i \in SentLost(s) \cup SentNew(s) : t.out[i] >= 1
<1> DEFINE t == SendPendingData(s)
           b == Retransmit(BufferThen(s), SentRescue(s))
           timer == s.timer \/ SentCount(s) > 0
           sent == IF s.congState = "RECOVERY" THEN s.prr.out + SentCount(s) * SegSize
                   ELSE s.prr.out
           out == [i \in Segs |-> s.out[i] + OneIf(i \in SentLost(s) \cup SentNew(s))
                                          + OneIf(i \in SentRescue(s))]
           flight == BytesInFlight(b)
<1>1. t = [s EXCEPT !.buf = b, !.bytesInFlight = flight, !.timer = timer, !.prr.out = sent,
                    !.out = out]
  BY PendingIs
<1>2. /\ BufferOK(b) /\ SameSacks(b, s.buf) /\ s.buf.high <= b.high
      /\ s.buf.high \in Int /\ b.high \in Int
      /\ \A i \in SentLost(s) \cup SentNew(s) \cup SentRescue(s) : i < b.high
      /\ SentCount(s) \in Nat
  BY SentOK, BufferFacts, BaseFacts
<1>13. flight \in Nat
  BY <1>2, PipeOK
<1>3. sent \in Nat
  <2>1. s.prr.out \in Nat
    BY BaseFacts DEF Reductions
  <2>2. SentCount(s) * SegSize \in Nat
    BY <1>2, ConstantAssumption
  <2> QED
    BY <2>1, <2>2
<1>4. out \in [Segs -> Nat]
  BY BaseFacts DEF OneIf
<1>5. \A i \in Segs : out[i] > 0 => i < b.high
  <2> SUFFICES ASSUME NEW i \in Segs, out[i] > 0 PROVE i < b.high
    OBVIOUS
  <2>1. CASE i \in SentLost(s) \cup SentNew(s) \cup SentRescue(s)
    BY <1>2, <2>1
  <2>2. CASE i \notin SentLost(s) \cup SentNew(s) \cup SentRescue(s)
    <3>1. s.out[i] > 0
      BY <2>2, BaseFacts DEF OneIf
    <3>2. i < s.buf.high /\ i \in Int
      BY <3>1 DEF BaseOK, Segs
    <3> QED
      BY <1>2, <3>2
  <2> QED
    BY <2>1, <2>2
<1>12. \A i \in SentLost(s) \cup SentNew(s) : out[i] >= 1
  <2> SUFFICES ASSUME NEW i \in SentLost(s) \cup SentNew(s) PROVE out[i] >= 1
    OBVIOUS
  <2>1. i \in Segs /\ s.out[i] \in Nat
    BY SentOK, BaseFacts
  <2>2. OneIf(i \in SentLost(s) \cup SentNew(s)) = 1 /\ OneIf(i \in SentRescue(s)) \in Nat
    BY DEF OneIf
  <2>3. out[i] = s.out[i] + OneIf(i \in SentLost(s) \cup SentNew(s)) + OneIf(i \in SentRescue(s))
    BY <2>1
  <2> HIDE DEF out
  <2> QED
    BY <2>1, <2>2, <2>3
<1>6. timer \in BOOLEAN /\ s \in Sockets /\ b \in Buffers /\ s.prr \in Reductions
  BY <1>2, BaseFacts DEF BaseOK, BufferOK
<1> HIDE DEF t, b, timer, sent, out, flight
<1>7. /\ t.buf = b /\ t.timer = timer /\ t.out = out
      /\ t.prr = [s.prr EXCEPT !.out = sent] /\ t.w = s.w
      /\ t.congState = s.congState /\ t.dupAckCount = s.dupAckCount
      /\ t.recover = s.recover /\ t.recoverActive = s.recoverActive
      /\ t.dataRetrCount = s.dataRetrCount /\ t.closed = s.closed
  BY <1>1, <1>6 DEF Sockets
<1>8. [s.prr EXCEPT !.out = sent] \in Reductions /\ t.prr.flight = s.prr.flight
      /\ t.prr.delivered = s.prr.delivered /\ t.prr.out = sent
  BY <1>3, <1>6, <1>7 DEF Reductions
<1>9. t \in Sockets
  BY <1>1, <1>4, <1>6, <1>7, <1>8, <1>13 DEF Sockets
<1>10. BaseOK(t)
  BY <1>2, <1>5, <1>7, <1>9, BaseFacts DEF BaseOK, BufferOK, SameSacks
<1>11. Follows(t, s) /\ SameStates(t, s)
  BY <1>2, <1>7, <1>8 DEF Follows, SameStates, SameSacks
<1> QED
  BY <1>7, <1>8, <1>10, <1>11, <1>12, SentOK DEF t, b, timer, sent

-----------------------------------------------------------------------------
(* How much SendPendingData sends: nothing when all is acknowledged, one   *)
(* segment after a time-out, something at the beginning.                   *)
LEMMA NothingLeft ==
  ASSUME NEW s, BaseOK(s), s.buf.head > NumSegs
  PROVE  SentCount(s) = 0
<1> DEFINE b == Retransmit(BufferThen(s), SentRescue(s))
           L == SentLost(s)
           A == SentNew(s)
           Q == SentRescue(s)
<1>1. /\ b.head = s.buf.head /\ b.head \in Int /\ b.high <= NumSegs + 1
      /\ NumSegs \in Nat /\ b.high \in Int
  BY SentOK, BufferFacts, TxBufferAssumption DEF SameSacks
<1>2. SentList(b) = {} /\ SentList(s.buf) = {}
  <2>1. s.buf.high \in Int /\ s.buf.high <= NumSegs + 1
    BY BaseFacts, TxBufferAssumption
  <2> QED
    BY <1>1, <2>1 DEF SentList
<1>3. L = {} /\ Q = {}
  <2>1. b.retrans = s.buf.retrans \cup L \cup Q /\ b.retrans \subseteq SentList(b)
    BY SentOK, BufferFacts
  <2> QED
    BY <1>2, <2>1
<1>4. A = {}
  <2>1. \A i \in A : i \in Segs /\ i < b.high /\ i >= s.buf.high
    <3>1. A \subseteq UnsentSegs(s.buf)
      <4>1. UnsentSegs(s.buf) \subseteq Segs
        BY BaseFacts DEF UnsentSegs, Segs
      <4>2. Room(s) - Cardinality(SentLost(s)) \in Int
        BY RoomOK, SentOK, SegmentsCount
      <4> QED
        BY <4>1, <4>2, LowestFacts DEF SentNew
    <3>2. \A i \in A : i \in Segs /\ i < b.high
      BY SentOK
    <3> QED
      BY <3>1, <3>2 DEF UnsentSegs
  <2>2. s.buf.high \in Int /\ s.buf.high > NumSegs
    BY BaseFacts, TxBufferAssumption
  <2> QED
    BY <2>1, <2>2, <1>1 DEF Segs
<1> QED
  BY <1>3, <1>4, FS_EmptySet DEF SentCount

(* With nothing in the sent list, a segment that was never sent.           *)
LEMMA SendsFirst ==
  ASSUME NEW s, BaseOK(s), s.buf.head = s.buf.high, s.buf.head <= NumSegs, Room(s) >= 1
  PROVE  /\ SentCount(s) >= 1 /\ (Room(s) = 1 /\ s.congState # "RECOVERY" => SentCount(s) = 1)
         /\ s.buf.head \in SentNew(s)
<1> DEFINE U == UnsentSegs(s.buf)
<1>1. s.buf.high \in 1..NumSegs /\ NumSegs \in Nat
  BY BaseFacts, TxBufferAssumption
<1>2. SentLost(s) = {} /\ Cardinality(SentLost(s)) = 0
  <2>1. LostSegs(s.buf) = {}
    BY <1>1 DEF LostSegs, SentList
  <2> QED
    BY <2>1, FS_EmptySet DEF SentLost, Lowest
<1>3. U \subseteq Segs /\ U # {}
  BY <1>1 DEF UnsentSegs, Segs
<1>4. SentNew(s) = Lowest(U, Room(s)) /\ Room(s) \in Nat
  BY <1>2, RoomOK DEF SentNew
<1>5. Min(U) \in SentNew(s) /\ (Room(s) = 1 => SentNew(s) = {Min(U)})
  <2> HIDE DEF U
  <2> QED
    BY <1>3, <1>4, LowestFacts
<1>6. Cardinality(SentNew(s)) \in Nat /\ Cardinality(SentNew(s)) # 0
  BY <1>5, SentOK, SegmentsCount, FS_EmptySet
<1>7. Room(s) = 1 => Cardinality(SentNew(s)) = 1
  BY <1>5, FS_Singleton
<1>8. Cardinality(SentRescue(s)) \in Nat
  BY SentOK, SegmentsCount
<1>9. s.congState # "RECOVERY" => Cardinality(SentRescue(s)) = 0
  BY FS_EmptySet DEF SentRescue
<1>10. s.buf.head \in SentNew(s)
  <2> DEFINE h == s.buf.high
  <2>1. U \subseteq Nat /\ U # {} /\ h \in U /\ h \in Nat /\ \A x \in U : x \in Nat /\ h <= x
    BY <1>1, <1>3 DEF UnsentSegs
  <2> HIDE DEF U, h
  <2>2. Min(U) \in U /\ \A x \in U : Min(U) <= x
    BY <2>1, LeastExists
  <2>3. Min(U) \in Nat /\ Min(U) <= h /\ h <= Min(U)
    BY <2>1, <2>2
  <2>4. Min(U) = h
    BY <2>1, <2>3
  <2> QED
    BY <1>5, <2>4 DEF h
<1> QED
  BY <1>2, <1>6, <1>7, <1>8, <1>9, <1>10 DEF SentCount

(* With all of the sent list lost and room for one, the head.              *)
LEMMA SendsHead ==
  ASSUME NEW s, BaseOK(s), s.buf.head < s.buf.high, Room(s) = 1, s.congState # "RECOVERY",
         LostSegs(s.buf) = SentList(s.buf) \ s.buf.sacked
  PROVE  SentCount(s) = 1 /\ s.buf.head \in SentLost(s)
<1> DEFINE L == LostSegs(s.buf)
           h == s.buf.head
<1>1. /\ h \in L /\ L \subseteq Segs /\ h \in Nat
      /\ \A i \in L : i \in Nat /\ h <= i
  BY BaseFacts, BufferFacts DEF SentList
<1>2. Min(L) = h
  <2> HIDE DEF L, h
  <2>1. L \subseteq Nat /\ L # {}
    BY <1>1
  <2>2. Min(L) \in L /\ \A x \in L : Min(L) <= x
    BY <2>1, LeastExists
  <2>3. Min(L) \in Nat /\ Min(L) <= h /\ h <= Min(L)
    BY <1>1, <2>2
  <2> QED
    BY <1>1, <2>3
<1>3. SentLost(s) = {h}
  <2>1. SentLost(s) = Lowest(L, 1)
    BY DEF SentLost
  <2> HIDE DEF L, h
  <2>2. L \subseteq Segs /\ L # {} /\ 1 \in Int
    BY <1>1
  <2>3. Lowest(L, 1) = {Min(L)}
    BY <2>2, LowestFacts
  <2> QED
    BY <1>2, <2>1, <2>3
<1>4. Cardinality(SentLost(s)) = 1
  BY <1>3, FS_Singleton
<1>5. SentNew(s) = {}
  <2>1. UnsentSegs(s.buf) \subseteq Segs
    BY BaseFacts DEF UnsentSegs, Segs
  <2>2. SentNew(s) = Lowest(UnsentSegs(s.buf), 0)
    BY <1>4 DEF SentNew
  <2> QED
    BY <2>1, <2>2, LowestFacts
<1>6. SentRescue(s) = {}
  BY DEF SentRescue
<1>7. Cardinality(SentNew(s)) = 0 /\ Cardinality(SentRescue(s)) = 0
  BY <1>5, <1>6, FS_EmptySet
<1> QED
  BY <1>3, <1>4, <1>7 DEF SentCount

(* No more than there is room for, and while there is room everything that *)
(* may be sent.                                                            *)
LEMMA SentCountOK ==
  ASSUME NEW s, BaseOK(s)
  PROVE  /\ SentCount(s) \in 0 .. Room(s)
         /\ SentCount(s) < Room(s) =>
              /\ SentLost(s) = LostSegs(s.buf) /\ SentNew(s) = UnsentSegs(s.buf)
              /\ s.congState = "RECOVERY" => SentRescue(s) = RescueSegs(BufferThen(s))
         /\ SentCount(s) = 0 =>
              SentLost(s) = {} /\ SentNew(s) = {} /\ SentRescue(s) = {}
<1> DEFINE L == SentLost(s)
           A == SentNew(s)
           Q == SentRescue(s)
           R == Room(s)
           l == Cardinality(L)
           a == Cardinality(A)
           q == Cardinality(Q)
<1>0. BufferOK(s.buf) /\ R \in Nat
  BY BaseFacts, RoomOK
<1>1. l \in 0..R /\ (l < R => L = LostSegs(s.buf))
  <2>1. LostSegs(s.buf) \subseteq Segs /\ L = Lowest(LostSegs(s.buf), R)
    BY <1>0, BufferFacts DEF LostSegs, SentLost
  <2> HIDE DEF L, R
  <2> QED
    BY <1>0, <2>1, LowestCount
<1>2. a \in 0..(R - l) /\ (a < R - l => A = UnsentSegs(s.buf))
  <2>1. UnsentSegs(s.buf) \subseteq Segs /\ A = Lowest(UnsentSegs(s.buf), R - l)
    BY BaseFacts DEF UnsentSegs, Segs, SentNew
  <2> HIDE DEF L, A, R, l
  <2>2. R - l \in Nat
    BY <1>0, <1>1
  <2> QED
    BY <2>1, <2>2, LowestCount
<1>3. CASE s.congState = "RECOVERY"
  <2> DEFINE X == RescueSegs(BufferThen(s))
  <2>1. Q = Lowest(X, R - l - a)
    BY <1>3 DEF SentRescue
  <2>2. X \subseteq Segs
    <3>1. BufferOK(BufferThen(s))
      BY SentOK
    <3> QED
      BY <3>1, BufferFacts DEF RescueSegs
  <2> HIDE DEF L, A, Q, R, l, a, X
  <2>3. R - l - a \in Nat
    BY <1>0, <1>1, <1>2
  <2>4. q \in 0..(R - l - a) /\ (q < R - l - a => Q = X)
    BY <2>1, <2>2, <2>3, LowestCount
  <2>5. SentCount(s) = l + a + q
    BY DEF SentCount, l, a, L, A, Q
  <2> HIDE DEF q
  <2>6. l + a + q \in 0..R
    BY <1>0, <1>1, <1>2, <2>4
  <2>7. l + a + q < R => l < R /\ a < R - l /\ q < R - l - a
    BY <1>0, <1>1, <1>2, <2>4
  <2>8. l + a + q = 0 => l = 0 /\ a = 0 /\ q = 0
    BY <1>0, <1>1, <1>2, <2>4
  <2>9. (l = 0 => L = {}) /\ (a = 0 => A = {}) /\ (q = 0 => Q = {})
    BY SentOK, SegmentsCount, FS_EmptySet DEF l, a, q, L, A, Q
  <2> QED
    BY <1>1, <1>2, <2>4, <2>5, <2>6, <2>7, <2>8, <2>9 DEF L, A, Q, R, X
<1>4. CASE s.congState # "RECOVERY"
  <2>1. Q = {} /\ q = 0
    BY <1>4, FS_EmptySet DEF SentRescue
  <2> HIDE DEF L, A, Q, R, l, a
  <2>2. SentCount(s) = l + a
    <3>1. SentCount(s) = l + a + q
      BY DEF SentCount, l, a, L, A, Q
    <3> QED
      BY <1>0, <1>1, <1>2, <2>1, <3>1
  <2>3. l + a \in 0..R
    BY <1>0, <1>1, <1>2
  <2>4. l + a < R => l < R /\ a < R - l
    BY <1>0, <1>1, <1>2
  <2>5. l + a = 0 => l = 0 /\ a = 0
    BY <1>0, <1>1, <1>2
  <2>6. (l = 0 => L = {}) /\ (a = 0 => A = {})
    BY SentOK, SegmentsCount, FS_EmptySet DEF l, a, L, A
  <2> QED
    BY <1>1, <1>2, <1>4, <2>1, <2>2, <2>3, <2>4, <2>5, <2>6 DEF L, A, Q, R
<1> QED
  BY <1>3, <1>4

(* So what is sent fits the window.                                        *)
LEMMA PendingFits ==
  ASSUME NEW s, BaseOK(s)
  PROVE  LET t == SendPendingData(s)
         IN /\ SentCount(s) = 0 =>
                 /\ t.buf.high = s.buf.high /\ t.buf.retrans = s.buf.retrans
                 /\ BytesInFlight(t.buf) = BytesInFlight(s.buf)
            /\ SentCount(s) > 0 => BytesInFlight(t.buf) * SegSize <= t.w.cwnd
<1> DEFINE t == SendPendingData(s)
           n == BytesInFlight(s.buf)
           k == SentCount(s)
           r == Room(s)
           c == s.w.cwnd
           z == SegSize
<1>1. /\ t.w = s.w /\ BytesInFlight(t.buf) = n + k
      /\ t.buf.retrans = s.buf.retrans \cup SentLost(s) \cup SentRescue(s)
      /\ t.buf.high = s.buf.high + Cardinality(SentNew(s))
  BY SendPendingOK
<1>2. n \in Nat /\ c \in Nat /\ z \in Nat /\ z > 0 /\ k \in 0..r /\ r \in Nat
  BY BaseFacts, PipeOK, ConstantAssumption, SentCountOK, RoomOK DEF Windows
<1>3. ASSUME k = 0
      PROVE  /\ t.buf.high = s.buf.high /\ t.buf.retrans = s.buf.retrans
             /\ BytesInFlight(t.buf) = n
  <2>1. SentLost(s) = {} /\ SentNew(s) = {} /\ SentRescue(s) = {}
    BY <1>3, SentCountOK
  <2>2. Cardinality(SentNew(s)) = 0 /\ s.buf.high \in Nat
    BY <2>1, FS_EmptySet, BaseFacts
  <2> HIDE DEF t, n, k
  <2> QED
    BY <1>1, <1>2, <1>3, <2>1, <2>2
<1>4. ASSUME k > 0 PROVE BytesInFlight(t.buf) * z <= t.w.cwnd
  <2>1. r = IF c < n * z THEN 0 ELSE (c - n * z) \div z
    BY DEF Room
  <2> HIDE DEF t, n, k, r, c, z
  <2> DEFINE p == n * z
  <2>2. p \in Nat /\ r # 0
    BY <1>2, <1>4
  <2>3. (n + k) * z = p + k * z
    BY <1>2
  <2>4. r * z <= c - p
    <3>1. ~(c < p) /\ r = (c - p) \div z
      BY <2>1, <2>2
    <3> HIDE DEF p
    <3>2. c - p \in Nat
      BY <1>2, <2>2, <3>1
    <3> DEFINE d == c - p
    <3> HIDE DEF d
    <3>3. (d \div z) * z <= d
      <4>1. d \in Nat
        BY <3>2 DEF d
      <4> QED
        BY <1>2, <4>1, Z3
    <3> QED
      BY <3>1, <3>3 DEF d
  <2>5. k * z <= r * z /\ k * z \in Nat /\ r * z \in Nat
    BY <1>2
  <2> HIDE DEF p
  <2>6. p + k * z <= c
    BY <1>2, <2>2, <2>4, <2>5
  <2> QED
    BY <1>1, <2>3, <2>6 DEF c
<1> QED
  BY <1>3, <1>4 DEF t

(* A socket that has nothing to send.                                      *)
Idles(s) == SentCount(s) = 0

(* SendPendingData does all there is to do: a second call would send       *)
(* nothing.  Either the room is filled, or nothing is left to send.        *)
LEMMA PendingIdles ==
  ASSUME NEW s, BaseOK(s)
  PROVE  Idles(SendPendingData(s))
<1> DEFINE t == SendPendingData(s)
           n == BytesInFlight(s.buf)
           k == SentCount(s)
           r == Room(s)
           c == s.w.cwnd
           z == SegSize
<1>1. /\ BaseOK(t) /\ t.w = s.w /\ BytesInFlight(t.buf) = n + k
      /\ t.congState = s.congState
  BY SendPendingOK DEF SameStates
<1>2. n \in Nat /\ c \in Nat /\ z \in Nat /\ z > 0 /\ k \in 0..r /\ r \in Nat
  BY BaseFacts, PipeOK, ConstantAssumption, SentCountOK, RoomOK DEF Windows
<1>3. CASE k = r
  <2>1. Room(t) = IF c < (n + k) * z THEN 0 ELSE (c - (n + k) * z) \div z
    BY <1>1 DEF Room
  <2>2. r = IF c < n * z THEN 0 ELSE (c - n * z) \div z
    BY DEF Room
  <2> HIDE DEF t, n, k, r, c, z
  <2>3. (n + k) * z = n * z + k * z /\ n * z \in Nat /\ k * z \in Nat
    BY <1>2
  <2> DEFINE p == n * z
             q == k * z
             d == c - p
  <2>4. /\ p \in Nat /\ q \in Nat /\ d \in Int /\ (k = 0 => q = 0)
        /\ Room(t) = (IF c < p + q THEN 0 ELSE (c - (p + q)) \div z)
        /\ r = IF d < 0 THEN 0 ELSE d \div z
    <3>1. p \in Nat /\ q \in Nat /\ d \in Int /\ (k = 0 => q = 0)
      BY <1>2, <2>3
    <3>2. Room(t) = IF c < p + q THEN 0 ELSE (c - (p + q)) \div z
      BY <2>1, <2>3
    <3>3. c < p <=> d < 0
      BY <1>2, <3>1
    <3> QED
      BY <2>2, <3>1, <3>2, <3>3
  <2>5. d >= 0 => d < q + z
    <3> SUFFICES ASSUME d >= 0 PROVE d < q + z
      OBVIOUS
    <3>1. r = d \div z
      BY <2>4
    <3> HIDE DEF d, p, q
    <3>2. d \in Nat
      BY <2>4
    <3>3. d < (d \div z) * z + z
      BY <1>2, <3>2, Z3
    <3> QED
      BY <1>3, <3>1, <3>3 DEF q
  <2>6. c = d + p
    BY <1>2, <2>4
  <2> HIDE DEF p, q, d
  <2>7. Room(t) = 0
    <3>1. CASE c < p + q
      BY <2>4, <3>1
    <3>2. CASE ~(c < p + q)
      <4>1. d - q \in 0 .. (z - 1) /\ c - (p + q) = d - q
        BY <1>2, <2>4, <2>5, <2>6, <3>2
      <4> DEFINE x == d - q
      <4>2. x \in 0 .. (z - 1)
        BY <4>1
      <4> HIDE DEF x
      <4>3. x \div z = 0
        BY <1>2, <4>2, Z3
      <4> QED
        BY <2>4, <3>2, <4>1, <4>3 DEF x
    <3> QED
      BY <3>1, <3>2
  <2>8. SentCount(t) \in 0 .. 0
    BY <1>1, <2>7, SentCountOK
  <2> QED
    BY <2>8 DEF Idles, t
<1>4. CASE k # r
  <2>1. /\ SentLost(s) = LostSegs(s.buf) /\ SentNew(s) = UnsentSegs(s.buf)
        /\ s.congState = "RECOVERY" => SentRescue(s) = RescueSegs(BufferThen(s))
    <3>1. k < r
      BY <1>2, <1>4
    <3> QED
      BY <3>1, SentCountOK
  <2> DEFINE b == Retransmit(BufferThen(s), SentRescue(s))
             b2 == BufferThen(s)
             L == SentLost(s)
             A == SentNew(s)
             Q == SentRescue(s)
  <2>2. t.buf = b
    BY SendPendingOK
  <2>3. /\ BufferOK(b) /\ SameSacks(b, s.buf) /\ b.high = s.buf.high + Cardinality(A)
        /\ b.retrans = s.buf.retrans \cup L \cup Q
        /\ BufferOK(b2) /\ SameSacks(b2, s.buf) /\ b2.retrans = s.buf.retrans \cup L
        /\ b2.high = b.high /\ b.lost = s.buf.lost
    BY SentOK
  <2>4. BufferOK(s.buf) /\ s.buf.lost \subseteq SentList(s.buf)
    BY BaseFacts, BufferFacts
  <2> HIDE DEF t, b, b2, L, A, Q
  <2>5. LostSegs(b) = {}
    BY <2>1, <2>3, <2>4 DEF LostSegs, SameSacks, L
  <2>6. UnsentSegs(b) = {}
    <3>1. /\ s.buf.high \in Nat /\ s.buf.high <= NumSegs + 1 /\ NumSegs \in Nat
      BY BaseFacts, TxBufferAssumption
    <3>2. Cardinality(A) = NumSegs - s.buf.high + 1
      <4>1. A = s.buf.high .. NumSegs
        BY <2>1 DEF UnsentSegs, A
      <4> QED
        BY <3>1, <4>1, IntervalCount
    <3>3. b.high = NumSegs + 1
      BY <2>3, <3>1, <3>2
    <3> QED
      BY <3>1, <3>3 DEF UnsentSegs
  <2>7. s.congState = "RECOVERY" => RescueSegs(b) = {}
    <3> SUFFICES ASSUME s.congState = "RECOVERY" PROVE RescueSegs(b) = {}
      OBVIOUS
    <3>1. SentList(b) = SentList(b2) /\ b.sacked = b2.sacked
      BY <2>3 DEF SentList, SameSacks
    <3>2. Q = SentList(b2) \ (b2.retrans \cup b2.sacked)
      BY <2>1 DEF RescueSegs, Q, b2
    <3> QED
      BY <2>3, <3>1, <3>2 DEF RescueSegs
  <2>8. SentLost(t) = {}
    <3>1. Room(t) \in Int
      BY <1>1, RoomOK
    <3>2. Lowest({}, Room(t)) = {}
      BY DEF Lowest
    <3> QED
      BY <2>2, <2>5, <3>2 DEF SentLost
  <2>9. SentNew(t) = {}
    <3>1. \A x : Lowest({}, x) = {}
      BY DEF Lowest
    <3> QED
      BY <2>2, <2>6, <3>1 DEF SentNew
  <2>10. SentRescue(t) = {}
    <3>1. CASE s.congState = "RECOVERY"
      <4> DEFINE y == BufferThen(t)
                 f == Retransmit(y, SentRescue(t))
      <4>1. /\ SameSacks(y, b) /\ y.retrans = b.retrans /\ y.high = f.high
            /\ f.high = b.high + Cardinality(SentNew(t))
        BY <1>1, <2>2, <2>8, SentOK
      <4>2. b.high \in Nat
        BY <2>3, BufferFacts
      <4> HIDE DEF y, f
      <4>3. y.high = b.high
        BY <2>9, <4>1, <4>2, FS_EmptySet
      <4>4. RescueSegs(y) = RescueSegs(b)
        BY <4>1, <4>3 DEF RescueSegs, SentList, SameSacks
      <4>5. \A x : Lowest({}, x) = {}
        BY DEF Lowest
      <4> QED
        BY <1>1, <2>7, <3>1, <4>4, <4>5 DEF SentRescue, y
    <3>2. CASE s.congState # "RECOVERY"
      BY <1>1, <3>2 DEF SentRescue
    <3> QED
      BY <3>1, <3>2
  <2>11. SentCount(t) = 0
    BY <2>8, <2>9, <2>10, FS_EmptySet DEF SentCount
  <2> QED
    BY <2>11 DEF Idles, t
<1> QED
  BY <1>3, <1>4
(* In the words of the loop in SendPendingData: there is no room, or no     *)
(* next segment.                                                           *)
LEMMA IdleMeans ==
  ASSUME NEW s, BaseOK(s), Idles(s)
  PROVE  Room(s) = 0 \/ NextSeg(s.buf, s.congState = "RECOVERY") = 0
<1> SUFFICES ASSUME Room(s) # 0
             PROVE  NextSeg(s.buf, s.congState = "RECOVERY") = 0
  OBVIOUS
<1>1. SentCount(s) = 0 /\ SentCount(s) < Room(s)
  BY RoomOK DEF Idles
<1>2. LostSegs(s.buf) = {} /\ UnsentSegs(s.buf) = {}
  BY <1>1, SentCountOK
<1>3. s.congState = "RECOVERY" => RescueSegs(BufferThen(s)) = {}
  BY <1>1, SentCountOK
<1>4. RescueSegs(BufferThen(s)) = RescueSegs(s.buf)
  <2>1. SentLost(s) = {} /\ SentNew(s) = {} /\ s.buf.high \in Nat
    BY <1>1, SentCountOK, BaseFacts
  <2> DEFINE y == BufferThen(s)
  <2>2. /\ SameSacks(y, s.buf) /\ y.retrans = s.buf.retrans \cup SentLost(s)
        /\ y.high = s.buf.high + Cardinality(SentNew(s))
    BY SentOK
  <2> HIDE DEF y
  <2>3. y.high = s.buf.high
    BY <2>1, <2>2, FS_EmptySet
  <2>4. RescueSegs(y) = RescueSegs(s.buf)
    BY <2>1, <2>2, <2>3 DEF RescueSegs, SentList, SameSacks
  <2> QED
    BY <2>4 DEF y
<1> QED
  BY <1>2, <1>3, <1>4 DEF NextSeg

-----------------------------------------------------------------------------
(* One segment, and the retransmission of DoRetransmit.                    *)
LEMMA SendDataOK ==
  ASSUME NEW s, BaseOK(s),
         NEW i, i \in SentList(s.buf) \/ (i = s.buf.high /\ i <= NumSegs)
  PROVE  LET t == SendDataPacket(s, i)
         IN /\ BaseOK(t) /\ Follows(t, s) /\ SameStates(t, s) /\ t.timer = TRUE
            /\ t.buf = CopyFromSequence(s.buf, i) /\ t.w = s.w
            /\ t.bytesInFlight = BytesInFlight(s.buf)
            /\ t.prr.delivered = s.prr.delivered
            /\ t.prr.out = IF s.congState = "RECOVERY" THEN s.prr.out + SegSize ELSE s.prr.out
<1> DEFINE t == SendDataPacket(s, i)
           flight == BytesInFlight(s.buf)
           b == CopyFromSequence(s.buf, i)
           sent == IF s.congState = "RECOVERY" THEN s.prr.out + SegSize ELSE s.prr.out
           out == [s.out EXCEPT ![i] = @ + 1]
<1>1. t = [s EXCEPT !.buf = b, !.bytesInFlight = flight, !.timer = TRUE, !.prr.out = sent,
                    !.out = out]
  BY DEF SendDataPacket
<1>13. flight \in Nat
  BY BaseFacts, PipeOK
<1>2. /\ BufferOK(b) /\ SameSacks(b, s.buf) /\ s.buf.high <= b.high /\ i < b.high
      /\ b.high \in Int /\ s.buf.high \in Int
  BY BaseFacts, CopyOK, BufferFacts
<1>3. sent \in Nat
  BY BaseFacts, ConstantAssumption DEF Reductions
<1>4. i \in Segs
  BY BaseFacts, BufferFacts, TxBufferAssumption DEF Segs
<1>5. out \in [Segs -> Nat]
  BY <1>4, BaseFacts
<1>6. \A j \in Segs : out[j] > 0 => j < b.high
  <2> SUFFICES ASSUME NEW j \in Segs, out[j] > 0 PROVE j < b.high
    OBVIOUS
  <2>1. CASE j = i
    BY <1>2, <2>1
  <2>2. CASE j # i
    <3>1. s.out[j] > 0
      BY <2>2, BaseFacts
    <3>2. j < s.buf.high /\ j \in Int
      BY <3>1 DEF BaseOK, Segs
    <3> QED
      BY <1>2, <3>2
  <2> QED
    BY <2>1, <2>2
<1>7. s \in Sockets /\ b \in Buffers /\ s.prr \in Reductions
  BY <1>2, BaseFacts DEF BaseOK, BufferOK
<1> HIDE DEF t, b, sent, out, flight
<1>8. /\ t.buf = b /\ t.timer = TRUE /\ t.out = out /\ t.bytesInFlight = flight
      /\ t.prr = [s.prr EXCEPT !.out = sent]
      /\ t.congState = s.congState /\ t.dupAckCount = s.dupAckCount
      /\ t.recover = s.recover /\ t.recoverActive = s.recoverActive
      /\ t.closed = s.closed /\ t.dataRetrCount = s.dataRetrCount /\ t.w = s.w
  BY <1>1, <1>7 DEF Sockets
<1>9. [s.prr EXCEPT !.out = sent] \in Reductions /\ t.prr.flight = s.prr.flight
      /\ t.prr.delivered = s.prr.delivered /\ t.prr.out = sent
  BY <1>3, <1>7, <1>8 DEF Reductions
<1>10. t \in Sockets
  BY <1>1, <1>5, <1>7, <1>8, <1>9, <1>13 DEF Sockets
<1>11. BaseOK(t)
  BY <1>2, <1>6, <1>8, <1>10, BaseFacts DEF BaseOK, BufferOK, SameSacks
<1>12. Follows(t, s) /\ SameStates(t, s)
  BY <1>2, <1>8, <1>9 DEF Follows, SameStates, SameSacks
<1> QED
  BY <1>8, <1>9, <1>11, <1>12 DEF t, b, sent, flight

(* A head that is lost and was not retransmitted is the first to be sent.  *)
LEMMA HeadFirst ==
  ASSUME NEW s, BaseOK(s), s.buf.head < s.buf.high, s.buf.head \in s.buf.lost,
         s.buf.head \notin s.buf.retrans
  PROVE  NextSeg(s.buf, FALSE) = s.buf.head
<1> DEFINE L == LostSegs(s.buf)
           h == s.buf.head
<1>1. h \in SentList(s.buf) /\ h \notin s.buf.sacked /\ h \in Nat
      /\ \A i \in SentList(s.buf) : i \in Nat /\ h <= i
  BY BaseFacts DEF SentList
<1>4. h \in L /\ L \subseteq Nat /\ \A x \in L : h <= x
  BY <1>1 DEF LostSegs
<1> HIDE DEF L
<1>5. Min(L) \in L /\ \A x \in L : Min(L) <= x
  BY <1>4, LeastExists
<1>6. Min(L) \in Nat /\ Min(L) <= h /\ h <= Min(L)
  BY <1>1, <1>4, <1>5
<1>7. Min(L) = h /\ L # {}
  BY <1>1, <1>4, <1>6
<1> QED
  BY <1>7 DEF NextSeg, L

(* DoRetransmit: there is something it may send while not all is           *)
(* received.                                                               *)
LEMMA DoRetransmitOK ==
  ASSUME NEW s, BaseOK(s), s.buf.head <= NumSegs
  PROVE  LET t == DoRetransmit(s)
         IN /\ BaseOK(t) /\ Follows(t, s) /\ SameStates(t, s) /\ t.timer = TRUE
            /\ t.w = s.w /\ t.prr.delivered = s.prr.delivered
            /\ t.prr.out = IF s.congState = "RECOVERY" THEN s.prr.out + SegSize ELSE s.prr.out
            /\ BytesInFlight(t.buf) \in {BytesInFlight(s.buf), BytesInFlight(s.buf) + 1}
            /\ s.buf.head \notin s.buf.retrans
                 => BytesInFlight(t.buf) = BytesInFlight(s.buf) + 1
            /\ t.bytesInFlight = BytesInFlight(s.buf)
            /\ s.buf.head \in s.buf.lost /\ s.buf.head < s.buf.high
                 => t.buf.head \in t.buf.retrans
<1> DEFINE n == NextSeg(s.buf, FALSE)
           i == IF n = 0 THEN s.buf.head ELSE n
<1>1. /\ n = 0 \/ n \in SentList(s.buf) \/ (n = s.buf.high /\ n <= NumSegs)
      /\ n # 0 => n \notin s.buf.retrans
  BY BaseFacts, NextSegSent
<1>2. s.buf.head \in SentList(s.buf) \/ s.buf.head = s.buf.high
  BY BaseFacts DEF SentList
<1> HIDE DEF n
<1>3. i \in SentList(s.buf) \/ (i = s.buf.high /\ i <= NumSegs)
  BY <1>1, <1>2
<1>4. DoRetransmit(s) = SendDataPacket(s, i)
  BY DEF DoRetransmit, n
<1>5. s.buf.head \notin s.buf.retrans => i \notin s.buf.retrans
  BY <1>1
<1> DEFINE u == SendDataPacket(s, i)
<1> HIDE DEF i
<1>6. /\ BaseOK(u) /\ Follows(u, s) /\ SameStates(u, s) /\ u.timer = TRUE
      /\ u.buf = CopyFromSequence(s.buf, i) /\ u.w = s.w
      /\ u.bytesInFlight = BytesInFlight(s.buf)
      /\ u.prr.delivered = s.prr.delivered
      /\ u.prr.out = IF s.congState = "RECOVERY" THEN s.prr.out + SegSize ELSE s.prr.out
  BY <1>3, SendDataOK
<1>7. /\ BytesInFlight(u.buf)
           = BytesInFlight(s.buf) + (IF i \in s.buf.retrans THEN 0 ELSE 1)
      /\ BytesInFlight(s.buf) \in Nat
  <2>1. BufferOK(s.buf)
    BY BaseFacts
  <2> QED
    BY <1>3, <1>6, <2>1, CopyOK, PipeOK
<1>8. ASSUME s.buf.head \in s.buf.lost, s.buf.head < s.buf.high
      PROVE  u.buf.head \in u.buf.retrans
  <2>1. u.buf.head = s.buf.head
    BY <1>6 DEF Follows
  <2>2. u.buf.retrans = s.buf.retrans \cup (IF i < s.buf.high THEN {i} ELSE {})
    BY <1>6, BaseFacts, BufferFacts DEF CopyFromSequence, GetTransmittedSegment,
       GetNewSegment, BufferOK, Buffers
  <2>3. s.buf.head \notin s.buf.retrans => i = s.buf.head
    BY <1>8, HeadFirst DEF i, n
  <2> QED
    BY <1>8, <2>1, <2>2, <2>3
<1> HIDE DEF u
<1> QED
  BY <1>4, <1>5, <1>6, <1>7, <1>8 DEF u

-----------------------------------------------------------------------------
(* Recovery.                                                               *)
News == [delivered : Nat, retransAcked : BOOLEAN, estimate : Estimates \cup {SameRtt}]

(* No more is in flight than the window, and one segment.                  *)
Fits(s) == BytesInFlight(s.buf) * SegSize <= s.w.cwnd + SegSize

(* The retransmission that is sent without a look at the window, when what *)
(* is in flight is no more than it.                                        *)
LEMMA RetransmitFits ==
  ASSUME NEW s, BaseOK(s), s.buf.head <= NumSegs,
         BytesInFlight(s.buf) * SegSize <= s.w.cwnd
  PROVE  Fits(DoRetransmit(s))
<1> DEFINE t == DoRetransmit(s)
           n == BytesInFlight(s.buf)
<1>1. t.w = s.w /\ BytesInFlight(t.buf) \in {n, n + 1}
  BY DoRetransmitOK
<1>2. n \in Nat /\ SegSize \in Nat /\ s.w.cwnd \in Nat
  BY BaseFacts, PipeOK, ConstantAssumption DEF Windows
<1> HIDE DEF t, n
<1>3. n * SegSize \in Nat /\ (n + 1) * SegSize = n * SegSize + SegSize
  BY <1>2
<1>4. n * SegSize <= s.w.cwnd
  BY DEF n
<1> QED
  BY <1>1, <1>2, <1>3, <1>4 DEF Fits, t

(* DoRecovery: another window, nothing else, and what was in flight when   *)
(* it was last asked for fits.                                             *)
LEMMA DoRecoveryOK ==
  ASSUME NEW s, BaseOK(s), s.prr.flight > 0, NEW news \in News
  PROVE  LET t == DoRecovery(s, news)
         IN /\ BaseOK(t) /\ Follows(t, s) /\ SameStates(t, s)
            /\ t.timer = s.timer /\ t.buf = s.buf /\ t.bytesInFlight = s.bytesInFlight
            /\ t.prr = AfterDelivery(s.prr, news.delivered)
            /\ t.w = RecoveryWindow(t.prr, s.w, s.bytesInFlight * SegSize,
                                    news.delivered, news.retransAcked)
            /\ t.w.ssthresh = s.w.ssthresh
            /\ t.w.cwnd = s.bytesInFlight * SegSize
                            + SendCount(t.prr, s.w, s.bytesInFlight * SegSize,
                                        news.delivered, news.retransAcked)
            /\ SendCount(t.prr, s.w, s.bytesInFlight * SegSize,
                         news.delivered, news.retransAcked) \in Nat
            /\ s.bytesInFlight * SegSize <= t.w.cwnd
<1> DEFINE t == DoRecovery(s, news)
           prr == AfterDelivery(s.prr, news.delivered)
           w == RecoveryWindow(prr, s.w, s.bytesInFlight * SegSize,
                               news.delivered, news.retransAcked)
<1>1. t = [s EXCEPT !.prr = prr, !.w = w]
  BY DEF DoRecovery, Sockets
<1>2. news.delivered \in Nat /\ news.retransAcked \in BOOLEAN
  BY Zenon DEF News
<1>3. prr \in Reductions /\ prr.flight = s.prr.flight
  BY <1>2, BaseFacts DEF AfterDelivery, Reductions
<1> HIDE DEF prr
<1> DEFINE n == s.bytesInFlight * SegSize
           k == SendCount(prr, s.w, n, news.delivered, news.retransAcked)
<1>4. /\ w \in Windows /\ n \in Nat /\ k \in Nat /\ w.cwnd = n + k
      /\ w.ssthresh = s.w.ssthresh
  <2>1. n \in Nat /\ s.w \in Windows /\ prr.flight > 0
    BY <1>3, BaseFacts, ConstantAssumption
  <2>2. w.ssthresh = s.w.ssthresh
    BY <2>1 DEF RecoveryWindow, Windows
  <2> HIDE DEF n
  <2>3. w \in Windows /\ k \in Nat /\ w.cwnd = n + k
    BY <1>2, <1>3, <2>1, RecoveryWindowOK DEF n
  <2> QED
    BY <2>1, <2>2, <2>3
<1>5. s \in Sockets
  BY DEF BaseOK
<1> HIDE DEF t, w, k, n
<1>6. /\ t.buf = s.buf /\ t.bytesInFlight = s.bytesInFlight /\ t.timer = s.timer /\ t.out = s.out /\ t.prr = prr /\ t.w = w
      /\ t.congState = s.congState /\ t.dupAckCount = s.dupAckCount
      /\ t.recover = s.recover /\ t.recoverActive = s.recoverActive
      /\ t.closed = s.closed /\ t.dataRetrCount = s.dataRetrCount
  BY <1>1, <1>5 DEF Sockets
<1>7. t \in Sockets
  BY <1>1, <1>3, <1>4, <1>5 DEF Sockets
<1>8. BaseOK(t)
  BY <1>6, <1>7, BaseFacts DEF BaseOK
<1>9. Follows(t, s) /\ SameStates(t, s)
  BY <1>3, <1>6, BaseFacts DEF Follows, SameStates
<1>10. s.bytesInFlight * SegSize <= t.w.cwnd
  BY <1>4, <1>6 DEF n
<1>11. t.w.ssthresh = s.w.ssthresh /\ t.w.cwnd = n + k /\ k \in Nat
  BY <1>4, <1>6
<1> QED
  BY <1>6, <1>8, <1>9, <1>10, <1>11 DEF t, w, prr, n, k

(* The socket on its way into recovery, before DoRecovery.                 *)
Entered(s) ==
  LET b == IF IsLost(s.buf, s.buf.head) THEN s.buf ELSE MarkHeadAsLost(s.buf)
  IN [s EXCEPT !.buf = b, !.bytesInFlight = BytesInFlight(b),
               !.congState = "RECOVERY",
               !.recover = b.high, !.recoverActive = TRUE,
               !.w.ssthresh = GetSsThresh(s.w),
               !.prr = NewReduction(SentSize(b) * SegSize)]

(* With something outstanding a reduction starts with a flight size that   *)
(* can be divided by, and a recovery point ahead of SND.UNA.               *)
LEMMA EnteredOK ==
  ASSUME NEW s, BaseOK(s), s.buf.head < s.buf.high
  PROVE  LET u == Entered(s)
         IN /\ BaseOK(u) /\ Follows(u, s) /\ u.buf.high = s.buf.high
            /\ u.congState = "RECOVERY" /\ u.recoverActive = TRUE /\ u.recover = s.buf.high
            /\ u.prr.flight > 0 /\ u.prr.out = 0 /\ u.prr.delivered = 0
            /\ Fresh(u) /\ u.buf.head \in u.buf.lost
<1> DEFINE b == IF IsLost(s.buf, s.buf.head) THEN s.buf ELSE MarkHeadAsLost(s.buf)
           prr == NewReduction(SentSize(b) * SegSize)
           w == [s.w EXCEPT !.ssthresh = GetSsThresh(s.w)]
           flight == BytesInFlight(b)
           u == [s EXCEPT !.buf = b, !.bytesInFlight = flight, !.congState = "RECOVERY",
                          !.recover = b.high, !.recoverActive = TRUE, !.w = w, !.prr = prr]
<1>1. s \in Sockets /\ s.w \in Windows
  BY BaseFacts DEF BaseOK
<1>2. Entered(s) = u
  BY <1>1 DEF Entered, Sockets
<1>3. /\ BufferOK(b) /\ SameSacks(b, s.buf) /\ b.high = s.buf.high
      /\ b.head \in b.lost
  <2>1. BufferOK(s.buf) /\ s.buf.head \notin s.buf.sacked
    BY BaseFacts
  <2> QED
    BY <2>1, MarkHeadOK, HeadLost DEF SameSacks
<1>10. flight \in Nat
  BY <1>3, PipeOK
<1> HIDE DEF b
<1>4. w \in Windows
  BY <1>1, ThresholdOK DEF Windows
<1>5. prr \in Reductions /\ prr.flight > 0 /\ prr.out = 0 /\ prr.delivered = 0
  <2>1. SentSize(b) \in Nat /\ SentSize(b) > 0
    BY <1>3, BaseFacts DEF SentSize, SameSacks
  <2>2. SentSize(b) * SegSize \in Nat /\ SentSize(b) * SegSize > 0
    BY <2>1, ConstantAssumption
  <2> QED
    BY <2>2 DEF NewReduction, Reductions
<1>6. /\ b \in Buffers /\ b.high \in 1..(NumSegs + 1) /\ ConsistencyCheck(b)
      /\ LostBelow(b)
  BY <1>3, BufferFacts DEF BufferOK
<1> HIDE DEF prr, w, u, flight
<1>7. u \in Sockets
  BY <1>1, <1>4, <1>5, <1>6, <1>10 DEF Sockets, u
<1>8. /\ u.bytesInFlight = flight /\ u.buf = b /\ u.congState = "RECOVERY" /\ u.recover = b.high
      /\ u.recoverActive = TRUE /\ u.prr = prr /\ u.out = s.out /\ u.closed = s.closed
      /\ u.dataRetrCount = s.dataRetrCount
  BY <1>1 DEF Sockets, u
<1>9. BaseOK(u) /\ Follows(u, s)
  BY <1>3, <1>6, <1>7, <1>8, BaseFacts DEF BaseOK, Follows, SameSacks
<1>11. Fresh(u)
  BY <1>8 DEF Fresh, flight
<1> QED
  BY <1>2, <1>3, <1>5, <1>8, <1>9, <1>11

(* The rest of EnterRecovery: DoRecovery, and one retransmission.          *)
LEMMA EnterRecoveryOK ==
  ASSUME NEW s, BaseOK(s), s.buf.head < s.buf.high, NEW news \in News
  PROVE  LET t == EnterRecovery(s, news)
         IN /\ BaseOK(t) /\ Follows(t, s) /\ t.timer = TRUE
            /\ t.congState = "RECOVERY" /\ t.recoverActive = TRUE
            /\ t.recover = s.buf.high /\ t.prr.flight > 0 /\ Fits(t)
            /\ t = DoRetransmit(DoRecovery(Entered(s), news))
            /\ Asked(t)
            /\ LET v == DoRecovery(Entered(s), news)
               IN BaseOK(v) /\ v.buf.head <= NumSegs /\ Fresh(v)
<1> DEFINE u == Entered(s)
           v == DoRecovery(u, news)
           t == DoRetransmit(v)
<1>1. EnterRecovery(s, news) = t
  BY DEF EnterRecovery, Entered
<1> HIDE DEF u, v, t
<1>2. /\ BaseOK(u) /\ Follows(u, s) /\ u.buf.high = s.buf.high
      /\ u.congState = "RECOVERY" /\ u.recoverActive = TRUE /\ u.recover = s.buf.high
      /\ u.prr.flight > 0 /\ Fresh(u) /\ u.buf.head \in u.buf.lost
  BY EnteredOK DEF u
<1>3. /\ BaseOK(v) /\ Follows(v, u) /\ SameStates(v, u) /\ v.buf = u.buf
      /\ BytesInFlight(v.buf) * SegSize <= v.w.cwnd /\ Fresh(v)
  BY <1>2, DoRecoveryOK DEF v, Fresh
<1>4. v.buf.head <= NumSegs
  <2>1. s.buf.head <= NumSegs
    BY BaseFacts, TxBufferAssumption
  <2> QED
    BY <1>2, <1>3, <2>1 DEF Follows
<1>5. BaseOK(t) /\ Follows(t, v) /\ SameStates(t, v) /\ t.timer = TRUE /\ Fits(t)
  BY <1>3, <1>4, DoRetransmitOK, RetransmitFits DEF t
<1>8. Asked(t)
  <2>1. v.buf.head \in v.buf.lost /\ v.buf.head < v.buf.high
    BY <1>2, <1>3 DEF Follows
  <2>2. /\ t.buf.head \in t.buf.retrans /\ t.bytesInFlight = BytesInFlight(v.buf)
        /\ BytesInFlight(t.buf) \in {BytesInFlight(v.buf), BytesInFlight(v.buf) + 1}
    BY <1>3, <1>4, <2>1, DoRetransmitOK DEF t
  <2> QED
    BY <2>2 DEF Asked
<1>6. Follows(t, s)
  <2>1. /\ s.buf.high \in Nat /\ t.buf.high \in Nat /\ v.buf.high \in Nat /\ u.buf.high \in Nat
    BY <1>2, <1>3, <1>5, BaseFacts
  <2> QED
    BY <1>2, <1>3, <1>5, <2>1 DEF Follows
<1>7. /\ t.congState = "RECOVERY" /\ t.recoverActive = TRUE
      /\ t.recover = s.buf.high /\ t.prr.flight > 0
  BY <1>2, <1>3, <1>5 DEF SameStates
<1> QED
  BY <1>1, <1>3, <1>4, <1>5, <1>6, <1>7, <1>8 DEF t, v, u

-----------------------------------------------------------------------------
(* The congestion states.  `head` is SND.UNA as it was before the          *)
(* acknowledgement that is being processed.                                *)
SocketStates(s, head) ==
  /\ s.congState \in {"OPEN", "LOSS"} => s.dupAckCount = 0
  /\ s.congState = "DISORDER" => s.dupAckCount \in 1 .. (DupAckThresh - 1)
  /\ s.recoverActive <=> s.congState \in {"RECOVERY", "LOSS"}
  /\ s.recoverActive => head <= s.recover /\ s.recover <= s.buf.high
  /\ s.congState = "RECOVERY" => head < s.recover /\ s.prr.flight > 0

TimerOK(s, head) == s.timer <=> head <= NumSegs

(* A duplicate while something is outstanding: the count reaches the       *)
(* threshold only on the way into recovery.                                *)
LEMMA DupAckOK ==
  ASSUME NEW s, BaseOK(s), s.buf.head < s.buf.high, NEW news \in News,
         NEW head \in Nat, head <= s.buf.head, SocketStates(s, head),
         s.timer = TRUE, Fresh(s)
  PROVE  LET t == DupAck(s, s.buf.head, news)
         IN /\ BaseOK(t) /\ Follows(t, s) /\ SocketStates(t, head) /\ t.timer = TRUE
            /\ t.congState # "OPEN" /\ Asked(t)
            /\ \/ t.buf = s.buf
               \/ Fits(t) /\ t.congState = "RECOVERY" /\ t.recover = s.buf.high
<1> DEFINE u == [s EXCEPT !.dupAckCount = s.dupAckCount + 1, !.congState = "DISORDER"]
           t == DupAck(s, s.buf.head, news)
<1>1. /\ s \in Sockets /\ s.dupAckCount \in Nat /\ s.recover \in Int
      /\ s.congState \in {"OPEN", "DISORDER", "RECOVERY", "LOSS"}
      /\ s.recoverActive \in BOOLEAN /\ s.buf.head \in Nat /\ s.buf.high \in Nat
  BY BaseFacts DEF BaseOK, Sockets
<1>2. CASE s.congState = "LOSS"
  <2>1. t = s
    BY <1>2 DEF DupAck
  <2> QED
    BY <1>1, <1>2, <2>1 DEF Follows, Asked
<1>3. CASE s.congState = "RECOVERY"
  <2>1. t = DoRecovery(s, news) /\ s.prr.flight > 0
    BY <1>3 DEF DupAck, SocketStates
  <2> HIDE DEF t
  <2>2. /\ BaseOK(t) /\ Follows(t, s) /\ SameStates(t, s) /\ t.timer = TRUE /\ t.buf = s.buf
        /\ Asked(t)
    BY <2>1, DoRecoveryOK DEF Fresh, Asked
  <2>3. SocketStates(t, head)
    BY <2>2, Zenon DEF SocketStates, SameStates
  <2> QED
    BY <1>3, <2>2, <2>3 DEF SameStates, t
<1>4. CASE s.congState \in {"OPEN", "DISORDER"}
  <2>1. /\ s.dupAckCount + 1 \in 1..DupAckThresh /\ ~s.recoverActive
    <3>1. ~s.recoverActive
      BY <1>1, <1>4 DEF SocketStates
    <3>2. CASE s.congState = "OPEN"
      <4>1. s.dupAckCount = 0
        BY <3>2 DEF SocketStates
      <4> QED
        BY <3>1, <4>1, TxBufferAssumption
    <3>3. CASE s.congState = "DISORDER"
      <4>1. s.dupAckCount \in 1 .. (DupAckThresh - 1)
        BY <3>3 DEF SocketStates
      <4> QED
        BY <3>1, <4>1, TxBufferAssumption
    <3> QED
      BY <1>4, <3>2, <3>3
  <2>2. t = IF EntersRecovery(u, s.buf.head) THEN EnterRecovery(u, news) ELSE u
    BY <1>1, <1>4 DEF DupAck, Sockets
  <2> HIDE DEF t, u
  <2>3. /\ u.buf = s.buf /\ u.timer = TRUE /\ u.out = s.out /\ u.closed = s.closed
        /\ u.dataRetrCount = s.dataRetrCount
        /\ u.prr = s.prr /\ u.recover = s.recover /\ u.recoverActive = s.recoverActive
        /\ u.congState = "DISORDER" /\ u.dupAckCount = s.dupAckCount + 1
        /\ u.bytesInFlight = s.bytesInFlight
    BY <1>1 DEF Sockets, u
  <2>4. u \in Sockets
    <3>1. s.dupAckCount + 1 \in Nat
      BY <1>1
    <3>2. s \in Sockets
      BY <1>1
    <3> DEFINE n == s.dupAckCount + 1
    <3> HIDE DEF n
    <3>3. [s EXCEPT !.dupAckCount = n, !.congState = "DISORDER"] \in Sockets
      BY <3>1, <3>2, Zenon DEF Sockets, n
    <3> QED
      BY <3>3 DEF n, u
  <2>5. BaseOK(u) /\ Follows(u, s)
    BY <2>3, <2>4, BaseFacts DEF BaseOK, Follows
  <2>6. CASE EntersRecovery(u, s.buf.head)
    <3>1. t = EnterRecovery(u, news)
      BY <2>2, <2>6
    <3>2. /\ BaseOK(t) /\ Follows(t, u) /\ t.timer = TRUE
          /\ t.congState = "RECOVERY" /\ t.recoverActive = TRUE
          /\ t.recover = s.buf.high /\ t.prr.flight > 0 /\ Fits(t) /\ Asked(t)
      BY <2>3, <2>5, <3>1, EnterRecoveryOK
    <3>3. Follows(t, s)
      BY <2>3, <3>2 DEF Follows
    <3>4. t.recover <= t.buf.high /\ head <= t.recover /\ head < t.recover
      BY <1>1, <3>2, <3>3, BaseFacts DEF Follows
    <3>5. SocketStates(t, head)
      BY <3>2, <3>4, Zenon DEF SocketStates
    <3> QED
      BY <3>2, <3>3, <3>5 DEF t
  <2>7. CASE ~EntersRecovery(u, s.buf.head)
    <3>1. t = u /\ s.dupAckCount + 1 # DupAckThresh
      BY <2>1, <2>2, <2>3, <2>7 DEF EntersRecovery
    <3>2. u.dupAckCount \in 1 .. (DupAckThresh - 1)
      BY <2>1, <2>3, <3>1, TxBufferAssumption
    <3>3. SocketStates(t, head)
      BY <2>1, <2>3, <3>1, <3>2 DEF SocketStates
    <3>4. Asked(t)
      BY <2>3, <3>1 DEF Asked, Fresh
    <3> QED
      BY <2>3, <2>5, <3>1, <3>3, <3>4 DEF t
  <2> QED
    BY <2>6, <2>7
<1> QED
  BY <1>1, <1>2, <1>3, <1>4

-----------------------------------------------------------------------------
(* An acknowledgement of new data.                                         *)
LEMMA NewAckOK ==
  ASSUME NEW s, BaseOK(s), NEW resetRTO \in BOOLEAN
  PROVE  LET t == NewAck(s, resetRTO)
         IN /\ BaseOK(t) /\ Follows(t, s) /\ SameStates(t, s)
            /\ t.timer = (s.buf.head <= NumSegs /\ (resetRTO \/ s.timer))
            /\ t.buf = s.buf /\ t.w = s.w /\ t.prr = s.prr
<1> DEFINE t == NewAck(s, resetRTO)
           timer == s.buf.head <= NumSegs /\ (resetRTO \/ s.timer)
<1>1. s \in Sockets /\ DataRetries \in 0..DataRetries
  BY SenderAssumption DEF BaseOK
<1>2. t = [s EXCEPT !.dataRetrCount = DataRetries, !.timer = timer]
  BY DEF NewAck
<1>3. timer \in BOOLEAN
  BY Zenon
<1> HIDE DEF t, timer
<1>4. /\ t.buf = s.buf /\ t.timer = timer /\ t.out = s.out /\ t.prr = s.prr /\ t.w = s.w
      /\ t.congState = s.congState /\ t.dupAckCount = s.dupAckCount
      /\ t.recover = s.recover /\ t.recoverActive = s.recoverActive
      /\ t.closed = s.closed /\ t.dataRetrCount = DataRetries
  BY <1>1, <1>2 DEF Sockets
<1>5. t \in Sockets
  BY <1>1, <1>2, <1>3 DEF Sockets
<1>6. BaseOK(t) /\ Follows(t, s) /\ SameStates(t, s)
  BY <1>4, <1>5, BaseFacts DEF BaseOK, Follows, SameStates
<1> QED
  BY <1>4, <1>6 DEF t, timer

(* A head with the flag is one that IsRetransmitted finds.                 *)
LEMMA RetransmittedHead ==
  ASSUME NEW s, BaseOK(s)
  PROVE  s.buf.head \in s.buf.retrans => IsRetransmitted(s.buf, s.buf.head)
BY BaseFacts, BufferFacts DEF IsRetransmitted

(* An acknowledgement short of the recovery point: recovery goes on.       *)
LEMMA PartialAckOK ==
  ASSUME NEW s, BaseOK(s), NEW news \in News, s.timer = TRUE,
         s.congState = "RECOVERY", s.recoverActive, s.buf.head < s.recover,
         s.recover <= s.buf.high, s.prr.flight > 0, Asked(s)
  PROVE  LET t == PartialAck(s, s.buf.head, news)
         IN /\ BaseOK(t) /\ Follows(t, s) /\ TimerOK(t, s.buf.head)
            /\ SocketStates(t, s.buf.head) /\ Fits(t)
<1> DEFINE r == DoRecovery(s, news)
           u == IF IsRetransmitted(r.buf, s.buf.head) THEN r ELSE DoRetransmit(r)
           v == NewAck(u, u.isFirstPartialAck)
           t == [v EXCEPT !.isFirstPartialAck = FALSE]
<1>1. PartialAck(s, s.buf.head, news) = t
  BY DEF PartialAck
<1>2. /\ s.buf.head \in Nat /\ s.buf.high \in Nat /\ s.recover \in Nat
      /\ s.buf.head <= NumSegs
  BY BaseFacts, TxBufferAssumption DEF BaseOK, Sockets
<1> HIDE DEF r
<1>3. /\ BaseOK(r) /\ Follows(r, s) /\ SameStates(r, s) /\ r.timer = TRUE /\ r.buf = s.buf
      /\ r.bytesInFlight = s.bytesInFlight /\ s.bytesInFlight * SegSize <= r.w.cwnd
  BY DoRecoveryOK DEF r
<1>14. ~IsRetransmitted(r.buf, s.buf.head) => Fresh(s)
  BY <1>2, <1>3, RetransmittedHead DEF Asked
<1>4. BaseOK(u) /\ Follows(u, r) /\ SameStates(u, r) /\ u.timer = TRUE /\ Fits(u)
  <2>1. CASE u = r
    <3>1. Fits(r)
      <4> DEFINE n == BytesInFlight(s.buf)
                 k == s.bytesInFlight
      <4>1. n \in {k, k + 1} /\ k \in Nat /\ r.w.cwnd \in Nat /\ SegSize \in Nat
        BY <1>3, BaseFacts, ConstantAssumption DEF Windows, Asked, Fresh
      <4> HIDE DEF n, k
      <4>2. /\ (k + 1) * SegSize = k * SegSize + SegSize /\ k * SegSize \in Nat
            /\ k * SegSize <= r.w.cwnd
        BY <1>3, <4>1 DEF k
      <4>3. n * SegSize <= r.w.cwnd + SegSize
        BY <4>1, <4>2
      <4> QED
        BY <1>3, <4>3 DEF Fits, n
    <3> QED
      BY <1>3, <2>1, <3>1, BaseFacts DEF Follows, SameStates
  <2>2. CASE ~IsRetransmitted(r.buf, s.buf.head) /\ u = DoRetransmit(r)
    <3>1. BytesInFlight(r.buf) * SegSize <= r.w.cwnd
      BY <1>3, <1>14, <2>2 DEF Fresh
    <3> QED
      BY <1>2, <1>3, <2>2, <3>1, DoRetransmitOK, RetransmitFits
  <2> QED
    BY <2>1, <2>2
<1> HIDE DEF u
<1>5. u.isFirstPartialAck \in BOOLEAN
  BY <1>4 DEF BaseOK, Sockets
<1> HIDE DEF v
<1>6. /\ BaseOK(v) /\ Follows(v, u) /\ SameStates(v, u) /\ v.timer = TRUE
      /\ v.buf = u.buf /\ v.w = u.w
  <2>1. /\ BaseOK(v) /\ Follows(v, u) /\ SameStates(v, u)
        /\ v.buf = u.buf /\ v.w = u.w
        /\ v.timer = (u.buf.head <= NumSegs /\ (u.isFirstPartialAck \/ u.timer))
    BY <1>4, <1>5, NewAckOK DEF v
  <2>2. u.buf.head <= NumSegs
    BY <1>2, <1>3, <1>4 DEF Follows
  <2> QED
    BY <1>4, <2>1, <2>2
<1>7. v \in Sockets
  BY <1>6 DEF BaseOK
<1> HIDE DEF t
<1>8. /\ t.buf = v.buf /\ t.timer = v.timer /\ t.out = v.out /\ t.prr = v.prr
      /\ t.congState = v.congState /\ t.dupAckCount = v.dupAckCount
      /\ t.recover = v.recover /\ t.recoverActive = v.recoverActive
      /\ t.closed = v.closed /\ t.dataRetrCount = v.dataRetrCount /\ t \in Sockets
      /\ t.w = v.w
  BY <1>7 DEF Sockets, t
<1>9. BaseOK(t)
  BY <1>6, <1>8 DEF BaseOK
<1>10. Follows(t, s)
  <2>1. /\ s.buf.high \in Nat /\ r.buf.high \in Nat /\ u.buf.high \in Nat
        /\ v.buf.high \in Nat
    BY <1>3, <1>4, <1>6, BaseFacts
  <2> QED
    BY <1>3, <1>4, <1>6, <1>8, <2>1 DEF Follows
<1>11. SocketStates(t, s.buf.head)
  <2>1. /\ t.congState = "RECOVERY" /\ t.recoverActive = s.recoverActive
        /\ t.recover = s.recover /\ t.prr.flight = s.prr.flight
    BY <1>3, <1>4, <1>6, <1>8 DEF SameStates
  <2>2. t.recover <= t.buf.high
    BY <1>2, <1>9, <1>10, <2>1, BaseFacts DEF Follows
  <2> QED
    BY <1>2, <2>1, <2>2 DEF SocketStates
<1>12. TimerOK(t, s.buf.head)
  BY <1>2, <1>6, <1>8 DEF TimerOK
<1>13. Fits(t)
  BY <1>4, <1>6, <1>8 DEF Fits
<1> QED
  BY <1>1, <1>9, <1>10, <1>11, <1>12, <1>13

(* A socket with other windows, and nothing else changed.                  *)
LEMMA WindowPut ==
  ASSUME NEW s, BaseOK(s), NEW w \in Windows
  PROVE  LET t == [s EXCEPT !.w = w]
         IN /\ BaseOK(t) /\ Follows(t, s) /\ SameStates(t, s)
            /\ t.timer = s.timer /\ t.buf = s.buf
<1> DEFINE t == [s EXCEPT !.w = w]
<1>1. s \in Sockets
  BY DEF BaseOK
<1>2. t \in Sockets
  BY <1>1, Zenon DEF Sockets
<1>3. /\ t.buf = s.buf /\ t.timer = s.timer /\ t.out = s.out /\ t.prr = s.prr
      /\ t.congState = s.congState /\ t.dupAckCount = s.dupAckCount
      /\ t.recover = s.recover /\ t.recoverActive = s.recoverActive
      /\ t.closed = s.closed /\ t.dataRetrCount = s.dataRetrCount
  BY <1>1 DEF Sockets
<1> HIDE DEF t
<1>4. BaseOK(t) /\ Follows(t, s) /\ SameStates(t, s)
  BY <1>2, <1>3, BaseFacts DEF BaseOK, Follows, SameStates
<1> QED
  BY <1>3, <1>4 DEF t

(* What the end of an acknowledgement does: the window, then the timer.    *)
LEMMA AckedOK ==
  ASSUME NEW s, BaseOK(s), NEW acked \in Int, NEW news \in News
  PROVE  LET t == NewAck([s EXCEPT !.w = IncreaseWindow(@, acked, news.estimate)], TRUE)
         IN /\ BaseOK(t) /\ Follows(t, s) /\ SameStates(t, s)
            /\ TimerOK(t, s.buf.head) /\ t.buf = s.buf
<1> DEFINE w == IncreaseWindow(s.w, acked, news.estimate)
           u == [s EXCEPT !.w = w]
           t == NewAck(u, TRUE)
<1>1. s \in Sockets /\ s.w \in Windows
  BY BaseFacts DEF BaseOK
<1>2. NewAck([s EXCEPT !.w = IncreaseWindow(@, acked, news.estimate)], TRUE) = t
  BY <1>1 DEF Sockets
<1>3. news.estimate \in Estimates \cup {SameRtt}
  BY Zenon DEF News
<1>4. w \in Windows
  BY <1>1, <1>3, IncreaseOK
<1> HIDE DEF w
<1>5. BaseOK(u) /\ Follows(u, s) /\ SameStates(u, s) /\ u.buf = s.buf
  BY <1>4, WindowPut
<1> HIDE DEF u, t
<1>6. /\ BaseOK(t) /\ Follows(t, u) /\ SameStates(t, u) /\ t.buf = u.buf
      /\ t.timer = (u.buf.head <= NumSegs /\ (TRUE \/ u.timer))
  BY <1>5, NewAckOK DEF t
<1>7. Follows(t, s) /\ SameStates(t, s)
  BY <1>5, <1>6 DEF Follows, SameStates
<1>8. TimerOK(t, s.buf.head)
  BY <1>5, <1>6 DEF TimerOK
<1> QED
  BY <1>2, <1>5, <1>6, <1>7, <1>8

(* The same after a time-out.                                              *)
LEMMA LossAckOK ==
  ASSUME NEW s, BaseOK(s), NEW acked \in Int, NEW news \in News,
         s.congState = "LOSS", s.dupAckCount = 0, s.recoverActive,
         s.buf.head < s.recover, s.recover <= s.buf.high
  PROVE  LET t == LossAck(s, acked, news)
         IN /\ BaseOK(t) /\ Follows(t, s) /\ TimerOK(t, s.buf.head)
            /\ SocketStates(t, s.buf.head) /\ t.buf = s.buf /\ t.congState = "LOSS"
<1> DEFINE t == LossAck(s, acked, news)
<1>1. /\ BaseOK(t) /\ Follows(t, s) /\ SameStates(t, s) /\ TimerOK(t, s.buf.head)
      /\ t.buf = s.buf
  BY AckedOK DEF LossAck
<1> HIDE DEF t
<1>2. t.recover <= t.buf.high /\ s.buf.head <= t.recover
  <2>1. /\ s.recover \in Nat /\ s.buf.high \in Nat /\ t.buf.high \in Nat
        /\ s.buf.head \in Nat
    BY <1>1, BaseFacts DEF BaseOK, Sockets
  <2>2. t.recover = s.recover /\ s.buf.high <= t.buf.high
    BY <1>1 DEF SameStates, Follows
  <2> QED
    BY <2>1, <2>2
<1>3. /\ t.congState = "LOSS" /\ t.dupAckCount = 0 /\ t.recoverActive
  BY <1>1 DEF SameStates
<1>4. SocketStates(t, s.buf.head)
  BY <1>2, <1>3 DEF SocketStates
<1> QED
  BY <1>1, <1>3, <1>4 DEF t

(* The states between the two halves of ProcessAck: what has been counted  *)
(* is in the range of its state, or starts again.                          *)
MiddleStates(s, isDupack) ==
  /\ s.congState = "OPEN" => ~isDupack
  /\ s.congState \in {"OPEN", "LOSS"} => s.dupAckCount = 0
  /\ s.congState = "DISORDER" /\ isDupack => s.dupAckCount \in 1 .. (DupAckThresh - 1)
  /\ s.congState = "DISORDER" /\ ~isDupack => s.dupAckCount = 0
  /\ s.recoverActive <=> s.congState \in {"RECOVERY", "LOSS"}

(* The way back to OPEN: no count and no recovery point is left behind.    *)
LEMMA FullAckOK ==
  ASSUME NEW s, BaseOK(s), NEW isDupack \in BOOLEAN, NEW acked \in Int, NEW news \in News,
         MiddleStates(s, isDupack), s.timer = TRUE,
         isDupack => s.buf.head <= NumSegs,
         s.congState \in {"RECOVERY", "LOSS"} => s.recover <= s.buf.head
  PROVE  LET t == FullAck(s, s.buf.head, acked, isDupack, news)
         IN /\ BaseOK(t) /\ Follows(t, s) /\ TimerOK(t, s.buf.head)
            /\ SocketStates(t, s.buf.head) /\ t.buf = s.buf /\ t.congState # "RECOVERY"
<1> DEFINE recovered == s.congState = "RECOVERY"
           count == IF s.congState = "LOSS" THEN s.buf.head - s.recover ELSE acked
           state == IF s.congState = "DISORDER" /\ isDupack THEN "DISORDER" ELSE "OPEN"
           dups == IF recovered THEN 0 ELSE s.dupAckCount
           active == s.recoverActive /\ s.buf.head < s.recover
           first == s.isFirstPartialAck \/ s.congState \in {"RECOVERY", "LOSS"}
           w == IF recovered THEN [s.w EXCEPT !.cwnd = s.w.ssthresh] ELSE s.w
           u == [s EXCEPT !.congState = state, !.isFirstPartialAck = first,
                          !.dupAckCount = dups, !.recoverActive = active, !.w = w]
           v == NewAck([u EXCEPT !.w = IncreaseWindow(@, count, news.estimate)], TRUE)
           t == FullAck(s, s.buf.head, acked, isDupack, news)
<1>1. /\ s \in Sockets /\ s.w \in Windows /\ s.recover \in Nat /\ s.buf.head \in Nat
      /\ s.dupAckCount \in Nat /\ s.recoverActive \in BOOLEAN
      /\ s.congState \in {"OPEN", "DISORDER", "RECOVERY", "LOSS"}
  BY BaseFacts DEF BaseOK, Sockets
<1>2. t = IF u.congState = "OPEN" THEN v ELSE u
  <2>1. /\ [s.w EXCEPT !.cwnd = IF recovered THEN s.w.ssthresh ELSE @] = w
    BY <1>1 DEF Windows
  <2>2. u = [s EXCEPT
              !.congState = IF @ = "DISORDER" /\ isDupack THEN @ ELSE "OPEN",
              !.isFirstPartialAck = @ \/ s.congState \in {"RECOVERY", "LOSS"},
              !.dupAckCount = IF recovered THEN 0 ELSE @,
              !.recoverActive = @ /\ s.buf.head < s.recover,
              !.w.cwnd = IF recovered THEN s.w.ssthresh ELSE @]
    BY <1>1, <2>1 DEF Sockets
  <2> HIDE DEF u, w
  <2> QED
    BY <2>2 DEF FullAck
<1>3. /\ state \in {"OPEN", "DISORDER"} /\ dups \in Nat /\ count \in Int
      /\ w \in Windows
  BY <1>1 DEF Windows
<1>4. active \in BOOLEAN /\ first \in BOOLEAN
  BY Zenon
<1>5. active = FALSE
  BY <1>1 DEF MiddleStates
<1>6. state = "OPEN" => dups = 0
  BY <1>1 DEF MiddleStates
<1>7. state = "DISORDER" => /\ dups \in 1 .. (DupAckThresh - 1)
                            /\ s.buf.head <= NumSegs
  BY <1>1 DEF MiddleStates
<1> HIDE DEF state, dups, active, first, w, count
<1>8. /\ u.buf = s.buf /\ u.timer = TRUE /\ u.out = s.out /\ u.prr = s.prr
      /\ u.congState = state /\ u.dupAckCount = dups /\ u.recoverActive = active
      /\ u.closed = s.closed /\ u.dataRetrCount = s.dataRetrCount
  BY <1>1 DEF Sockets
<1>9. u \in Sockets
  BY <1>1, <1>3, <1>4, Zenon DEF Sockets
<1> HIDE DEF u
<1>10. BaseOK(u) /\ Follows(u, s)
  BY <1>8, <1>9, BaseFacts DEF BaseOK, Follows
<1>11. CASE state = "OPEN"
  <2> HIDE DEF t
  <2>1. /\ BaseOK(v) /\ Follows(v, u) /\ SameStates(v, u) /\ TimerOK(v, u.buf.head)
        /\ v.buf = u.buf
    BY <1>3, <1>10, AckedOK
  <2>2. t = v
    BY <1>2, <1>8, <1>11
  <2> HIDE DEF v
  <2>3. Follows(t, s) /\ TimerOK(t, s.buf.head)
    BY <1>8, <2>1, <2>2 DEF Follows
  <2>4. t.congState = "OPEN" /\ t.dupAckCount = 0 /\ t.recoverActive = FALSE
    BY <1>5, <1>6, <1>8, <1>11, <2>1, <2>2 DEF SameStates
  <2>5. SocketStates(t, s.buf.head)
    BY <2>4, Zenon DEF SocketStates
  <2> QED
    BY <1>8, <2>1, <2>2, <2>3, <2>4, <2>5 DEF t
<1>12. CASE state = "DISORDER"
  <2> HIDE DEF t, v
  <2>1. t = u
    BY <1>2, <1>8, <1>12
  <2>2. SocketStates(t, s.buf.head)
    BY <1>5, <1>7, <1>8, <1>12, <2>1, Zenon DEF SocketStates
  <2>3. TimerOK(t, s.buf.head)
    BY <1>7, <1>8, <1>12, <2>1 DEF TimerOK
  <2> QED
    BY <1>8, <1>10, <1>12, <2>1, <2>2, <2>3 DEF t
<1> QED
  BY <1>3, <1>11, <1>12

(* The whole of ProcessAck, on a socket whose buffer has dropped what is   *)
(* acknowledged.                                                           *)
LEMMA ProcessAckOK ==
  ASSUME NEW s, BaseOK(s), NEW head \in Nat, head <= s.buf.head,
         NEW isDupack \in BOOLEAN, NEW news \in News,
         isDupack => s.buf.head < s.buf.high,
         SocketStates(s, head), TimerOK(s, head), Fresh(s)
  PROVE  LET t == ProcessAck(s, s.buf.head, head, isDupack, news)
         IN /\ BaseOK(t) /\ Follows(t, s) /\ TimerOK(t, s.buf.head)
            /\ SocketStates(t, s.buf.head) /\ (t.buf = s.buf \/ Fits(t))
<1> DEFINE ack == s.buf.head
           d == IF isDupack THEN DupAck(s, ack, news) ELSE s
           u == IF isDupack THEN d ELSE [d EXCEPT !.dupAckCount = 0]
           acked == ack - head
           t == ProcessAck(s, ack, head, isDupack, news)
<1>1. /\ s \in Sockets /\ ack \in Nat /\ s.buf.high \in Nat /\ s.buf.high <= NumSegs + 1
      /\ NumSegs \in Nat /\ s.timer \in BOOLEAN
  BY BaseFacts, TxBufferAssumption DEF BaseOK
<1>2. isDupack => ack <= NumSegs /\ s.timer = TRUE
  BY <1>1 DEF TimerOK
<1>3. t = IF acked = 0 THEN d
          ELSE IF u.congState = "RECOVERY" /\ ack < u.recover THEN PartialAck(u, ack, news)
          ELSE IF u.congState = "LOSS" /\ ack < u.recover THEN LossAck(u, acked, news)
          ELSE FullAck(u, ack, acked, isDupack, news)
  BY DEF ProcessAck
<1> HIDE DEF t, d
<1>4. /\ BaseOK(d) /\ Follows(d, s) /\ SocketStates(d, head)
      /\ isDupack => d.congState # "OPEN" /\ d.timer = TRUE
      /\ Asked(d)
      /\ ~isDupack => d = s
      /\ \/ d.buf = s.buf
         \/ Fits(d) /\ d.congState = "RECOVERY" /\ ack < d.recover
  <2>1. CASE isDupack
    <3>1. d = DupAck(s, s.buf.head, news)
      BY <2>1 DEF d
    <3> QED
      BY <1>2, <2>1, <3>1, DupAckOK
  <2>2. CASE ~isDupack
    <3>1. d = s
      BY <2>2 DEF d
    <3> QED
      BY <1>1, <2>2, <3>1 DEF Follows, Asked
  <2> QED
    BY <2>1, <2>2
<1>5. CASE acked = 0
  <2>1. t = d /\ head = ack
    BY <1>1, <1>3, <1>5
  <2>2. TimerOK(d, head)
    BY <1>1, <1>2, <1>4, <2>1 DEF TimerOK
  <2>3. t.buf = s.buf \/ Fits(t)
    BY <1>4, <2>1
  <2> QED
    BY <1>4, <2>1, <2>2, <2>3 DEF t
<1>6. CASE acked # 0
  <2>1. head < ack /\ head <= NumSegs /\ d.timer = TRUE
    <3>1. head < ack /\ head <= NumSegs
      BY <1>1, <1>6, BaseFacts
    <3>2. s.timer = TRUE
      BY <1>1, <3>1 DEF TimerOK
    <3> QED
      BY <1>4, <3>1, <3>2
  <2>2. d \in Sockets
    BY <1>4 DEF BaseOK
  <2> HIDE DEF u
  <2>3. /\ u.buf = d.buf /\ u.timer = TRUE /\ u.out = d.out /\ u.prr = d.prr
        /\ u.congState = d.congState /\ u.closed = d.closed
        /\ u.dataRetrCount = d.dataRetrCount
        /\ u.recover = d.recover /\ u.recoverActive = d.recoverActive
        /\ u.dupAckCount = IF isDupack THEN d.dupAckCount ELSE 0
        /\ u.bytesInFlight = d.bytesInFlight
    BY <2>1, <2>2 DEF Sockets, u
  <2>4. u \in Sockets
    BY <2>2, Zenon DEF Sockets, u
  <2>5. BaseOK(u) /\ Follows(u, s) /\ u.buf.head = ack
    BY <1>4, <2>3, <2>4 DEF BaseOK, Follows
  <2>6. /\ u.recover \in Nat /\ u.buf.high \in Nat /\ u.recoverActive \in BOOLEAN
        /\ u.congState \in {"OPEN", "DISORDER", "RECOVERY", "LOSS"}
    BY <2>4, <2>5, BaseFacts DEF Sockets
  <2>7. MiddleStates(u, isDupack)
    BY <1>4, <2>3 DEF MiddleStates, SocketStates
  <2>8. /\ u.congState \in {"RECOVERY", "LOSS"} => u.recoverActive /\ u.recover <= u.buf.high
        /\ u.congState = "RECOVERY" => u.prr.flight > 0
    BY <1>4, <2>3 DEF SocketStates
  <2>9. acked \in Int
    BY <1>1
  <2>10. CASE u.congState = "RECOVERY" /\ ack < u.recover
    <3>1. t = PartialAck(u, u.buf.head, news)
      BY <1>3, <1>6, <2>5, <2>10
    <3>4. Asked(u)
      BY <1>4, <2>3 DEF Asked, Fresh
    <3>2. /\ BaseOK(t) /\ Follows(t, u) /\ TimerOK(t, ack) /\ SocketStates(t, ack)
          /\ Fits(t)
      BY <3>4, <2>3, <2>5, <2>8, <2>10, <3>1, PartialAckOK
    <3>3. Follows(t, s)
      BY <1>1, <2>5, <2>6, <3>2, BaseFacts DEF Follows
    <3> QED
      BY <3>2, <3>3 DEF t
  <2>11. CASE u.congState = "LOSS" /\ ack < u.recover
    <3>1. t = LossAck(u, acked, news)
      BY <1>3, <1>6, <2>11
    <3>2. u.dupAckCount = 0
      BY <2>7, <2>11 DEF MiddleStates
    <3>3. /\ BaseOK(t) /\ Follows(t, u) /\ TimerOK(t, ack) /\ SocketStates(t, ack)
          /\ t.buf = u.buf
      BY <2>5, <2>8, <2>9, <2>11, <3>1, <3>2, LossAckOK
    <3>5. t.buf = s.buf
      BY <1>4, <2>3, <2>11, <3>3
    <3>4. Follows(t, s)
      BY <1>1, <2>5, <2>6, <3>3, BaseFacts DEF Follows
    <3> QED
      BY <3>3, <3>4, <3>5 DEF t
  <2>12. CASE ~(u.congState \in {"RECOVERY", "LOSS"} /\ ack < u.recover)
    <3>1. t = FullAck(u, u.buf.head, acked, isDupack, news)
      BY <1>3, <1>6, <2>5, <2>12
    <3>2. u.congState \in {"RECOVERY", "LOSS"} => u.recover <= u.buf.head
      BY <1>1, <2>5, <2>6, <2>12
    <3>3. BaseOK(u) /\ u.timer = TRUE /\ (isDupack => u.buf.head <= NumSegs)
      BY <1>2, <2>3, <2>5
    <3> DEFINE x == FullAck(u, u.buf.head, acked, isDupack, news)
    <3>4. /\ BaseOK(x) /\ Follows(x, u) /\ TimerOK(x, u.buf.head)
          /\ SocketStates(x, u.buf.head) /\ x.buf = u.buf
      BY <2>7, <2>9, <3>2, <3>3, FullAckOK
    <3> HIDE DEF x
    <3>5. /\ BaseOK(t) /\ Follows(t, u) /\ TimerOK(t, ack) /\ SocketStates(t, ack)
          /\ t.buf = u.buf
      BY <2>5, <3>1, <3>4 DEF x
    <3>6. Follows(t, s)
      BY <1>1, <2>5, <2>6, <3>5, BaseFacts DEF Follows
    <3>7. t.buf = s.buf
      BY <1>4, <2>3, <2>12, <3>5
    <3> QED
      BY <3>5, <3>6, <3>7 DEF t
  <2> QED
    BY <2>10, <2>11, <2>12
<1> QED
  BY <1>5, <1>6

-----------------------------------------------------------------------------
(* The end of every handler: what SendPendingData does to the states and   *)
(* to the timer, which it starts when it sends.                            *)
LEMMA PendingStates ==
  ASSUME NEW s, BaseOK(s), SocketStates(s, s.buf.head),
         s.timer => s.buf.head <= NumSegs,
         s.buf.head <= NumSegs => s.timer \/ SentCount(s) > 0
  PROVE  LET t == SendPendingData(s)
         IN /\ BaseOK(t) /\ Follows(t, s) /\ TimerOK(t, s.buf.head)
            /\ SocketStates(t, s.buf.head)
<1> DEFINE t == SendPendingData(s)
<1>1. /\ BaseOK(t) /\ Follows(t, s) /\ SameStates(t, s)
      /\ t.timer = (s.timer \/ SentCount(s) > 0)
  BY SendPendingOK
<1> HIDE DEF t
<1>2. /\ s.buf.high \in Nat /\ t.buf.high \in Nat /\ s.recover \in Nat /\ s.buf.head \in Nat
  BY <1>1, BaseFacts DEF BaseOK, Sockets
<1>3. s.recoverActive => t.recover <= t.buf.high
  <2>1. s.recoverActive => s.recover <= s.buf.high
    BY DEF SocketStates
  <2> QED
    BY <1>1, <1>2, <2>1 DEF SameStates, Follows
<1>4. SocketStates(t, s.buf.head)
  BY <1>1, <1>3, Zenon DEF SocketStates, SameStates
<1>5. TimerOK(t, s.buf.head)
  <2>1. CASE s.buf.head <= NumSegs
    BY <1>1, <2>1 DEF TimerOK
  <2>2. CASE s.buf.head > NumSegs
    <3>1. SentCount(s) = 0
      BY <2>2, NothingLeft
    <3>2. s.timer = FALSE
      <4>1. s.timer \in BOOLEAN
        BY BaseFacts
      <4> QED
        BY <1>2, <2>2, <4>1, TxBufferAssumption
    <3>3. t.timer = FALSE
      <4>1. ~(SentCount(s) > 0)
        BY <3>1
      <4> QED
        BY <1>1, <3>2, <4>1, Zenon
    <3> QED
      BY <1>2, <2>2, <3>3, TxBufferAssumption DEF TimerOK
  <2> QED
    BY <1>2, <2>1, <2>2, TxBufferAssumption
<1> QED
  BY <1>1, <1>4, <1>5 DEF t

(* An acknowledgement in the words of ReceivedAck: the scoreboard it       *)
(* leaves, what it reports that was not known, and what it brings.         *)
AckBuffer(s, m) == DiscardUpTo(Update(s.buf, m.blocks), m.ack)

AckSocket(s, m) ==
  [s EXCEPT !.buf = AckBuffer(s, m), !.bytesInFlight = BytesInFlight(AckBuffer(s, m))]

AckCovered(s, m) == s.buf.head .. (m.ack - 1)

AckSacked(s, m) == Update(s.buf, m.blocks).sacked \ s.buf.sacked

AckNews(s, m, e) ==
  [delivered |-> SegSize * (Cardinality(AckSacked(s, m))
                            + Cardinality(AckCovered(s, m) \ Update(s.buf, m.blocks).sacked)),
   retransAcked |-> /\ s.congState = "RECOVERY" /\ m.ack < s.recover
                    /\ \E i \in AckCovered(s, m) : IsRetransmitted(Update(s.buf, m.blocks), i),
   estimate |-> e]

AckProcessed(s, m, e) ==
  ProcessAck(AckSocket(s, m), m.ack, s.buf.head, AckSacked(s, m) # {}, AckNews(s, m, e))

(* In these words an acknowledgement is processed, and then what the       *)
(* window has room for is sent.                                            *)
LEMMA ReceivedAckIs ==
  ASSUME NEW s, NEW m, NEW e
  PROVE  ReceivedAck(s, m, e) = SendPendingData(AckProcessed(s, m, e))
BY DEF ReceivedAck, AckProcessed, AckSocket, AckBuffer, AckNews, AckSacked, AckCovered

(* What the proofs ask of an acknowledgement that is not ignored: its      *)
(* blocks are above its number, and the sender does not hold its number to *)
(* be SACKed.                                                              *)
Acknowledges(m, s) ==
  /\ m.ack \in s.buf.head .. s.buf.high /\ m.ack \notin s.buf.sacked
  /\ \A j \in Reported(m.blocks) : j \in Int /\ j > m.ack

(* The socket that ProcessAck finds, and what it is told.                  *)
LEMMA AckTakenUp ==
  ASSUME NEW s, BaseOK(s), NEW m, NEW e \in Estimates \cup {SameRtt}, Acknowledges(m, s),
         SocketStates(s, s.buf.head), TimerOK(s, s.buf.head)
  PROVE  LET p == AckSocket(s, m)
             dup == AckSacked(s, m) # {}
         IN /\ BaseOK(p) /\ p.buf.head = m.ack /\ p.buf.high = s.buf.high
            /\ p.buf.sacked \subseteq s.buf.sacked \cup Reported(m.blocks)
            /\ p.timer = s.timer /\ p.out = s.out /\ p.prr = s.prr /\ p.w = s.w
            /\ p.congState = s.congState /\ p.dupAckCount = s.dupAckCount
            /\ p.recover = s.recover /\ p.recoverActive = s.recoverActive
            /\ p.closed = s.closed /\ p.dataRetrCount = s.dataRetrCount
            /\ SocketStates(p, s.buf.head) /\ TimerOK(p, s.buf.head)
            /\ AckNews(s, m, e) \in News /\ Fresh(p)
            /\ dup => m.ack < p.buf.high
            /\ s.buf.head \in Nat /\ s.buf.head <= p.buf.head
            /\ p.buf.retrans \subseteq s.buf.retrans
            /\ ~dup /\ m.ack = s.buf.head => p.buf = s.buf
<1> DEFINE b == Update(s.buf, m.blocks)
           sacked == AckSacked(s, m)
           covered == AckCovered(s, m)
           news == AckNews(s, m, e)
           c == AckBuffer(s, m)
           p == AckSocket(s, m)
           fresh == FreshIn(s.buf, Reported(m.blocks))
<1>2. /\ BufferOK(s.buf) /\ s.buf.head \notin s.buf.sacked /\ s.buf.head \in Nat
      /\ s.buf.high \in Nat /\ s.buf.high <= NumSegs + 1 /\ s.buf.head >= 1
      /\ m.ack \in Nat /\ s.buf.head <= m.ack /\ m.ack <= s.buf.high /\ NumSegs \in Nat
      /\ m.ack \in s.buf.head .. s.buf.high /\ m.ack \notin s.buf.sacked
      /\ \A j \in Reported(m.blocks) : j \in Int /\ j > m.ack
  BY BaseFacts, TxBufferAssumption DEF Acknowledges
<1>3. s.buf.head \notin Reported(m.blocks)
  BY <1>2
<1>4. /\ fresh \subseteq Reported(m.blocks) /\ fresh \subseteq SentList(s.buf)
  BY DEF FreshIn
<1>40. c = DiscardUpTo(b, m.ack) /\ sacked = b.sacked \ s.buf.sacked
       /\ covered = s.buf.head .. (m.ack - 1)
  BY DEF AckBuffer, AckSacked, AckCovered
<1> HIDE DEF b, fresh, sacked, covered
<1>5. /\ BufferOK(b) /\ b.head = s.buf.head /\ b.high = s.buf.high
      /\ b.sacked = s.buf.sacked \cup fresh /\ b.retrans = s.buf.retrans
      /\ b.sacked = s.buf.sacked => b = s.buf
  BY <1>2, <1>3, UpdateOK DEF b, fresh
<1>6. m.ack \notin b.sacked
  BY <1>2, <1>4, <1>5
<1> HIDE DEF c
<1>7. /\ BufferOK(c) /\ c.head = m.ack /\ c.high = s.buf.high
      /\ c.sacked = b.sacked \ covered /\ c.retrans \subseteq b.retrans
      /\ m.ack = b.head => c = b
  BY <1>2, <1>5, <1>6, <1>40, DiscardOK
<1>8. s \in Sockets /\ c \in Buffers /\ BytesInFlight(c) \in Nat
  BY <1>7, BufferFacts, PipeOK DEF BaseOK
<1>9. /\ p.buf = c /\ p.timer = s.timer /\ p.out = s.out /\ p.prr = s.prr /\ p.w = s.w
      /\ p.congState = s.congState /\ p.dupAckCount = s.dupAckCount
      /\ p.recover = s.recover /\ p.recoverActive = s.recoverActive
      /\ p.closed = s.closed /\ p.dataRetrCount = s.dataRetrCount /\ p \in Sockets
      /\ p.bytesInFlight = BytesInFlight(c)
  <2> DEFINE n == BytesInFlight(c)
  <2>1. p = [s EXCEPT !.buf = c, !.bytesInFlight = n] /\ n \in Nat
    BY <1>8 DEF AckSocket, c
  <2> HIDE DEF n, p
  <2>2. /\ p.buf = c /\ p.timer = s.timer /\ p.out = s.out /\ p.prr = s.prr /\ p.w = s.w
        /\ p.congState = s.congState /\ p.dupAckCount = s.dupAckCount
        /\ p.recover = s.recover /\ p.recoverActive = s.recoverActive
        /\ p.closed = s.closed /\ p.dataRetrCount = s.dataRetrCount /\ p \in Sockets
        /\ p.bytesInFlight = n
    BY <1>8, <2>1 DEF Sockets
  <2> QED
    BY <2>2 DEF n
<1> HIDE DEF p
<1>10. BaseOK(p)
  BY <1>6, <1>7, <1>9 DEF BaseOK, BufferOK
<1>11. SocketStates(p, s.buf.head) /\ TimerOK(p, s.buf.head)
  BY <1>7, <1>9, Zenon DEF SocketStates, TimerOK
<1>12. news \in News
  <2> DEFINE delivered == SegSize * (Cardinality(sacked) + Cardinality(covered \ b.sacked))
             again == /\ s.congState = "RECOVERY" /\ m.ack < s.recover
                      /\ \E i \in covered : IsRetransmitted(b, i)
  <2>1. sacked \subseteq Segs /\ covered \ b.sacked \subseteq Segs
    <3>1. b.sacked \subseteq Segs
      BY <1>5, BufferFacts
    <3>2. covered \subseteq Segs
      BY <1>2, <1>40 DEF Segs
    <3> QED
      BY <1>40, <3>1, <3>2
  <2>2. Cardinality(sacked) \in Nat /\ Cardinality(covered \ b.sacked) \in Nat
    BY <2>1, SegmentsCount
  <2>3. delivered \in Nat
    BY <2>2, ConstantAssumption
  <2>4. again \in BOOLEAN
    BY Zenon
  <2>5. news = [delivered |-> delivered, retransAcked |-> again, estimate |-> e]
    BY DEF AckNews, b, sacked, covered
  <2> HIDE DEF delivered, again, news
  <2> QED
    BY <2>3, <2>4, <2>5, Zenon DEF News
<1>14. sacked # {} => m.ack < s.buf.high
  <2> SUFFICES ASSUME sacked # {} PROVE m.ack < s.buf.high
    OBVIOUS
  <2>1. PICK j \in fresh : TRUE
    BY <1>5, <1>40
  <2>2. j \in Int /\ j > m.ack /\ j < s.buf.high
    BY <1>2, <1>4, <2>1 DEF SentList
  <2> QED
    BY <1>2, <2>2
<1>15. p.buf.sacked \subseteq s.buf.sacked \cup Reported(m.blocks)
  BY <1>4, <1>5, <1>7, <1>9
<1>16. /\ p.buf.retrans \subseteq s.buf.retrans
       /\ sacked = {} /\ m.ack = s.buf.head => p.buf = s.buf
  BY <1>5, <1>7, <1>9, <1>40
<1> QED
  BY <1>2, <1>7, <1>9, <1>10, <1>11, <1>12, <1>14, <1>15, <1>16 DEF p, news, sacked, Fresh

(* After ProcessAck.                                                       *)
LEMMA AckProcessedOK ==
  ASSUME NEW s, BaseOK(s), NEW m, NEW e \in Estimates \cup {SameRtt}, Acknowledges(m, s),
         SocketStates(s, s.buf.head), TimerOK(s, s.buf.head)
  PROVE  LET q == AckProcessed(s, m, e)
         IN /\ BaseOK(q) /\ Follows(q, AckSocket(s, m)) /\ q.buf.head = m.ack
            /\ TimerOK(q, q.buf.head) /\ SocketStates(q, q.buf.head)
            /\ q.buf = AckSocket(s, m).buf \/ Fits(q)
<1> DEFINE p == AckSocket(s, m)
           news == AckNews(s, m, e)
           dup == AckSacked(s, m) # {}
           q == AckProcessed(s, m, e)
<1>1. /\ BaseOK(p) /\ SocketStates(p, s.buf.head) /\ TimerOK(p, s.buf.head) /\ Fresh(p)
      /\ news \in News /\ p.buf.head = m.ack
      /\ s.buf.head \in Nat /\ s.buf.head <= p.buf.head
      /\ dup => p.buf.head < p.buf.high
  BY AckTakenUp
<1>2. dup \in BOOLEAN
  BY Zenon
<1>3. q = ProcessAck(p, p.buf.head, s.buf.head, dup, news)
  BY <1>1 DEF AckProcessed
<1> HIDE DEF p, news, dup, q
<1>4. /\ BaseOK(q) /\ Follows(q, p) /\ TimerOK(q, p.buf.head)
      /\ SocketStates(q, p.buf.head) /\ (q.buf = p.buf \/ Fits(q))
  BY <1>1, <1>2, <1>3, ProcessAckOK
<1>5. q.buf.head = p.buf.head
  BY <1>4 DEF Follows
<1> QED
  BY <1>1, <1>4, <1>5 DEF p, q

(* Whatever else it says: the socket is as before, and SND.UNA is its      *)
(* number.                                                                 *)
LEMMA ReceivedAckOK ==
  ASSUME NEW s, BaseOK(s), NEW m, NEW e \in Estimates \cup {SameRtt}, Acknowledges(m, s),
         SocketStates(s, s.buf.head), TimerOK(s, s.buf.head)
  PROVE  LET t == ReceivedAck(s, m, e)
         IN /\ BaseOK(t) /\ t.buf.head = m.ack /\ t.closed = s.closed
            /\ t.dataRetrCount \in {s.dataRetrCount, DataRetries}
            /\ t.buf.sacked \subseteq s.buf.sacked \cup Reported(m.blocks)
            /\ s.buf.high <= t.buf.high
            /\ TimerOK(t, m.ack) /\ SocketStates(t, m.ack)
<1> DEFINE p == AckSocket(s, m)
           q == AckProcessed(s, m, e)
           t == SendPendingData(q)
<1>1. /\ BaseOK(p) /\ p.buf.high = s.buf.high /\ p.closed = s.closed
      /\ p.dataRetrCount = s.dataRetrCount
      /\ p.buf.sacked \subseteq s.buf.sacked \cup Reported(m.blocks)
  BY AckTakenUp
<1> HIDE DEF p, q
<1>2. /\ BaseOK(q) /\ Follows(q, p) /\ q.buf.head = m.ack
      /\ TimerOK(q, q.buf.head) /\ SocketStates(q, q.buf.head)
  BY AckProcessedOK DEF p, q
<1> HIDE DEF t
<1>3. BaseOK(t) /\ Follows(t, q) /\ TimerOK(t, m.ack) /\ SocketStates(t, m.ack)
  <2>1. /\ q.timer => q.buf.head <= NumSegs
        /\ q.buf.head <= NumSegs => q.timer \/ SentCount(q) > 0
    BY <1>2 DEF TimerOK
  <2> QED
    BY <1>2, <2>1, PendingStates DEF t
<1>4. t.buf.head = m.ack /\ t.closed = s.closed /\ t.buf.sacked = p.buf.sacked
      /\ t.dataRetrCount \in {s.dataRetrCount, DataRetries}
  BY <1>1, <1>2, <1>3 DEF Follows
<1>5. s.buf.high <= t.buf.high
  <2>1. s.buf.high <= q.buf.high /\ q.buf.high <= t.buf.high
    BY <1>1, <1>2, <1>3 DEF Follows
  <2>2. s.buf.high \in Nat /\ q.buf.high \in Nat /\ t.buf.high \in Nat
    BY <1>2, <1>3, BaseFacts
  <2> QED
    BY <2>1, <2>2
<1> QED
  BY <1>1, <1>3, <1>4, <1>5, ReceivedAckIs DEF t, q

(* What it makes the socket send fits the window: whatever ProcessAck has  *)
(* not sent itself, SendPendingData sends when there is room.              *)
LEMMA ReceivedAckFits ==
  ASSUME NEW s, BaseOK(s), NEW m, NEW e \in Estimates \cup {SameRtt}, Acknowledges(m, s),
         SocketStates(s, s.buf.head), TimerOK(s, s.buf.head)
  PROVE  LET t == ReceivedAck(s, m, e)
         IN \/ t.buf.high = s.buf.high /\ t.buf.retrans \subseteq s.buf.retrans
            \/ Fits(t)
<1> DEFINE p == AckSocket(s, m)
           q == AckProcessed(s, m, e)
           t == SendPendingData(q)
<1>1. p.buf.high = s.buf.high /\ p.buf.retrans \subseteq s.buf.retrans
  BY AckTakenUp
<1> HIDE DEF p, q
<1>2. BaseOK(q) /\ (q.buf = p.buf \/ Fits(q))
  BY AckProcessedOK DEF p, q
<1> HIDE DEF t
<1>3. BaseOK(t) /\ t.w = q.w /\ SentCount(q) \in Nat
  BY <1>2, SendPendingOK, SentOK DEF t
<1>4. CASE SentCount(q) = 0
  <2>1. /\ t.buf.high = q.buf.high /\ t.buf.retrans = q.buf.retrans
        /\ BytesInFlight(t.buf) = BytesInFlight(q.buf)
    BY <1>2, <1>4, PendingFits DEF t
  <2>2. Fits(q) => Fits(t)
    BY <1>3, <2>1 DEF Fits
  <2> QED
    BY <1>1, <1>2, <2>1, <2>2, ReceivedAckIs DEF t, q
<1>5. CASE SentCount(q) > 0
  <2>1. BytesInFlight(t.buf) * SegSize <= t.w.cwnd
    BY <1>2, <1>5, PendingFits DEF t
  <2>2. /\ BytesInFlight(t.buf) * SegSize \in Nat /\ t.w.cwnd \in Nat /\ SegSize \in Nat
    BY <1>3, BaseFacts, PipeUnits, ConstantAssumption DEF Windows
  <2>3. Fits(t)
    BY <2>1, <2>2 DEF Fits
  <2> QED
    BY <2>3, ReceivedAckIs DEF t, q
<1> QED
  BY <1>3, <1>4, <1>5

(* After a time-out an acknowledgement of new data starts the count of     *)
(* retries again, whichever way it takes through ProcessAck; any other     *)
(* leaves the state.                                                       *)
LEMMA LossAcks ==
  ASSUME NEW s \in Sockets, s.congState = "LOSS", NEW ack \in Nat, NEW head \in Nat,
         NEW isDupack \in BOOLEAN, NEW news
  PROVE  LET t == ProcessAck(s, ack, head, isDupack, news)
         IN IF ack = head THEN t.congState = "LOSS" ELSE t.dataRetrCount = DataRetries
<1> DEFINE u == IF isDupack THEN s ELSE [s EXCEPT !.dupAckCount = 0]
           t == ProcessAck(s, ack, head, isDupack, news)
<1>1. DupAck(s, ack, news) = s
  BY DEF DupAck
<1>2. t = IF ack - head = 0 THEN s
          ELSE IF u.congState = "RECOVERY" /\ ack < u.recover THEN PartialAck(u, ack, news)
          ELSE IF u.congState = "LOSS" /\ ack < u.recover THEN LossAck(u, ack - head, news)
          ELSE FullAck(u, ack, ack - head, isDupack, news)
  <2>1. (IF isDupack THEN DupAck(s, ack, news) ELSE s) = s
    BY <1>1, Zenon
  <2> QED
    BY <2>1 DEF ProcessAck
<1>3. u.congState = "LOSS" /\ u \in Sockets
  BY DEF Sockets
<1> HIDE DEF u, t
<1>4. CASE ack = head
  BY <1>2, <1>4 DEF t
<1>5. CASE ack # head
  <2>1. ack - head # 0
    BY <1>5
  <2>2. CASE ack < u.recover
    <3>1. t = LossAck(u, ack - head, news)
      BY <1>2, <1>3, <2>1, <2>2
    <3>2. t.dataRetrCount = DataRetries
      BY <1>3, <3>1 DEF LossAck, NewAck, Sockets
    <3> QED
      BY <1>5, <3>2 DEF t
  <2>3. CASE ~(ack < u.recover)
    <3> DEFINE x == [u EXCEPT
              !.congState = IF @ = "DISORDER" /\ isDupack THEN @ ELSE "OPEN",
              !.isFirstPartialAck = @ \/ u.congState \in {"RECOVERY", "LOSS"},
              !.dupAckCount = IF u.congState = "RECOVERY" THEN 0 ELSE @,
              !.recoverActive = @ /\ ack < u.recover,
              !.w.cwnd = IF u.congState = "RECOVERY" THEN u.w.ssthresh ELSE @]
    <3>1. t = FullAck(u, ack, ack - head, isDupack, news)
      BY <1>2, <1>3, <2>1, <2>3
    <3>2. x.congState = "OPEN" /\ DOMAIN x = DOMAIN u /\ "dataRetrCount" \in DOMAIN u
      BY <1>3 DEF Sockets
    <3> HIDE DEF x
    <3> DEFINE y == [x EXCEPT !.w = IncreaseWindow(@, ack - u.recover, news.estimate)]
    <3>3. t = NewAck(y, TRUE)
      BY <1>3, <3>1, <3>2 DEF FullAck, x
    <3>4. "dataRetrCount" \in DOMAIN y
      BY <3>2
    <3> HIDE DEF y
    <3>5. t.dataRetrCount = DataRetries
      BY <3>3, <3>4 DEF NewAck
    <3> QED
      BY <1>5, <3>5 DEF t
  <2> QED
    BY <2>2, <2>3
<1> QED
  BY <1>4, <1>5 DEF t

(* The same of the whole of ReceivedAck.                                   *)
LEMMA AckAfterTimeout ==
  ASSUME NEW s, BaseOK(s), NEW m, NEW e \in Estimates \cup {SameRtt}, Acknowledges(m, s),
         SocketStates(s, s.buf.head), TimerOK(s, s.buf.head), s.congState = "LOSS"
  PROVE  LET t == ReceivedAck(s, m, e)
         IN IF m.ack = s.buf.head THEN t.congState = "LOSS"
            ELSE t.dataRetrCount = DataRetries
<1> DEFINE q == AckProcessed(s, m, e)
           t == SendPendingData(q)
<1>1. /\ BaseOK(AckSocket(s, m)) /\ AckSocket(s, m).congState = "LOSS"
      /\ s.buf.head \in Nat /\ m.ack \in Nat
  BY AckTakenUp DEF Acknowledges
<1>2. IF m.ack = s.buf.head THEN q.congState = "LOSS" ELSE q.dataRetrCount = DataRetries
  <2> DEFINE p == AckSocket(s, m)
             dup == AckSacked(s, m) # {}
             news == AckNews(s, m, e)
  <2>1. dup \in BOOLEAN
    BY Zenon
  <2>2. p \in Sockets /\ p.congState = "LOSS"
    BY <1>1 DEF BaseOK
  <2>3. q = ProcessAck(p, m.ack, s.buf.head, dup, news)
    BY DEF AckProcessed
  <2> HIDE DEF p, dup, news, q
  <2> QED
    BY <1>1, <2>1, <2>2, <2>3, LossAcks
<1> HIDE DEF q
<1>3. BaseOK(q)
  BY AckProcessedOK DEF q
<1> HIDE DEF t
<1>4. SameStates(t, q) /\ t.dataRetrCount = q.dataRetrCount
  BY <1>3, SendPendingOK DEF t
<1> QED
  BY <1>2, <1>4, ReceivedAckIs DEF SameStates, t, q

(* A time-out with a retry left: whatever state it finds, one segment is   *)
(* in flight after it, and that is the head.                               *)
LEMMA TimeoutOK ==
  ASSUME NEW s, BaseOK(s), s.buf.head <= NumSegs, ~GivesUp(s)
  PROVE  LET t == ReTxTimeout(s)
         IN /\ BaseOK(t) /\ t.buf.head = s.buf.head /\ t.buf.sacked = s.buf.sacked
            /\ s.buf.high <= t.buf.high /\ t.closed = s.closed
            /\ TimerOK(t, s.buf.head) /\ SocketStates(t, s.buf.head)
            /\ BytesInFlight(t.buf) = 1
            /\ s.buf.head \in t.buf.retrans \cup {s.buf.high}
            /\ t.out[s.buf.head] >= 1 /\ t.congState = "LOSS"
            /\ t.dataRetrCount = s.dataRetrCount - 1 /\ Idles(t)
<1> DEFINE b == SetSentListLost(s.buf)
           th == IF s.congState # "LOSS" \/ b.head \notin b.retrans
                 THEN GetSsThresh(s.w) ELSE s.w.ssthresh
           w == [s.w EXCEPT !.ssthresh = th, !.cwnd = SegSize]
           n == s.dataRetrCount - 1
           u == [s EXCEPT !.buf = b, !.dataRetrCount = n, !.dupAckCount = 0,
                          !.recover = b.high, !.recoverActive = TRUE,
                          !.congState = "LOSS", !.timer = FALSE, !.w = w]
           t == SendPendingData(u)
<1>1. /\ s \in Sockets /\ s.w \in Windows /\ s.buf.head \in Nat /\ s.buf.high \in Nat
      /\ s.buf.high \in 1..(NumSegs + 1) /\ s.buf.head <= s.buf.high
  BY BaseFacts DEF BaseOK
<1>2. ReTxTimeout(s) = t
  <2>1. [s EXCEPT !.buf = b, !.dataRetrCount = @ - 1, !.dupAckCount = 0,
                  !.recover = b.high, !.recoverActive = TRUE,
                  !.congState = "LOSS", !.timer = FALSE,
                  !.w.ssthresh = IF s.congState # "LOSS" \/ b.head \notin b.retrans
                                 THEN GetSsThresh(s.w) ELSE @,
                  !.w.cwnd = SegSize] = u
    BY <1>1 DEF Sockets, Windows
  <2> HIDE DEF u
  <2> QED
    BY <2>1 DEF ReTxTimeout
<1> HIDE DEF b
<1>3. /\ BufferOK(b) /\ SameSacks(b, s.buf) /\ b.high = s.buf.high
      /\ BytesInFlight(b) = 0 /\ LostSegs(b) = SentList(s.buf) \ s.buf.sacked
  BY BaseFacts, SetLostOK DEF b
<1>4. th \in Nat
  BY <1>1, ThresholdOK DEF Windows
<1> HIDE DEF th
<1>5. w \in Windows /\ w.cwnd = SegSize
  BY <1>1, <1>4, ConstantAssumption DEF Windows
<1>6. n \in 0..DataRetries
  <2>1. s.dataRetrCount \in 0..DataRetries /\ s.dataRetrCount # 0
    BY <1>1 DEF GivesUp, Sockets
  <2> QED
    BY <2>1, SenderAssumption
<1>7. b \in Buffers /\ b.high \in 1..(NumSegs + 1)
  BY <1>1, <1>3 DEF BufferOK
<1> HIDE DEF w, n
<1>8. /\ u.buf = b /\ u.timer = FALSE /\ u.out = s.out /\ u.w = w
      /\ u.congState = "LOSS" /\ u.dupAckCount = 0
      /\ u.recover = b.high /\ u.recoverActive = TRUE
      /\ u.closed = s.closed /\ u.dataRetrCount = n
  BY <1>1 DEF Sockets
<1>9. u \in Sockets
  <2>1. 0 \in Nat /\ TRUE \in BOOLEAN /\ FALSE \in BOOLEAN
        /\ "LOSS" \in {"OPEN", "DISORDER", "RECOVERY", "LOSS"}
    OBVIOUS
  <2> QED
    BY <1>1, <1>5, <1>6, <1>7, <2>1, Zenon DEF Sockets
<1> HIDE DEF u
<1>10. BaseOK(u)
  BY <1>3, <1>8, <1>9, BaseFacts DEF BaseOK, BufferOK, SameSacks
<1>11. Room(u) = 1
  BY <1>3, <1>5, <1>8, <1>10, RoomOK
<1>12. /\ u.buf.head = s.buf.head /\ u.buf.high = s.buf.high
       /\ LostSegs(u.buf) = SentList(u.buf) \ u.buf.sacked
       /\ u.buf.sacked = s.buf.sacked
  BY <1>3, <1>8 DEF SameSacks, SentList
<1>13. /\ SentCount(u) = 1 /\ (s.buf.head < s.buf.high => s.buf.head \in SentLost(u))
       /\ s.buf.head \in SentLost(u) \cup SentNew(u)
  <2>1. CASE s.buf.head < s.buf.high
    BY <1>8, <1>10, <1>11, <1>12, <2>1, SendsHead
  <2>2. CASE s.buf.head = s.buf.high
    BY <1>1, <1>8, <1>10, <1>11, <1>12, <2>2, SendsFirst
  <2> QED
    BY <1>1, <2>1, <2>2
<1> HIDE DEF t
<1>14. /\ BaseOK(t) /\ Follows(t, u) /\ TimerOK(t, u.buf.head)
       /\ SocketStates(t, u.buf.head)
  <2>1. SocketStates(u, u.buf.head)
    <3>1. u.buf.head <= u.recover /\ u.recover <= u.buf.high
      BY <1>1, <1>3, <1>8, <1>12
    <3> QED
      BY <1>8, <3>1 DEF SocketStates
  <2>2. u.timer => u.buf.head <= NumSegs
    BY <1>8
  <2>3. u.buf.head <= NumSegs => u.timer \/ SentCount(u) > 0
    BY <1>13
  <2> QED
    BY <1>10, <2>1, <2>2, <2>3, PendingStates DEF t
<1>15. /\ BytesInFlight(t.buf) = BytesInFlight(u.buf) + SentCount(u)
       /\ t.buf.retrans = u.buf.retrans \cup SentLost(u) \cup SentRescue(u)
       /\ \A i \in SentLost(u) \cup SentNew(u) : t.out[i] >= 1
       /\ t.dataRetrCount = u.dataRetrCount /\ SameStates(t, u)
  BY <1>10, SendPendingOK DEF t
<1>16. BytesInFlight(t.buf) = 1
  BY <1>3, <1>8, <1>13, <1>15
<1>17. s.buf.head \in t.buf.retrans \cup {s.buf.high}
  BY <1>1, <1>13, <1>15
<1>18. /\ t.buf.head = s.buf.head /\ t.buf.sacked = s.buf.sacked
       /\ s.buf.high <= t.buf.high /\ t.closed = s.closed
  BY <1>8, <1>12, <1>14 DEF Follows
<1>19. /\ t.out[s.buf.head] >= 1 /\ t.congState = "LOSS"
       /\ t.dataRetrCount = s.dataRetrCount - 1
  <2>1. t.out[s.buf.head] >= 1
    BY <1>13, <1>15, Zenon
  <2>2. t.congState = "LOSS"
    BY <1>8, <1>15 DEF SameStates
  <2>3. t.dataRetrCount = n
    BY <1>8, <1>15
  <2> QED
    BY <2>1, <2>2, <2>3 DEF n
<1>20. Idles(t)
  BY <1>10, PendingIdles DEF t
<1> QED
  BY <1>2, <1>12, <1>14, <1>16, <1>17, <1>18, <1>19, <1>20

(* The socket before the first segment is sent, and after.                 *)
LEMMA NewSocketOK ==
  LET t == SendPendingData(NewSocket)
  IN BaseOK(t) /\ t.buf.head = 1 /\ t.buf.sacked = {} /\ t.closed = FALSE
     /\ TimerOK(t, 1) /\ SocketStates(t, 1) /\ t.dataRetrCount = DataRetries
     /\ Idles(t)
<1> DEFINE s == NewSocket
           t == SendPendingData(s)
<1>1. NumSegs \in Nat \ {0} /\ DataRetries \in 0..DataRetries /\ KRounds \in 0..KRounds
      /\ 1 \in 1..(NumSegs + 1) /\ 0 \in 0..NumSegs
  BY TxBufferAssumption, SenderAssumption, ConstantAssumption
<1>2. EmptyBuffer \in Buffers
  BY <1>1 DEF EmptyBuffer, Buffers
<1>3. /\ SentList(EmptyBuffer) = {} /\ EmptyBuffer.head = 1 /\ EmptyBuffer.high = 1
      /\ EmptyBuffer.sacked = {} /\ EmptyBuffer.lost = {} /\ EmptyBuffer.retrans = {}
      /\ EmptyBuffer.sackedOut = 0 /\ EmptyBuffer.lostOut = 0 /\ EmptyBuffer.retransOut = 0
  BY DEF EmptyBuffer, SentList
<1>4. ConsistencyCheck(EmptyBuffer)
  BY <1>3, FS_EmptySet DEF ConsistencyCheck
<1>5. None \in [Segs -> Nat] /\ \A i \in Segs : None[i] = 0
  BY DEF None
<1>6. NewReduction(0) \in Reductions
  BY DEF NewReduction, Reductions
<1>7. [cwnd |-> InitialCwnd, ssthresh |-> InitialSsThresh, k_rounds |-> KRounds] \in Windows
  BY <1>1, SenderAssumption DEF Windows
<1>8. /\ s.buf = EmptyBuffer /\ s.timer = FALSE /\ s.out = None /\ s.w.cwnd = InitialCwnd
      /\ s.congState = "OPEN" /\ s.dupAckCount = 0 /\ s.recoverActive = FALSE
      /\ s.closed = FALSE /\ s.dataRetrCount = DataRetries
  BY DEF NewSocket
<1>9. s \in Sockets
  <2> HIDE DEF s
  <2> DEFINE w == [cwnd |-> InitialCwnd, ssthresh |-> InitialSsThresh, k_rounds |-> KRounds]
  <2>1. s = [congState |-> "OPEN", buf |-> EmptyBuffer, bytesInFlight |-> 0,
             w |-> w, prr |-> NewReduction(0),
             dupAckCount |-> 0, recover |-> 1, recoverActive |-> FALSE,
             isFirstPartialAck |-> TRUE, dataRetrCount |-> DataRetries,
             timer |-> FALSE, closed |-> FALSE, out |-> None]
    BY DEF s, NewSocket
  <2>2. w \in Windows
    BY <1>7
  <2> HIDE DEF w
  <2> QED
    BY <1>1, <1>2, <1>5, <1>6, <2>1, <2>2 DEF Sockets
<1> HIDE DEF s
<1>10. BaseOK(s)
  <2>1. LostBelow(EmptyBuffer)
    BY <1>3 DEF LostBelow
  <2> QED
    BY <1>3, <1>4, <1>5, <1>8, <1>9, <2>1 DEF BaseOK
<1>11. SocketStates(s, s.buf.head) /\ s.buf.head = 1 /\ s.buf.high = 1
  BY <1>3, <1>8 DEF SocketStates
<1>12. SentCount(s) > 0
  <2>1. BytesInFlight(s.buf) = 0
    BY <1>3, <1>8 DEF BytesInFlight, SentSize
  <2>2. Room(s) >= 1
    BY <1>8, <1>10, <2>1, RoomOK, SenderAssumption
  <2>3. SentCount(s) >= 1
    BY <1>1, <1>10, <1>11, <2>2, SendsFirst
  <2>4. SentCount(s) \in Nat
    BY <1>10, SentOK
  <2> QED
    BY <2>3, <2>4
<1> HIDE DEF t
<1>13. BaseOK(t) /\ Follows(t, s) /\ TimerOK(t, s.buf.head) /\ SocketStates(t, s.buf.head)
  BY <1>8, <1>10, <1>11, <1>12, PendingStates DEF t
<1> QED
  BY <1>3, <1>8, <1>10, <1>11, <1>13, PendingIdles DEF Follows, t, s

-----------------------------------------------------------------------------
(* The pace of recovery.  What a socket will have sent in a reduction when *)
(* SendPendingData has filled the window, at most.                         *)
Reach(s) == s.prr.out + AtLeast(0, s.w.cwnd - BytesInFlight(s.buf) * SegSize)

(* The bounds of RecoveryIsPaced for that much, in a reduction that was    *)
(* `was` before the step.                                                  *)
Paced(was, sent, s) ==
  \/ sent <= s.prr.delivered + SegSize
  \/ sent - was.out <= s.prr.delivered - was.delivered
                         + (IF was.out <= s.prr.delivered THEN SegSize ELSE 0)
  \/ /\ s.w.cwnd > s.w.ssthresh
     /\ sent <= CeilDiv(s.prr.delivered * s.w.ssthresh, s.prr.flight) + SegSize

(* The numbers in them.                                                    *)
LEMMA PaceFacts ==
  ASSUME NEW s, BaseOK(s), s.prr.flight > 0
  PROVE  /\ s.prr.out \in Nat /\ s.prr.delivered \in Nat /\ s.prr.flight \in Nat \ {0}
         /\ s.w.cwnd \in Nat /\ s.w.ssthresh \in Nat /\ SegSize \in Nat /\ SegSize > 0
         /\ BytesInFlight(s.buf) \in Nat /\ BytesInFlight(s.buf) * SegSize \in Nat
         /\ Reach(s) \in Nat /\ s.prr.out <= Reach(s)
         /\ CeilDiv(s.prr.delivered * s.w.ssthresh, s.prr.flight) \in Nat
<1>1. /\ s.prr.out \in Nat /\ s.prr.delivered \in Nat /\ s.prr.flight \in Nat \ {0}
      /\ s.w.cwnd \in Nat /\ s.w.ssthresh \in Nat /\ SegSize \in Nat /\ SegSize > 0
  BY BaseFacts, ConstantAssumption DEF Windows, Reductions
<1>2. BytesInFlight(s.buf) \in Nat /\ BytesInFlight(s.buf) * SegSize \in Nat
  BY BaseFacts, PipeOK, PipeUnits
<1>3. Reach(s) \in Nat /\ s.prr.out <= Reach(s)
  <2> DEFINE x == s.w.cwnd - BytesInFlight(s.buf) * SegSize
  <2>1. x \in Int
    BY <1>1, <1>2
  <2>2. Reach(s) = s.prr.out + AtLeast(0, x)
    BY DEF Reach
  <2> HIDE DEF x
  <2> QED
    BY <1>1, <2>1, <2>2 DEF AtLeast
<1>4. CeilDiv(s.prr.delivered * s.w.ssthresh, s.prr.flight) \in Nat
  <2> DEFINE a == s.prr.delivered * s.w.ssthresh
  <2>1. a \in Nat
    BY <1>1
  <2> HIDE DEF a
  <2>2. CeilDiv(a, s.prr.flight) \in Nat
    BY <1>1, <2>1, ConstantAssumption, ShareGrows
  <2> QED
    BY <2>2 DEF a
<1> QED
  BY <1>1, <1>2, <1>3, <1>4

(* A bound on more is a bound on less.                                     *)
LEMMA PacedLess ==
  ASSUME NEW s, BaseOK(s), s.prr.flight > 0, NEW was \in Reductions,
         NEW a \in Int, NEW b \in Int, a <= b, Paced(was, b, s)
  PROVE  Paced(was, a, s)
<1> DEFINE c == CeilDiv(s.prr.delivered * s.w.ssthresh, s.prr.flight)
           more == IF was.out <= s.prr.delivered THEN SegSize ELSE 0
<1>1. /\ s.prr.delivered \in Nat /\ SegSize \in Nat /\ c \in Nat
      /\ was.out \in Nat /\ was.delivered \in Nat
  BY PaceFacts DEF Reductions
<1>2. more \in Nat
  BY <1>1
<1> HIDE DEF c, more
<1>3. \/ b <= s.prr.delivered + SegSize
      \/ b - was.out <= s.prr.delivered - was.delivered + more
      \/ s.w.cwnd > s.w.ssthresh /\ b <= c + SegSize
  BY DEF Paced, c, more
<1>4. \/ a <= s.prr.delivered + SegSize
      \/ a - was.out <= s.prr.delivered - was.delivered + more
      \/ s.w.cwnd > s.w.ssthresh /\ a <= c + SegSize
  BY <1>1, <1>2, <1>3
<1> QED
  BY <1>4 DEF Paced, c, more

(* The window of DoRecovery lets out a first segment, or one of the limits *)
(* of the send count.                                                      *)
LEMMA RecoveryReach ==
  ASSUME NEW s, BaseOK(s), s.prr.flight > 0, NEW news \in News, Asked(s)
  PROVE  LET t == DoRecovery(s, news)
         IN /\ t.prr.out = s.prr.out /\ t.prr.flight = s.prr.flight
            /\ t.prr.delivered = s.prr.delivered + news.delivered
            /\ \/ s.prr.out = 0 /\ Reach(t) <= SegSize
               \/ Reach(t) <= s.prr.out + news.delivered
               \/ /\ t.w.cwnd > t.w.ssthresh
                  /\ Reach(t) <= CeilDiv(t.prr.delivered * t.w.ssthresh, t.prr.flight)
               \/ news.retransAcked /\ Reach(t) <= t.prr.delivered + SegSize
               \/ /\ news.retransAcked /\ s.prr.out <= t.prr.delivered
                  /\ Reach(t) <= s.prr.out + news.delivered + SegSize
<1> DEFINE t == DoRecovery(s, news)
           n == s.bytesInFlight * SegSize
           k == SendCount(t.prr, s.w, n, news.delivered, news.retransAcked)
<1>1. /\ BaseOK(t) /\ t.buf = s.buf /\ t.prr = AfterDelivery(s.prr, news.delivered)
      /\ t.w = RecoveryWindow(t.prr, s.w, n, news.delivered, news.retransAcked)
  BY DoRecoveryOK
<1>2. news.delivered \in Nat /\ news.retransAcked \in BOOLEAN
  BY Zenon DEF News
<1>3. /\ t.prr.out = s.prr.out /\ t.prr.flight = s.prr.flight
      /\ t.prr.delivered = s.prr.delivered + news.delivered
      /\ s.w \in Windows /\ s.prr \in Reductions
  BY <1>1, BaseFacts DEF AfterDelivery, Reductions
<1>4. n \in Nat /\ t.prr \in Reductions
  BY <1>1, BaseFacts, ConstantAssumption
<1> HIDE DEF t, n
<1>5. t.w.ssthresh = s.w.ssthresh /\ t.w.cwnd = n + k /\ k \in Nat
  BY DoRecoveryOK DEF t, n
<1> DEFINE c == CeilDiv(t.prr.delivered * t.w.ssthresh, t.prr.flight)
<1>6. \/ t.prr.out = 0 /\ k = SegSize
      \/ k <= 0
      \/ n > s.w.ssthresh /\ t.prr.out + k <= c
      \/ ~news.retransAcked /\ k <= news.delivered
      \/ news.retransAcked /\ t.prr.out + k <= t.prr.delivered + SegSize
      \/ /\ news.retransAcked /\ t.prr.out <= t.prr.delivered
         /\ k <= news.delivered + SegSize
  <2>1. t.prr.flight > 0
    BY <1>3
  <2> QED
    BY <1>2, <1>3, <1>4, <1>5, <2>1, SendCountBound
<1> HIDE DEF k, c
<1>7. s.prr.out \in Nat /\ s.w.ssthresh \in Nat /\ SegSize \in Nat /\ t.w.cwnd \in Nat
  BY PaceFacts, <1>4, <1>5
<1>8. Reach(t) \in Int /\ Reach(t) <= s.prr.out + k
  <2> DEFINE f == BytesInFlight(s.buf)
             g == s.bytesInFlight
             q == f * SegSize
  <2>1. f \in {g, g + 1} /\ g \in Nat
    BY BaseFacts DEF Asked, Fresh
  <2>2. q \in Nat /\ n <= q
    <3> HIDE DEF f, g
    <3>1. (g + 1) * SegSize = g * SegSize + SegSize /\ g * SegSize \in Nat /\ SegSize \in Nat
      BY <1>7, <2>1
    <3>2. n = g * SegSize
      BY DEF n, g
    <3>3. CASE f = g
      BY <3>1, <3>2, <3>3
    <3>4. CASE f = g + 1
      <4>1. q = n + SegSize
        BY <3>1, <3>2, <3>4
      <4> QED
        BY <3>1, <3>2, <4>1
    <3> QED
      BY <2>1, <3>3, <3>4
  <2>3. Reach(t) = s.prr.out + AtLeast(0, (n + k) - q)
    BY <1>1, <1>3, <1>5 DEF Reach
  <2> HIDE DEF q
  <2> QED
    BY <1>4, <1>5, <1>7, <2>2, <2>3 DEF AtLeast
<1>9. t.prr.delivered \in Nat /\ c \in Nat
  BY <1>1, <1>3, <1>4, PaceFacts DEF Reductions, c
<1>10. \/ s.prr.out = 0 /\ Reach(t) <= SegSize
       \/ Reach(t) <= s.prr.out + news.delivered
       \/ t.w.cwnd > t.w.ssthresh /\ Reach(t) <= c
       \/ news.retransAcked /\ Reach(t) <= t.prr.delivered + SegSize
       \/ /\ news.retransAcked /\ s.prr.out <= t.prr.delivered
          /\ Reach(t) <= s.prr.out + news.delivered + SegSize
  BY <1>2, <1>3, <1>4, <1>5, <1>6, <1>7, <1>8, <1>9
<1> QED
  BY <1>3, <1>10 DEF t, c

(* The retransmission of DoRetransmit comes out of the window, unless it   *)
(* sends again what has been retransmitted before.                         *)
LEMMA RetransmitReach ==
  ASSUME NEW s, BaseOK(s), s.buf.head <= NumSegs, s.prr.flight > 0,
         s.congState = "RECOVERY"
  PROVE  LET t == DoRetransmit(s)
         IN /\ BaseOK(t) /\ t.w = s.w /\ t.prr.flight = s.prr.flight
            /\ t.prr.delivered = s.prr.delivered /\ t.prr.out = s.prr.out + SegSize
            /\ Reach(t) <= Reach(s) + SegSize
            /\ s.buf.head \notin s.buf.retrans =>
                 Reach(t) <= Reach(s) \/ Reach(t) = s.prr.out + SegSize
<1> DEFINE t == DoRetransmit(s)
           n == BytesInFlight(s.buf)
           m == BytesInFlight(t.buf)
<1>1. /\ BaseOK(t) /\ t.w = s.w /\ t.prr.flight = s.prr.flight
      /\ t.prr.delivered = s.prr.delivered /\ t.prr.out = s.prr.out + SegSize
      /\ m \in {n, n + 1} /\ (s.buf.head \notin s.buf.retrans => m = n + 1)
  BY DoRetransmitOK DEF SameStates
<1>2. /\ s.prr.out \in Nat /\ s.w.cwnd \in Nat /\ SegSize \in Nat /\ SegSize > 0 /\ n \in Nat
      /\ n * SegSize \in Nat
  BY PaceFacts
<1>3. /\ Reach(t) = t.prr.out + AtLeast(0, t.w.cwnd - m * SegSize)
      /\ Reach(s) = s.prr.out + AtLeast(0, s.w.cwnd - n * SegSize)
  BY DEF Reach
<1> HIDE DEF t, n, m
<1>4. (n + 1) * SegSize = n * SegSize + SegSize
  BY <1>2
<1>5. m * SegSize = n * SegSize \/ m * SegSize = n * SegSize + SegSize
  BY <1>1, <1>4
<1>6. s.buf.head \notin s.buf.retrans => m * SegSize = n * SegSize + SegSize
  BY <1>1, <1>4
<1> DEFINE p == n * SegSize
           q == m * SegSize
<1>7. p \in Nat /\ q \in {p, p + SegSize}
  BY <1>2, <1>5
<1>8. s.buf.head \notin s.buf.retrans => q = p + SegSize
  BY <1>6
<1>9. /\ Reach(t) = s.prr.out + SegSize + AtLeast(0, s.w.cwnd - q)
      /\ Reach(s) = s.prr.out + AtLeast(0, s.w.cwnd - p)
  BY <1>1, <1>3
<1> HIDE DEF p, q
<1>10. Reach(t) <= Reach(s) + SegSize
  BY <1>2, <1>7, <1>9 DEF AtLeast
<1>11. q = p + SegSize => Reach(t) <= Reach(s) \/ Reach(t) = s.prr.out + SegSize
  BY <1>2, <1>7, <1>9 DEF AtLeast
<1> QED
  BY <1>1, <1>8, <1>10, <1>11 DEF t
(* What Paced looks at.                                                    *)
LEMMA PacedSame ==
  ASSUME NEW s, NEW t, NEW was, NEW a, t.w = s.w,
         t.prr.delivered = s.prr.delivered, t.prr.flight = s.prr.flight, Paced(was, a, s)
  PROVE  Paced(was, a, t)
BY DEF Paced

(* What an acknowledgement in recovery finds: the reduction as it was, or   *)
(* the one that the same acknowledgement began.                            *)
Began(was, s, news) ==
  \/ was.out = s.prr.out /\ was.delivered <= s.prr.delivered
  \/ /\ ~news.retransAcked /\ s.prr.out = SegSize
     /\ s.prr.delivered = news.delivered /\ news.delivered >= SegSize

(* A delivery in recovery keeps the pace of the reduction it began with,   *)
(* or of none when the reduction began with the same acknowledgement.  So  *)
(* does one segment more than was sent, when one was delivered.            *)
LEMMA RecoveryPace ==
  ASSUME NEW s, BaseOK(s), s.prr.flight > 0, NEW news \in News,
         NEW was \in Reductions, Began(was, s, news), Asked(s)
  PROVE  LET t == DoRecovery(s, news)
         IN /\ Paced(was, Reach(t), t)
            /\ news.delivered >= SegSize => Paced(was, s.prr.out + SegSize, t)
<1> DEFINE t == DoRecovery(s, news)
           c == CeilDiv(t.prr.delivered * t.w.ssthresh, t.prr.flight)
           d == news.delivered
           more == IF was.out <= t.prr.delivered THEN SegSize ELSE 0
<1>1. BaseOK(t) /\ t.prr.flight > 0
  BY DoRecoveryOK, RecoveryReach
<1>2. /\ t.prr.delivered = s.prr.delivered + d
      /\ \/ s.prr.out = 0 /\ Reach(t) <= SegSize
         \/ Reach(t) <= s.prr.out + d
         \/ t.w.cwnd > t.w.ssthresh /\ Reach(t) <= c
         \/ news.retransAcked /\ Reach(t) <= t.prr.delivered + SegSize
         \/ /\ news.retransAcked /\ s.prr.out <= t.prr.delivered
            /\ Reach(t) <= s.prr.out + d + SegSize
  BY RecoveryReach
<1>3. d \in Nat
  BY Zenon DEF News
<1>4. /\ s.prr.out \in Nat /\ s.prr.delivered \in Nat /\ SegSize \in Nat /\ SegSize > 0
      /\ t.prr.delivered \in Nat /\ Reach(t) \in Nat /\ was.out \in Nat /\ was.delivered \in Nat
  BY <1>1, PaceFacts DEF Reductions
<1>5. c \in Nat
  BY <1>1, PaceFacts
<1> HIDE DEF t, c, d
<1>6. \/ was.out = s.prr.out /\ was.delivered <= s.prr.delivered
      \/ /\ ~news.retransAcked /\ s.prr.out = SegSize
         /\ s.prr.delivered = d /\ d >= SegSize
  BY DEF Began, d
<1>7. more \in Nat /\ (was.out <= t.prr.delivered => more = SegSize)
  BY <1>4
<1> HIDE DEF more
<1>8. \/ Reach(t) <= t.prr.delivered + SegSize
      \/ Reach(t) - was.out <= t.prr.delivered - was.delivered + more
      \/ t.w.cwnd > t.w.ssthresh /\ Reach(t) <= c + SegSize
  BY <1>2, <1>3, <1>4, <1>5, <1>6, <1>7
<1>9. d >= SegSize => \/ s.prr.out + SegSize <= t.prr.delivered + SegSize
                      \/ s.prr.out + SegSize - was.out <= t.prr.delivered - was.delivered + more
  BY <1>2, <1>3, <1>4, <1>6, <1>7
<1>10. Paced(was, Reach(t), t)
  BY <1>8 DEF Paced, c, more
<1> DEFINE e == s.prr.out + SegSize
<1>11. ASSUME d >= SegSize PROVE Paced(was, e, t)
  <2>1. e <= t.prr.delivered + SegSize \/ e - was.out <= t.prr.delivered - was.delivered + more
    BY <1>3, <1>4, <1>7, <1>9, <1>11
  <2> HIDE DEF e
  <2> QED
    BY <2>1 DEF Paced, more
<1> QED
  BY <1>10, <1>11 DEF t, d

(* A new reduction: the first delivery, and the fast retransmission.       *)
LEMMA EntryPace ==
  ASSUME NEW s, BaseOK(s), s.buf.head < s.buf.high, NEW news \in News,
         ~news.retransAcked, news.delivered >= SegSize
  PROVE  LET t == EnterRecovery(s, news)
         IN /\ t.prr.out = SegSize /\ t.prr.delivered = news.delivered
            /\ \A was : Paced(was, Reach(t), t)
<1> DEFINE u == Entered(s)
           v == DoRecovery(u, news)
           t == EnterRecovery(s, news)
           c == CeilDiv(v.prr.delivered * v.w.ssthresh, v.prr.flight)
<1>1. BaseOK(u) /\ u.congState = "RECOVERY" /\ u.prr.flight > 0
      /\ u.prr.out = 0 /\ u.prr.delivered = 0 /\ Asked(u)
  BY EnteredOK DEF Asked
<1>2. t = DoRetransmit(v) /\ BaseOK(v) /\ v.buf.head <= NumSegs
  BY EnterRecoveryOK
<1>3. news.delivered \in Nat
  BY Zenon DEF News
<1> HIDE DEF u, t
<1>4. v.congState = "RECOVERY"
  BY <1>1, DoRecoveryOK DEF SameStates
<1>5. /\ v.prr.out = 0 /\ v.prr.flight = u.prr.flight /\ v.prr.delivered = 0 + news.delivered
      /\ \/ Reach(v) <= SegSize
         \/ Reach(v) <= 0 + news.delivered
         \/ v.w.cwnd > v.w.ssthresh /\ Reach(v) <= c
  BY <1>1, RecoveryReach
<1> HIDE DEF v
<1>6. /\ t.w = v.w /\ t.prr.flight = v.prr.flight
      /\ t.prr.delivered = v.prr.delivered /\ t.prr.out = v.prr.out + SegSize
      /\ Reach(t) <= Reach(v) + SegSize /\ BaseOK(t)
  BY <1>1, <1>2, <1>4, <1>5, RetransmitReach
<1>7. /\ SegSize \in Nat /\ Reach(v) \in Nat /\ Reach(t) \in Nat /\ c \in Nat
  BY <1>1, <1>2, <1>5, <1>6, PaceFacts
<1> HIDE DEF c
<1>8. \/ Reach(t) <= t.prr.delivered + SegSize
      \/ v.w.cwnd > v.w.ssthresh /\ Reach(t) <= c + SegSize
  BY <1>3, <1>5, <1>6, <1>7
<1>9. c = CeilDiv(t.prr.delivered * t.w.ssthresh, t.prr.flight)
  BY <1>6 DEF c
<1>10. \A was : Paced(was, Reach(t), t)
  BY <1>6, <1>8, <1>9 DEF Paced
<1>11. t.prr.out = SegSize /\ t.prr.delivered = news.delivered
  BY <1>3, <1>5, <1>6, <1>7
<1> QED
  BY <1>10, <1>11 DEF t

(* A partial acknowledgement, with or without a retransmission.            *)
LEMMA PartialAckPace ==
  ASSUME NEW s, BaseOK(s), NEW news \in News, news.delivered >= SegSize,
         s.congState = "RECOVERY", s.prr.flight > 0, s.buf.head < s.buf.high,
         NEW was \in Reductions, Began(was, s, news), Asked(s)
  PROVE  LET t == PartialAck(s, s.buf.head, news)
         IN Paced(was, Reach(t), t)
<1> DEFINE r == DoRecovery(s, news)
           u == IF IsRetransmitted(r.buf, s.buf.head) THEN r ELSE DoRetransmit(r)
           v == NewAck(u, u.isFirstPartialAck)
           t == [v EXCEPT !.isFirstPartialAck = FALSE]
<1>1. PartialAck(s, s.buf.head, news) = t
  BY DEF PartialAck
<1>2. /\ BaseOK(r) /\ r.congState = "RECOVERY" /\ r.buf = s.buf
      /\ r.prr.flight > 0 /\ r.prr.out = s.prr.out
  BY DoRecoveryOK, RecoveryReach DEF SameStates
<1>3. Paced(was, Reach(r), r) /\ Paced(was, s.prr.out + SegSize, r)
  BY RecoveryPace
<1> HIDE DEF r
<1>4. Paced(was, Reach(u), u) /\ BaseOK(u)
  <2>1. CASE IsRetransmitted(r.buf, s.buf.head)
    BY <1>2, <1>3, <2>1
  <2>2. CASE ~IsRetransmitted(r.buf, s.buf.head)
    <3>1. r.buf.head <= NumSegs /\ r.buf.head \notin r.buf.retrans
      <4>1. s.buf.head <= NumSegs
        BY BaseFacts, TxBufferAssumption
      <4>2. s.buf.head \in SentList(s.buf) /\ s.buf.head \notin s.buf.sacked
        BY BaseFacts DEF SentList
      <4> QED
        BY <1>2, <2>2, <4>1, <4>2 DEF IsRetransmitted
    <3> DEFINE x == DoRetransmit(r)
    <3>2. /\ x.w = r.w /\ x.prr.flight = r.prr.flight /\ BaseOK(x)
          /\ x.prr.delivered = r.prr.delivered
          /\ Reach(x) <= Reach(r) \/ Reach(x) = s.prr.out + SegSize
      BY <1>2, <3>1, RetransmitReach
    <3>3. u = x
      BY <2>2
    <3> HIDE DEF x, u
    <3>4. Reach(x) \in Int /\ Reach(r) \in Int
      BY <1>2, <3>2, PaceFacts
    <3>5. Paced(was, Reach(x), r)
      BY <1>2, <1>3, <3>2, <3>4, PacedLess
    <3> QED
      BY <3>2, <3>3, <3>5, PacedSame
  <2> QED
    BY <2>1, <2>2
<1>5. u.isFirstPartialAck \in BOOLEAN
  BY <1>4 DEF BaseOK, Sockets
<1> HIDE DEF u
<1>6. BaseOK(v) /\ v.buf = u.buf /\ v.w = u.w /\ v.prr = u.prr
  BY <1>4, <1>5, NewAckOK
<1> HIDE DEF v
<1>7. t.buf = u.buf /\ t.w = u.w /\ t.prr = u.prr
  BY <1>6 DEF BaseOK, Sockets
<1> HIDE DEF t
<1>8. Reach(t) = Reach(u)
  BY <1>7 DEF Reach
<1> QED
  BY <1>1, <1>4, <1>7, <1>8, PacedSame DEF t

(* The reduction a socket is in, or none.                                  *)
Was(s) == IF s.congState = "RECOVERY" THEN s.prr ELSE NewReduction(0)

(* A duplicate: the pace is kept, and a partial acknowledgement after it   *)
(* is told the truth about the reduction.                                  *)
LEMMA DupAckPace ==
  ASSUME NEW s, BaseOK(s), s.buf.head < s.buf.high, NEW news \in News,
         NEW head \in Nat, head <= s.buf.head, SocketStates(s, head),
         news.delivered >= SegSize, s.congState # "RECOVERY" => ~news.retransAcked,
         Fresh(s)
  PROVE  LET t == DupAck(s, s.buf.head, news)
         IN t.congState = "RECOVERY" => Paced(Was(s), Reach(t), t) /\ Began(Was(s), t, news)
<1> DEFINE t == DupAck(s, s.buf.head, news)
           u == [s EXCEPT !.dupAckCount = s.dupAckCount + 1, !.congState = "DISORDER"]
<1>1. s \in Sockets /\ s.prr \in Reductions /\ s.dupAckCount \in Nat
  BY BaseFacts DEF BaseOK, Sockets
<1>2. CASE s.congState = "RECOVERY"
  <2>1. t = DoRecovery(s, news) /\ s.prr.flight > 0 /\ Was(s) = s.prr /\ Asked(s)
    BY <1>2 DEF DupAck, SocketStates, Was, Asked
  <2>2. Began(s.prr, s, news)
    BY <1>1 DEF Began, Reductions
  <2> HIDE DEF t
  <2>3. Paced(s.prr, Reach(t), t)
    BY <1>1, <2>1, <2>2, RecoveryPace
  <2>4. t.prr.out = s.prr.out /\ t.prr.delivered = s.prr.delivered + news.delivered
    BY <2>1, RecoveryReach
  <2>5. Began(s.prr, t, news)
    <3>1. s.prr.delivered \in Nat /\ news.delivered \in Nat
      BY <1>1 DEF Reductions, News
    <3> QED
      BY <2>4, <3>1 DEF Began
  <2> QED
    BY <2>1, <2>3, <2>5 DEF t
<1>3. CASE s.congState # "RECOVERY"
  <2>1. t.congState = "RECOVERY" => t = EnterRecovery(u, news)
    BY <1>1, <1>3 DEF DupAck, Sockets
  <2>2. u.buf = s.buf /\ u.out = s.out
    BY <1>1 DEF Sockets
  <2>3. u \in Sockets
    <3> DEFINE n == s.dupAckCount + 1
    <3>1. n \in Nat
      BY <1>1
    <3> HIDE DEF n
    <3>2. [s EXCEPT !.dupAckCount = n, !.congState = "DISORDER"] \in Sockets
      BY <1>1, <3>1, Zenon DEF Sockets
    <3> QED
      BY <3>2 DEF n
  <2> HIDE DEF t, u
  <2>4. BaseOK(u)
    BY <2>2, <2>3 DEF BaseOK
  <2> DEFINE x == EnterRecovery(u, news)
  <2>5. /\ x.prr.out = SegSize /\ x.prr.delivered = news.delivered
        /\ \A was : Paced(was, Reach(x), x)
    BY <1>3, <2>2, <2>4, EntryPace
  <2> HIDE DEF x
  <2>6. Began(Was(s), x, news) /\ Paced(Was(s), Reach(x), x)
    BY <1>3, <2>5 DEF Began
  <2>7. t.congState = "RECOVERY" => Paced(Was(s), Reach(t), t) /\ Began(Was(s), t, news)
    BY <2>1, <2>6 DEF x
  <2> QED
    BY <2>7 DEF t
<1> QED
  BY <1>2, <1>3

(* So an acknowledgement either brings nothing, or leaves the socket out   *)
(* of recovery or with the pace kept.                                      *)
LEMMA ProcessAckPace ==
  ASSUME NEW s, BaseOK(s), NEW head \in Nat, head <= s.buf.head,
         NEW isDupack \in BOOLEAN, NEW news \in News,
         isDupack => s.buf.head < s.buf.high,
         SocketStates(s, head), TimerOK(s, head),
         isDupack \/ s.buf.head # head => news.delivered >= SegSize,
         s.congState # "RECOVERY" => ~news.retransAcked, Fresh(s)
  PROVE  LET t == ProcessAck(s, s.buf.head, head, isDupack, news)
         IN t.congState = "RECOVERY" =>
              \/ ~isDupack /\ s.buf.head = head /\ t = s
              \/ Paced(Was(s), Reach(t), t)
<1> DEFINE ack == s.buf.head
           d == IF isDupack THEN DupAck(s, ack, news) ELSE s
           u == IF isDupack THEN d ELSE [d EXCEPT !.dupAckCount = 0]
           acked == ack - head
           t == ProcessAck(s, ack, head, isDupack, news)
<1>1. /\ s \in Sockets /\ ack \in Nat /\ s.buf.high \in Nat /\ s.buf.high <= NumSegs + 1
      /\ NumSegs \in Nat /\ s.timer \in BOOLEAN
  BY BaseFacts, TxBufferAssumption DEF BaseOK
<1>2. isDupack => s.timer = TRUE
  BY <1>1 DEF TimerOK
<1>3. t = IF acked = 0 THEN d
          ELSE IF u.congState = "RECOVERY" /\ ack < u.recover THEN PartialAck(u, ack, news)
          ELSE IF u.congState = "LOSS" /\ ack < u.recover THEN LossAck(u, acked, news)
          ELSE FullAck(u, ack, acked, isDupack, news)
  BY DEF ProcessAck
<1>4. Was(s) \in Reductions
  <2>1. NewReduction(0) \in Reductions
    BY DEF NewReduction, Reductions
  <2> QED
    BY <2>1, BaseFacts DEF Was
<1> HIDE DEF t, d
<1>5. /\ BaseOK(d) /\ Follows(d, s) /\ SocketStates(d, head)
      /\ isDupack => d.congState # "OPEN" /\ d.timer = TRUE
      /\ ~isDupack => d = s
      /\ Asked(d)
      /\ isDupack /\ d.congState = "RECOVERY" =>
           Paced(Was(s), Reach(d), d) /\ Began(Was(s), d, news)
  <2>1. CASE isDupack
    <3>1. d = DupAck(s, s.buf.head, news)
      BY <2>1 DEF d
    <3> QED
      BY <1>2, <2>1, <3>1, DupAckOK, DupAckPace
  <2>2. CASE ~isDupack
    <3>1. d = s
      BY <2>2 DEF d
    <3> QED
      BY <1>1, <2>2, <3>1 DEF Follows, Asked
  <2> QED
    BY <2>1, <2>2
<1>6. CASE acked = 0
  <2>1. t = d /\ head = ack
    BY <1>1, <1>3, <1>6
  <2> QED
    BY <1>5, <2>1 DEF t
<1>7. CASE acked # 0
  <2>1. d.timer = TRUE /\ head # ack
    <3>1. head < ack /\ head <= NumSegs
      BY <1>1, <1>7, BaseFacts
    <3>2. s.timer = TRUE
      BY <1>1, <3>1 DEF TimerOK
    <3> QED
      BY <1>1, <1>5, <3>1, <3>2
  <2>2. d \in Sockets
    BY <1>5 DEF BaseOK
  <2> HIDE DEF u
  <2>3. /\ u.buf = d.buf /\ u.timer = TRUE /\ u.out = d.out /\ u.prr = d.prr
        /\ u.congState = d.congState /\ u.recover = d.recover
        /\ u.recoverActive = d.recoverActive
        /\ u.dupAckCount = IF isDupack THEN d.dupAckCount ELSE 0
        /\ u.bytesInFlight = d.bytesInFlight
    BY <2>1, <2>2 DEF Sockets, u
  <2>4. u \in Sockets
    BY <2>2, Zenon DEF Sockets, u
  <2>5. BaseOK(u) /\ u.buf.head = ack
    BY <1>5, <2>3, <2>4 DEF BaseOK, Follows
  <2>6. /\ u.recover \in Nat /\ u.buf.high \in Nat /\ u.recoverActive \in BOOLEAN
        /\ u.congState \in {"OPEN", "DISORDER", "RECOVERY", "LOSS"}
    BY <2>4, <2>5, BaseFacts DEF Sockets
  <2>7. MiddleStates(u, isDupack)
    BY <1>5, <2>3 DEF MiddleStates, SocketStates
  <2>8. /\ u.congState \in {"RECOVERY", "LOSS"} => u.recoverActive /\ u.recover <= u.buf.high
        /\ u.congState = "RECOVERY" => u.prr.flight > 0
    BY <1>5, <2>3 DEF SocketStates
  <2>9. acked \in Int
    BY <1>1
  <2>10. CASE u.congState = "RECOVERY" /\ ack < u.recover
    <3>1. t = PartialAck(u, u.buf.head, news)
      BY <1>3, <1>7, <2>5, <2>10
    <3>2. Began(Was(s), u, news)
      <4>1. CASE isDupack
        BY <1>5, <2>3, <2>10, <4>1 DEF Began
      <4>2. CASE ~isDupack
        <5>1. u.prr = s.prr /\ Was(s) = s.prr
          BY <1>5, <2>3, <2>10, <4>2 DEF Was
        <5>2. s.prr.delivered \in Nat
          BY BaseFacts DEF Reductions
        <5> QED
          BY <5>1, <5>2 DEF Began
      <4> QED
        BY <4>1, <4>2
    <3>3. u.buf.head < u.buf.high /\ news.delivered >= SegSize
      BY <1>1, <2>1, <2>5, <2>6, <2>8, <2>10
    <3>5. Asked(u)
      BY <1>5, <2>3 DEF Asked, Fresh
    <3>4. Paced(Was(s), Reach(t), t)
      BY <3>5, <1>4, <2>5, <2>8, <2>10, <3>1, <3>2, <3>3, PartialAckPace
    <3> QED
      BY <3>4 DEF t
  <2>11. CASE u.congState = "LOSS" /\ ack < u.recover
    <3>1. t = LossAck(u, acked, news)
      BY <1>3, <1>7, <2>11
    <3>2. u.dupAckCount = 0
      BY <2>7, <2>11 DEF MiddleStates
    <3>3. t.congState = "LOSS"
      BY <2>5, <2>8, <2>9, <2>11, <3>1, <3>2, LossAckOK
    <3> QED
      BY <3>3 DEF t
  <2>12. CASE ~(u.congState \in {"RECOVERY", "LOSS"} /\ ack < u.recover)
    <3>1. t = FullAck(u, u.buf.head, acked, isDupack, news)
      BY <1>3, <1>7, <2>5, <2>12
    <3>2. u.congState \in {"RECOVERY", "LOSS"} => u.recover <= u.buf.head
      BY <1>1, <2>5, <2>6, <2>12
    <3>3. BaseOK(u) /\ u.timer = TRUE /\ (isDupack => u.buf.head <= NumSegs)
      BY <1>1, <2>3, <2>5
    <3> DEFINE x == FullAck(u, u.buf.head, acked, isDupack, news)
    <3>4. x.congState # "RECOVERY"
      BY <2>7, <2>9, <3>2, <3>3, FullAckOK
    <3> QED
      BY <3>1, <3>4 DEF t
  <2> QED
    BY <2>10, <2>11, <2>12
<1> QED
  BY <1>6, <1>7

-----------------------------------------------------------------------------
(* What SendPendingData sends stays within the reach of the reduction.     *)
LEMMA PendingReach ==
  ASSUME NEW s, BaseOK(s), s.congState = "RECOVERY", s.prr.flight > 0
  PROVE  LET t == SendPendingData(s)
         IN t.prr.out \in Nat /\ t.prr.out <= Reach(s)
<1> DEFINE t == SendPendingData(s)
           n == BytesInFlight(s.buf)
           k == SentCount(s)
           z == SegSize
<1>1. /\ t.w = s.w /\ BytesInFlight(t.buf) = n + k /\ t.prr.out = s.prr.out + k * z
  BY SendPendingOK
<1>2. /\ s.prr.out \in Nat /\ n \in Nat /\ n * z \in Nat /\ s.w.cwnd \in Nat /\ z \in Nat
      /\ s.prr.out <= Reach(s) /\ Reach(s) \in Nat /\ k \in Nat
  BY PaceFacts, SentOK
<1>3. k > 0 => (n + k) * z <= s.w.cwnd
  BY <1>1, PendingFits
<1>4. Reach(s) = s.prr.out + AtLeast(0, s.w.cwnd - n * z)
  BY DEF Reach
<1> HIDE DEF t, n, k, z
<1>5. k = 0 \/ k > 0
  BY <1>2
<1>6. (n + k) * z = n * z + k * z /\ k * z \in Nat
  BY <1>2
<1>7. k = 0 => k * z = 0
  BY <1>2
<1> DEFINE p == n * z
           q == k * z
<1>8. /\ p \in Nat /\ q \in Nat /\ (k > 0 => p + q <= s.w.cwnd) /\ (k = 0 => q = 0)
      /\ t.prr.out = s.prr.out + q /\ Reach(s) = s.prr.out + AtLeast(0, s.w.cwnd - p)
  BY <1>1, <1>2, <1>3, <1>4, <1>6, <1>7
<1> HIDE DEF p, q
<1>9. t.prr.out \in Nat /\ t.prr.out <= Reach(s)
  BY <1>2, <1>5, <1>8 DEF AtLeast
<1> QED
  BY <1>9 DEF t

(* An acknowledgement that reports or covers something delivers at least a *)
(* segment, and only in recovery one that was retransmitted.               *)
LEMMA AckDelivers ==
  ASSUME NEW s, BaseOK(s), NEW m, NEW e \in Estimates \cup {SameRtt}, Acknowledges(m, s)
  PROVE  /\ AckSacked(s, m) # {} \/ m.ack # s.buf.head => AckNews(s, m, e).delivered >= SegSize
         /\ s.congState # "RECOVERY" => ~AckNews(s, m, e).retransAcked
<1> DEFINE b == Update(s.buf, m.blocks)
           X == AckSacked(s, m)
           Y == AckCovered(s, m) \ b.sacked
           x == Cardinality(X)
           y == Cardinality(Y)
           fresh == FreshIn(s.buf, Reported(m.blocks))
<1>1. /\ BufferOK(s.buf) /\ s.buf.head \notin s.buf.sacked /\ s.buf.head \in Nat
      /\ s.buf.high <= NumSegs + 1 /\ s.buf.head >= 1 /\ s.buf.high \in Nat
      /\ m.ack \in Nat /\ s.buf.head <= m.ack /\ m.ack <= s.buf.high /\ NumSegs \in Nat
      /\ \A j \in Reported(m.blocks) : j \in Int /\ j > m.ack
  BY BaseFacts, TxBufferAssumption DEF Acknowledges
<1>2. s.buf.head \notin Reported(m.blocks)
  BY <1>1
<1>3. BufferOK(b) /\ b.sacked = s.buf.sacked \cup fresh /\ fresh \subseteq Reported(m.blocks)
  BY <1>1, <1>2, UpdateOK DEF FreshIn
<1>4. X \subseteq Segs /\ Y \subseteq Segs
  <2>1. b.sacked \subseteq Segs
    BY <1>3, BufferFacts
  <2>2. AckCovered(s, m) \subseteq Segs
    BY <1>1 DEF AckCovered, Segs
  <2> QED
    BY <2>1, <2>2 DEF AckSacked
<1>5. AckNews(s, m, e).delivered = SegSize * (x + y)
  BY DEF AckNews
<1>6. m.ack # s.buf.head => s.buf.head \in Y
  <2>1. m.ack # s.buf.head => s.buf.head \in AckCovered(s, m)
    BY <1>1 DEF AckCovered
  <2> HIDE DEF b, fresh
  <2> QED
    BY <1>1, <1>2, <1>3, <2>1
<1> HIDE DEF b, X, Y, fresh
<1>7. /\ x \in Nat /\ y \in Nat /\ (X # {} => x >= 1) /\ (Y # {} => y >= 1)
  <2>1. x \in Nat /\ y \in Nat /\ IsFiniteSet(X) /\ IsFiniteSet(Y)
    BY <1>4, SegmentsCount
  <2>2. (x = 0 <=> X = {}) /\ (y = 0 <=> Y = {})
    BY <2>1, FS_EmptySet
  <2> HIDE DEF x, y
  <2> QED
    BY <2>1, <2>2
<1> HIDE DEF x, y
<1>8. X # {} \/ m.ack # s.buf.head => x + y >= 1
  BY <1>6, <1>7
<1>9. x + y >= 1 => SegSize * (x + y) >= SegSize
  <2> DEFINE k == x + y
  <2>1. k \in Nat
    BY <1>7
  <2> HIDE DEF k
  <2>2. k >= 1 => SegSize * k >= SegSize
    BY <2>1, ConstantAssumption
  <2> QED
    BY <2>2 DEF k
<1>10. s.congState # "RECOVERY" => ~AckNews(s, m, e).retransAcked
  BY DEF AckNews
<1> QED
  BY <1>5, <1>8, <1>9, <1>10 DEF X

(* The send count looks at the buffer, the window and the state.           *)
LEMMA SentCountSame ==
  ASSUME NEW s, NEW t, t.buf = s.buf, t.w = s.w, t.congState = s.congState
  PROVE  SentCount(t) = SentCount(s)
<1>1. Room(t) = Room(s)
  BY DEF Room
<1>2. SentLost(t) = SentLost(s)
  BY <1>1 DEF SentLost
<1>3. SentNew(t) = SentNew(s)
  BY <1>1, <1>2 DEF SentNew
<1>4. BufferThen(t) = BufferThen(s)
  BY <1>2, <1>3 DEF BufferThen
<1>5. SentRescue(t) = SentRescue(s)
  BY <1>1, <1>2, <1>3, <1>4 DEF SentRescue
<1> QED
  BY <1>2, <1>3, <1>5 DEF SentCount

(* The whole handler keeps the pace: what ProcessAck leaves to be sent is  *)
(* within it, and an acknowledgement that brings nothing makes a socket    *)
(* that idles send nothing.                                                *)
LEMMA ReceivedAckPace ==
  ASSUME NEW s, BaseOK(s), NEW m, NEW e \in Estimates \cup {SameRtt}, Acknowledges(m, s),
         SocketStates(s, s.buf.head), TimerOK(s, s.buf.head), Idles(s)
  PROVE  LET t == ReceivedAck(s, m, e)
         IN /\ Idles(t)
            /\ t.congState = "RECOVERY" => Paced(Was(s), t.prr.out, t)
<1> DEFINE p == AckSocket(s, m)
           news == AckNews(s, m, e)
           dup == AckSacked(s, m) # {}
           q == AckProcessed(s, m, e)
           t == SendPendingData(q)
<1>1. /\ BaseOK(p) /\ SocketStates(p, s.buf.head) /\ TimerOK(p, s.buf.head) /\ Fresh(p)
      /\ news \in News /\ p.buf.head = m.ack
      /\ s.buf.head \in Nat /\ s.buf.head <= p.buf.head
      /\ dup => p.buf.head < p.buf.high
      /\ p.prr = s.prr /\ p.w = s.w /\ p.congState = s.congState
      /\ ~dup /\ m.ack = s.buf.head => p.buf = s.buf
  BY AckTakenUp
<1>2. /\ dup \/ p.buf.head # s.buf.head => news.delivered >= SegSize
      /\ p.congState # "RECOVERY" => ~news.retransAcked
  BY <1>1, AckDelivers
<1>3. q = ProcessAck(p, p.buf.head, s.buf.head, dup, news)
  BY <1>1 DEF AckProcessed
<1>4. dup \in BOOLEAN
  BY Zenon
<1>5. BaseOK(q) /\ SocketStates(q, q.buf.head)
  BY AckProcessedOK
<1> HIDE DEF p, news, dup, q
<1>6. q.congState = "RECOVERY" =>
        \/ ~dup /\ p.buf.head = s.buf.head /\ q = p
        \/ Paced(Was(p), Reach(q), q)
  BY <1>1, <1>2, <1>3, <1>4, ProcessAckPace
<1>7. /\ BaseOK(t) /\ t.congState = q.congState /\ t.w = q.w /\ t.prr.flight = q.prr.flight
      /\ t.prr.delivered = q.prr.delivered
      /\ q.congState = "RECOVERY" => t.prr.out = q.prr.out + SentCount(q) * SegSize
  BY <1>5, SendPendingOK DEF SameStates
<1>8. Idles(t)
  BY <1>5, PendingIdles
<1> HIDE DEF t
<1>9. ASSUME q.congState = "RECOVERY" PROVE Paced(Was(s), t.prr.out, t)
  <2>1. Was(p) = Was(s) /\ Was(s) \in Reductions
    <3>1. NewReduction(0) \in Reductions
      BY DEF NewReduction, Reductions
    <3> QED
      BY <1>1, <3>1, BaseFacts DEF Was
  <2>2. q.prr.flight > 0
    BY <1>5, <1>9 DEF SocketStates
  <2>3. CASE ~dup /\ p.buf.head = s.buf.head /\ q = p
    <3>1. SentCount(q) = 0
      BY <1>1, <2>3, SentCountSame DEF Idles
    <3>2. /\ q.prr.out \in Nat /\ q.prr.delivered \in Nat /\ SegSize \in Nat
      BY <1>5, <2>2, PaceFacts
    <3>3. t.prr.out = q.prr.out
      BY <1>7, <1>9, <3>1, <3>2
    <3>4. Was(s) = q.prr
      BY <1>1, <1>9, <2>3 DEF Was
    <3> DEFINE more == IF q.prr.out <= q.prr.delivered THEN SegSize ELSE 0
    <3>5. q.prr.out - q.prr.out <= q.prr.delivered - q.prr.delivered + more
      BY <3>2
    <3> HIDE DEF more
    <3>6. t.prr.out - Was(s).out <= t.prr.delivered - Was(s).delivered + more
      BY <1>7, <3>3, <3>4, <3>5
    <3>7. more = IF Was(s).out <= t.prr.delivered THEN SegSize ELSE 0
      BY <1>7, <3>4 DEF more
    <3> QED
      BY <3>6, <3>7 DEF Paced
  <2>4. CASE Paced(Was(p), Reach(q), q)
    <3>1. t.prr.out \in Nat /\ t.prr.out <= Reach(q) /\ Reach(q) \in Nat
      BY <1>5, <1>9, <2>2, PendingReach, PaceFacts DEF t
    <3> DEFINE o == t.prr.out
    <3>2. o \in Int /\ Reach(q) \in Int /\ o <= Reach(q)
      BY <3>1
    <3> HIDE DEF o
    <3>3. Paced(Was(s), o, q)
      BY <1>5, <2>1, <2>2, <2>4, <3>2, PacedLess
    <3> QED
      BY <1>7, <3>3, PacedSame DEF o
  <2> QED
    BY <1>6, <1>9, <2>3, <2>4
<1> QED
  BY <1>7, <1>8, <1>9, ReceivedAckIs DEF t, q
=============================================================================
