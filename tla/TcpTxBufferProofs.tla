------------------------- MODULE TcpTxBufferProofs -------------------------
(***************************************************************************)
(* The operations of the scoreboard keep it consistent, for a stream of    *)
(* any length and any threshold of duplicates.                             *)
(***************************************************************************)
EXTENDS TcpTxBuffer, FiniteSetTheorems, WellFoundedInduction, TLAPS

BufferOK(b) == b \in Buffers /\ ConsistencyCheck(b) /\ LostBelow(b)

(* The sets of segments are small enough to be counted.                    *)
LEMMA SegmentsCount ==
  ASSUME NEW S, S \subseteq Segs
  PROVE  IsFiniteSet(S) /\ Cardinality(S) \in 0..NumSegs
<1>1. IsFiniteSet(Segs) /\ Cardinality(Segs) = NumSegs
  BY TxBufferAssumption, FS_Interval DEF Segs
<1>2. IsFiniteSet(S) /\ Cardinality(S) <= Cardinality(Segs)
  BY <1>1, FS_Subset
<1>3. Cardinality(S) \in Nat
  BY <1>2, FS_CardinalityType
<1> QED
  BY <1>1, <1>2, <1>3, TxBufferAssumption

(* Parts of a set of segments, counted.                                    *)
LEMMA JoinCount ==
  ASSUME NEW S, S \subseteq Segs, NEW T, T \subseteq Segs
  PROVE  /\ Cardinality(S \cup T) = Cardinality(S) + Cardinality(T) - Cardinality(S \cap T)
         /\ Cardinality(S \ T) = Cardinality(S) - Cardinality(S \cap T)
         /\ S \cap T = {} => Cardinality(S \cap T) = 0
<1>1. IsFiniteSet(S) /\ IsFiniteSet(T) /\ IsFiniteSet(S \cap T) /\ IsFiniteSet(S \ T)
  BY SegmentsCount
<1>2. /\ Cardinality(S) \in Nat /\ Cardinality(T) \in Nat
      /\ Cardinality(S \cap T) \in Nat /\ Cardinality(S \ T) \in Nat
  BY <1>1, FS_CardinalityType
<1>3. Cardinality(S \cup T) = Cardinality(S) + Cardinality(T) - Cardinality(S \cap T)
  BY <1>1, FS_Union
<1>4. Cardinality((S \ T) \cup (S \cap T))
        = Cardinality(S \ T) + Cardinality(S \cap T) - Cardinality((S \ T) \cap (S \cap T))
  BY <1>1, FS_Union
<1>5. (S \ T) \cup (S \cap T) = S /\ (S \ T) \cap (S \cap T) = {}
  OBVIOUS
<1>6. Cardinality((S \ T) \cap (S \cap T)) = 0
  BY <1>5, FS_EmptySet
<1>7. Cardinality(S) = Cardinality(S \ T) + Cardinality(S \cap T)
  BY <1>2, <1>4, <1>5, <1>6
<1>8. S \cap T = {} => Cardinality(S \cap T) = 0
  BY FS_EmptySet
<1> QED
  BY <1>2, <1>3, <1>7, <1>8

(* One segment more or less, counted.                                      *)
LEMMA OneCount ==
  ASSUME NEW S, S \subseteq Segs, NEW i
  PROVE  /\ Cardinality(S \cup {i}) = IF i \in S THEN Cardinality(S) ELSE Cardinality(S) + 1
         /\ Cardinality(S \ {i}) = IF i \in S THEN Cardinality(S) - 1 ELSE Cardinality(S)
BY SegmentsCount, FS_AddElement, FS_RemoveElement

(* A set of numbers has a least one: what NextSeg and the loop that sends  *)
(* take first.                                                             *)
LEMMA LeastExists ==
  ASSUME NEW S, S \subseteq Nat, S # {}
  PROVE  Min(S) \in S /\ \A x \in S : Min(S) <= x
<1> DEFINE Upto(x) == {y \in S : y <= x}
           T == {Upto(x) : x \in S}
<1>1. T \subseteq FiniteSubsetsOf(S)
  <2> SUFFICES ASSUME NEW x \in S PROVE Upto(x) \subseteq S /\ IsFiniteSet(Upto(x))
    BY DEF FiniteSubsetsOf
  <2>1. Upto(x) \in SUBSET Nat /\ x \in Nat /\ \A y \in Upto(x) : y <= x
    OBVIOUS
  <2>2. IsFiniteSet(Upto(x))
    BY <2>1, FS_BoundedSetOfNaturals
  <2> QED
    BY <2>2
<1>2. T # {}
  OBVIOUS
<1>3. PICK U \in T : \A V \in T : ~ (<<V, U>> \in StrictSubsetOrdering(S))
  <2> HIDE DEF T
  <2> QED
    BY <1>1, <1>2, FS_StrictSubsetOrderingWellFounded, WFMin
<1>4. PICK x \in S : U = Upto(x)
  OBVIOUS
<1>5. ASSUME NEW y \in S, y < x PROVE FALSE
  <2>0. y \in Nat /\ x \in Nat /\ U = {z \in S : z <= x}
    BY <1>4
  <2>1. Upto(y) \in T /\ Upto(y) \subseteq U /\ x \in U /\ x \notin Upto(y)
    <3>1. Upto(y) \in T
      OBVIOUS
    <3>2. Upto(y) \subseteq U
      <4> SUFFICES ASSUME NEW z \in S, z <= y PROVE z <= x
        BY <2>0
      <4> QED
        BY <2>0, <1>5
    <3>3. x \in U /\ x \notin Upto(y)
      BY <2>0, <1>5
    <3> QED
      BY <3>1, <3>2, <3>3
  <2>2. <<Upto(y), U>> \in (SUBSET S) \X (SUBSET S)
    BY <1>4
  <2>3. <<Upto(y), U>> \in StrictSubsetOrdering(S)
    BY <2>1, <2>2, Zenon DEF StrictSubsetOrdering
  <2> QED
    BY <1>3, <2>1, <2>3
<1>6. \A y \in S : x <= y
  BY <1>5
<1> QED
  BY <1>6 DEF Min

(* Some segments have a greatest one: what m_highestSack is set to.        *)
LEMMA LargestExists ==
  ASSUME NEW S, S \subseteq Segs, S # {}
  PROVE  Max(S) \in S /\ \A x \in S : x <= Max(S)
<1> DEFINE D == {NumSegs - x : x \in S}
<1>0. NumSegs \in Int /\ \A x \in S : x \in Int /\ NumSegs - x \in Nat
  BY TxBufferAssumption DEF Segs
<1>1. D \subseteq Nat /\ D # {}
  BY <1>0
<1>2. Min(D) \in D /\ \A d \in D : Min(D) <= d
  <2> HIDE DEF D
  <2> QED
    BY <1>1, LeastExists
<1>3. PICK x \in S : Min(D) = NumSegs - x
  BY <1>2
<1>4. \A y \in S : x >= y
  <2> SUFFICES ASSUME NEW y \in S PROVE x >= y
    OBVIOUS
  <2>1. NumSegs - y \in D
    OBVIOUS
  <2>2. NumSegs - x <= NumSegs - y
    BY <1>2, <1>3, <2>1
  <2> QED
    BY <1>0, <2>2
<1>5. Max(S) \in S /\ \A y \in S : Max(S) >= y
  BY <1>4 DEF Max
<1> QED
  BY <1>0, <1>5

-----------------------------------------------------------------------------
(* A consistent buffer is what its flags make it, and a record with such   *)
(* flags is a consistent buffer.                                           *)
LEMMA BufferFacts ==
  ASSUME NEW b, BufferOK(b)
  PROVE  /\ b \in Buffers
         /\ b.head \in 1..(NumSegs + 1) /\ b.high \in 1..(NumSegs + 1) /\ b.head <= b.high
         /\ SentList(b) \subseteq Segs
         /\ b.sacked \subseteq SentList(b) /\ b.lost \subseteq SentList(b)
         /\ b.retrans \subseteq SentList(b)
         /\ b.sacked \subseteq Segs /\ b.lost \subseteq Segs /\ b.retrans \subseteq Segs
         /\ b.sacked \cap b.lost = {}
         /\ b.sackedOut = Cardinality(b.sacked) /\ b.lostOut = Cardinality(b.lost)
         /\ b.retransOut = Cardinality(b.retrans)
         /\ b.highestSack \in 0..NumSegs
         /\ LostBelow(b)
<1>1. b \in Buffers /\ ConsistencyCheck(b) /\ LostBelow(b)
  BY DEF BufferOK
<1>2. SentList(b) \subseteq Segs
  BY <1>1, TxBufferAssumption DEF Buffers, SentList, Segs
<1> QED
  BY <1>1, <1>2 DEF Buffers, ConsistencyCheck

Shapes ==
  [head : 1..(NumSegs + 1), high : 1..(NumSegs + 1),
   sacked : SUBSET Segs, lost : SUBSET Segs, retrans : SUBSET Segs,
   sackedOut : Int, lostOut : Int, retransOut : Int, highestSack : 0..NumSegs]

(* A buffer is a record of its fields, the counters any numbers.           *)
LEMMA BufferShape == Buffers \subseteq Shapes
BY DEF Buffers, Shapes

(* Counters that agree with the flags are in their range.                  *)
LEMMA BufferBuilt ==
  ASSUME NEW b \in Shapes, ConsistencyCheck(b), LostBelow(b)
  PROVE  BufferOK(b)
<1>1. /\ b.sackedOut \in 0..NumSegs /\ b.lostOut \in 0..NumSegs
      /\ b.retransOut \in 0..NumSegs
  <2>1. b.sacked \subseteq Segs /\ b.lost \subseteq Segs /\ b.retrans \subseteq Segs
    BY DEF Shapes
  <2> QED
    BY <2>1, SegmentsCount DEF ConsistencyCheck
<1>2. b \in Buffers
  BY <1>1 DEF Buffers, Shapes
<1> QED
  BY <1>2 DEF BufferOK

SameSacks(c, b) == c.head = b.head /\ c.sacked = b.sacked

(* A segment sent again: counted once, however often.                      *)
LEMMA TransmittedOK ==
  ASSUME NEW b, BufferOK(b), NEW i \in SentList(b)
  PROVE  LET c == GetTransmittedSegment(b, i)
         IN /\ BufferOK(c) /\ SameSacks(c, b) /\ c.high = b.high
            /\ BytesInFlight(c) = BytesInFlight(b) + (IF i \in b.retrans THEN 0 ELSE 1)
<1> DEFINE c == GetTransmittedSegment(b, i)
           R == b.retrans \cup {i}
           n == IF i \in b.retrans THEN b.retransOut ELSE b.retransOut + 1
<1>1. /\ b \in Shapes /\ i \in Segs /\ b.retrans \subseteq Segs
      /\ b.retransOut = Cardinality(b.retrans) /\ R \in SUBSET Segs
  BY BufferFacts, BufferShape
<1>2. n = Cardinality(R)
  <2>1. Cardinality(R) = IF i \in b.retrans THEN Cardinality(b.retrans)
                         ELSE Cardinality(b.retrans) + 1
    BY <1>1, OneCount
  <2> QED
    BY <1>1, <2>1
<1>3. n \in Int
  BY <1>1, <1>2, SegmentsCount
<1>4. c = [b EXCEPT !.retrans = R, !.retransOut = n] /\ R \subseteq SentList(b)
  BY BufferFacts DEF GetTransmittedSegment
<1> HIDE DEF c, R, n
<1>5. c \in Shapes
  BY <1>1, <1>3, <1>4, Zenon DEF Shapes
<1>6. /\ c.head = b.head /\ c.high = b.high /\ c.sacked = b.sacked /\ c.lost = b.lost
      /\ c.sackedOut = b.sackedOut /\ c.lostOut = b.lostOut
      /\ c.retrans = R /\ c.retransOut = n
  BY <1>1, <1>4 DEF Shapes
<1>7. ConsistencyCheck(c)
  BY <1>2, <1>4, <1>6, BufferFacts DEF ConsistencyCheck, SentList
<1>8. BytesInFlight(c) = BytesInFlight(b) + (IF i \in b.retrans THEN 0 ELSE 1)
  <2>1. /\ b.head \in Int /\ b.high \in Int /\ b.sackedOut \in Int /\ b.lostOut \in Int
        /\ b.retransOut \in Int
    BY <1>1 DEF Shapes
  <2> QED
    BY <1>6, <2>1 DEF BytesInFlight, SentSize, n
<1>9. LostBelow(c)
  BY <1>6, BufferFacts DEF LostBelow, SentList
<1> QED
  BY <1>5, <1>6, <1>7, <1>8, <1>9, BufferBuilt DEF SameSacks, c

(* The next segment of the stream, sent for the first time.                *)
LEMMA NewSegmentOK ==
  ASSUME NEW b, BufferOK(b), b.high <= NumSegs
  PROVE  LET c == GetNewSegment(b)
         IN /\ BufferOK(c) /\ SameSacks(c, b) /\ c.high = b.high + 1
            /\ BytesInFlight(c) = BytesInFlight(b) + 1
<1> DEFINE c == GetNewSegment(b)
<1>1. b \in Shapes /\ b.high + 1 \in 1..(NumSegs + 1)
  BY BufferFacts, BufferShape, TxBufferAssumption
<1>2. c \in Shapes
  BY <1>1, Zenon DEF GetNewSegment, Shapes
<1>3. /\ c.head = b.head /\ c.high = b.high + 1 /\ c.sacked = b.sacked /\ c.lost = b.lost
      /\ c.sackedOut = b.sackedOut /\ c.lostOut = b.lostOut
      /\ c.retrans = b.retrans /\ c.retransOut = b.retransOut
  BY <1>1 DEF GetNewSegment, Shapes
<1> HIDE DEF c
<1>4. SentList(b) \subseteq SentList(c) /\ c.head <= c.high
  BY <1>3, BufferFacts DEF SentList
<1>5. ConsistencyCheck(c)
  BY <1>3, <1>4, BufferFacts DEF ConsistencyCheck
<1>6. BytesInFlight(c) = BytesInFlight(b) + 1
  <2>1. /\ b.head \in Int /\ b.high \in Int /\ b.sackedOut \in Int /\ b.lostOut \in Int
        /\ b.retransOut \in Int
    BY <1>1 DEF Shapes
  <2> QED
    BY <1>3, <2>1 DEF BytesInFlight, SentSize
<1>7. LostBelow(c)
  <2> SUFFICES ASSUME NEW i \in c.lost, NEW j \in SentList(c) \ c.sacked, j < i
               PROVE  j \in c.lost
    BY DEF LostBelow
  <2>1. i \in SentList(b) /\ j \in SentList(b) \ b.sacked
    BY <1>3, BufferFacts DEF SentList
  <2> QED
    BY <1>3, <2>1, BufferFacts DEF LostBelow
<1> QED
  BY <1>2, <1>3, <1>5, <1>6, <1>7, BufferBuilt DEF SameSacks, c

(* CopyFromSequence, whichever of the two it is.                           *)
LEMMA CopyOK ==
  ASSUME NEW b, BufferOK(b), NEW i, i \in SentList(b) \/ (i = b.high /\ i <= NumSegs)
  PROVE  LET c == CopyFromSequence(b, i)
         IN /\ BufferOK(c) /\ SameSacks(c, b)
            /\ b.high <= c.high /\ i < c.high
            /\ i < b.high => c.high = b.high
            /\ BytesInFlight(c) = BytesInFlight(b) + (IF i \in b.retrans THEN 0 ELSE 1)
<1>1. /\ b.high \in Int /\ b.head \in Int /\ b.retrans \subseteq SentList(b)
  BY BufferFacts
<1>2. CASE i < b.high
  <2>1. i \in SentList(b)
    BY <1>1, <1>2
  <2> QED
    BY <1>1, <1>2, <2>1, TransmittedOK DEF CopyFromSequence
<1>3. CASE ~(i < b.high)
  <2>1. i = b.high /\ b.high <= NumSegs /\ i \notin b.retrans
    BY <1>1, <1>3 DEF SentList
  <2> QED
    BY <1>1, <1>3, <2>1, NewSegmentOK DEF CopyFromSequence
<1> QED
  BY <1>2, <1>3

(* What NextSeg chooses can be sent.                                       *)
LEMMA NextSegSent ==
  ASSUME NEW b, BufferOK(b), NEW r \in BOOLEAN
  PROVE  LET i == NextSeg(b, r)
         IN /\ i = 0 \/ i \in SentList(b) \/ (i = b.high /\ i <= NumSegs)
            /\ i # 0 => i \notin b.retrans
<1>1. LostSegs(b) \subseteq SentList(b) /\ RescueSegs(b) \subseteq SentList(b)
  BY DEF LostSegs, RescueSegs
<1>2. SentList(b) \subseteq Nat /\ b.high \notin SentList(b) /\ b.retrans \subseteq SentList(b)
  BY BufferFacts, TxBufferAssumption DEF Segs, SentList
<1>3. UnsentSegs(b) # {} => b.high <= NumSegs
  BY BufferFacts, TxBufferAssumption DEF UnsentSegs
<1>4. LostSegs(b) # {} => Min(LostSegs(b)) \in SentList(b) \ b.retrans
  BY <1>1, <1>2, LeastExists DEF LostSegs
<1>5. RescueSegs(b) # {} => Min(RescueSegs(b)) \in SentList(b) \ b.retrans
  BY <1>1, <1>2, LeastExists DEF RescueSegs
<1> QED
  BY <1>2, <1>3, <1>4, <1>5 DEF NextSeg

-----------------------------------------------------------------------------
(* If the first flagged segment from the head on is a lost one, that is    *)
(* the head.                                                               *)
LEMMA HeadLost ==
  ASSUME NEW b, BufferOK(b), b.head \notin b.sacked, IsLost(b, b.head)
  PROVE  b.head \in b.lost
<1>1. PICK i \in SentList(b) : i \in b.lost
  BY DEF IsLost
<1>2. b.head \in SentList(b) /\ b.head \in Int /\ i \in Int /\ b.head <= i
  BY <1>1, BufferFacts DEF SentList
<1>3. b.head < i \/ b.head = i
  BY <1>2
<1> QED
  BY <1>1, <1>2, <1>3, BufferFacts DEF LostBelow

(* The head marked as lost, when it is not SACKed.                         *)
LEMMA MarkHeadOK ==
  ASSUME NEW b, BufferOK(b), b.head \notin b.sacked
  PROVE  LET c == MarkHeadAsLost(b)
         IN /\ BufferOK(c) /\ SameSacks(c, b) /\ c.high = b.high
            /\ b.head < b.high => b.head \in c.lost
<1> DEFINE c == MarkHeadAsLost(b)
           R == b.retrans \ {b.head}
           n == IF b.head \in b.retrans THEN b.retransOut - 1 ELSE b.retransOut
           L == b.lost \cup {b.head}
           k == IF b.head \in b.lost THEN b.lostOut ELSE b.lostOut + 1
<1>1. CASE SentList(b) = {}
  BY <1>1, BufferFacts DEF MarkHeadAsLost, SameSacks, SentList
<1>2. CASE SentList(b) # {}
  <2>1. b.head \in SentList(b) /\ b.head \in Segs
    BY <1>2, BufferFacts DEF SentList
  <2>2. /\ b \in Shapes /\ b.retrans \subseteq Segs /\ b.lost \subseteq Segs
        /\ b.retransOut = Cardinality(b.retrans) /\ b.lostOut = Cardinality(b.lost)
        /\ R \in SUBSET Segs /\ L \in SUBSET Segs
    BY <2>1, BufferFacts, BufferShape
  <2>3. n = Cardinality(R) /\ k = Cardinality(L)
    <3>1. Cardinality(R) = IF b.head \in b.retrans THEN Cardinality(b.retrans) - 1
                           ELSE Cardinality(b.retrans)
      BY <2>2, OneCount
    <3>2. Cardinality(L) = IF b.head \in b.lost THEN Cardinality(b.lost)
                           ELSE Cardinality(b.lost) + 1
      BY <2>2, OneCount
    <3> QED
      BY <2>2, <3>1, <3>2
  <2>4. n \in Int /\ k \in Int
    BY <2>2, <2>3, SegmentsCount
  <2>5. b.sacked \ {b.head} = b.sacked
    OBVIOUS
  <2>6. c = [b EXCEPT !.sacked = b.sacked \ {b.head}, !.sackedOut = b.sackedOut,
                      !.retrans = R, !.retransOut = n, !.lost = L, !.lostOut = k]
    BY <1>2 DEF MarkHeadAsLost
  <2>7. /\ R \subseteq SentList(b) /\ L \subseteq SentList(b) /\ b.sacked \cap L = {}
        /\ b.sacked \in SUBSET Segs /\ b.sackedOut \in Int
    BY <2>1, BufferFacts, SegmentsCount
  <2> HIDE DEF c, R, n, L, k
  <2>8. c \in Shapes
    BY <2>2, <2>4, <2>5, <2>6, <2>7, Zenon DEF Shapes
  <2>9. /\ c.head = b.head /\ c.high = b.high /\ c.sacked = b.sacked
        /\ c.sackedOut = b.sackedOut /\ c.lost = L /\ c.lostOut = k
        /\ c.retrans = R /\ c.retransOut = n
    BY <2>2, <2>5, <2>6 DEF Shapes
  <2>10. ConsistencyCheck(c)
    BY <2>3, <2>7, <2>9, BufferFacts DEF ConsistencyCheck, SentList
  <2>11. LostBelow(c)
    <3> SUFFICES ASSUME NEW i \in c.lost, NEW j \in SentList(c) \ c.sacked, j < i
                 PROVE  j \in c.lost
      BY DEF LostBelow
    <3>1. i \in b.lost /\ j \in SentList(b) \ b.sacked
      BY <2>1, <2>9, BufferFacts DEF SentList, L
    <3> QED
      BY <2>9, <3>1, BufferFacts DEF LostBelow, L
  <2> QED
    BY <2>8, <2>9, <2>10, <2>11, BufferBuilt DEF SameSacks, c, L
<1> QED
  BY <1>1, <1>2

(* A time-out empties the pipe, and the head is there to be sent again.    *)
LEMMA SetLostOK ==
  ASSUME NEW b, BufferOK(b)
  PROVE  LET c == SetSentListLost(b)
         IN /\ BufferOK(c) /\ SameSacks(c, b) /\ c.high = b.high
            /\ BytesInFlight(c) = 0 /\ LostSegs(c) = SentList(b) \ b.sacked
<1> DEFINE c == SetSentListLost(b)
           A == SentList(b) \ (b.sacked \ b.lost)
           n == Cardinality(A)
           R == b.retrans \ SentList(b)
           L == b.lost \cup A
<1>1. A = SentList(b) \ b.sacked /\ L = A /\ R = {} /\ A \in SUBSET Segs /\ R \in SUBSET Segs
  BY BufferFacts
<1>2. n \in Int /\ b \in Shapes /\ 0 \in Int
  BY <1>1, SegmentsCount, BufferFacts, BufferShape
<1>3. c = [b EXCEPT !.retrans = R, !.retransOut = 0, !.lost = L, !.lostOut = n]
  BY DEF SetSentListLost
<1> HIDE DEF c, A, n, R, L
<1>4. c \in Shapes
  BY <1>1, <1>2, <1>3, Zenon DEF Shapes
<1>5. /\ c.head = b.head /\ c.high = b.high /\ c.sacked = b.sacked
      /\ c.sackedOut = b.sackedOut /\ c.lost = A /\ c.lostOut = n
      /\ c.retrans = {} /\ c.retransOut = 0
  BY <1>1, <1>2, <1>3 DEF Shapes
<1>6. Cardinality({}) = 0
  BY FS_EmptySet
<1>7. ConsistencyCheck(c)
  BY <1>1, <1>5, <1>6, BufferFacts DEF ConsistencyCheck, SentList, n
<1>8. n = (b.high - b.head) - b.sackedOut
  <2>1. Cardinality(SentList(b)) = b.high - b.head
    BY FS_Interval, BufferFacts DEF SentList
  <2>2. /\ Cardinality(SentList(b) \ b.sacked)
             = Cardinality(SentList(b)) - Cardinality(SentList(b) \cap b.sacked)
    BY BufferFacts, JoinCount
  <2>3. SentList(b) \cap b.sacked = b.sacked
    BY BufferFacts
  <2> QED
    BY <1>1, <2>1, <2>2, <2>3, BufferFacts DEF n
<1>9. BytesInFlight(c) = 0
  <2>1. b.sackedOut \in Int /\ b.high \in Int /\ b.head \in Int
    BY BufferFacts, SegmentsCount
  <2> QED
    BY <1>5, <1>8, <2>1 DEF BytesInFlight, SentSize
<1>10. LostSegs(c) = SentList(b) \ b.sacked
  BY <1>1, <1>5 DEF LostSegs, SentList
<1>11. LostBelow(c)
  BY <1>1, <1>5 DEF LostBelow, SentList
<1> QED
  BY <1>4, <1>5, <1>7, <1>9, <1>10, <1>11, BufferBuilt DEF SameSacks, c

-----------------------------------------------------------------------------
(* Losses that the scoreboard finds.  The head is marked without a look at *)
(* its SACK flag, so it matters that it is not set.                        *)
LEMMA LostCountOK ==
  ASSUME NEW b, BufferOK(b), b.head \notin b.sacked
  PROVE  LET c == UpdateLostCount(b)
         IN BufferOK(c) /\ SameSacks(c, b) /\ c.high = b.high /\ c.retrans = b.retrans
<1> DEFINE c == UpdateLostCount(b)
           gone == {i \in SentList(b) :
                      /\ b.head < i /\ i <= b.highestSack
                      /\ SackedFrom(b, i) >= DupAckThresh
                      /\ i \notin b.sacked}
           head == IF SackedFrom(b, b.head + 1) >= DupAckThresh THEN {b.head} ELSE {}
           found == (gone \cup head) \ b.lost
           L == b.lost \cup found
           n == b.lostOut + Cardinality(found)
<1>1. gone \subseteq SentList(b) /\ gone \cap b.sacked = {}
  OBVIOUS
<1>2. head \subseteq SentList(b) /\ head \cap b.sacked = {}
  <2> DEFINE above == {j \in b.sacked : b.head + 1 <= j /\ j <= b.highestSack}
  <2>1. CASE above = {}
    <3>1. SackedFrom(b, b.head + 1) = 0
      BY <2>1, FS_EmptySet DEF SackedFrom
    <3>2. head = {}
      BY <3>1, TxBufferAssumption
    <3> QED
      BY <3>2
  <2>2. CASE above # {}
    <3>1. PICK j \in b.sacked : b.head + 1 <= j
      BY <2>2
    <3>2. b.head \in SentList(b)
      BY <3>1, BufferFacts DEF SentList
    <3> QED
      BY <3>2
  <2> QED
    BY <2>1, <2>2
<1>3. /\ found \subseteq SentList(b) /\ found \cap b.sacked = {} /\ found \cap b.lost = {}
      /\ found \in SUBSET Segs
  BY <1>1, <1>2, BufferFacts
<1>4. c = [b EXCEPT !.lost = L, !.lostOut = n]
  BY DEF UpdateLostCount
<1>11. ASSUME NEW i \in L, NEW j \in SentList(b) \ b.sacked, j < i
       PROVE  j \in L
  <2>1. /\ i \in SentList(b) /\ i \in Int /\ j \in Int /\ b.head <= j /\ b.head \in Int
        /\ b.highestSack \in Int /\ DupAckThresh \in Int /\ SentList(b) \subseteq Segs
    BY <1>3, BufferFacts, TxBufferAssumption DEF SentList
  <2>2. CASE i \in b.lost
    BY <1>11, <2>2, BufferFacts DEF LostBelow
  <2>3. CASE i \in head
    BY <1>11, <2>1, <2>3
  <2>4. CASE i \in gone
    <3>1. SackedFrom(b, i) >= DupAckThresh /\ i <= b.highestSack
      BY <2>4
    <3>2. ASSUME NEW k \in Int, k <= i PROVE SackedFrom(b, k) >= DupAckThresh
      <4> DEFINE X == {x \in b.sacked : i <= x /\ x <= b.highestSack}
                 Y == {x \in b.sacked : k <= x /\ x <= b.highestSack}
      <4>1. b.sacked \subseteq Segs
        BY BufferFacts
      <4>2. X \subseteq Y /\ Y \subseteq Segs
        BY <2>1, <3>2, <4>1 DEF Segs
      <4>3. SackedFrom(b, i) = Cardinality(X) /\ SackedFrom(b, k) = Cardinality(Y)
        BY DEF SackedFrom
      <4> HIDE DEF X, Y
      <4>4. /\ IsFiniteSet(Y) /\ Cardinality(X) <= Cardinality(Y)
            /\ Cardinality(X) \in Int /\ Cardinality(Y) \in Int
        BY <4>2, SegmentsCount, FS_Subset
      <4> QED
        BY <2>1, <3>1, <4>3, <4>4
    <3>3. CASE j = b.head
      <4>1. SackedFrom(b, b.head + 1) >= DupAckThresh
        BY <1>11, <2>1, <3>2, <3>3
      <4> QED
        BY <3>3, <4>1
    <3>4. CASE j # b.head
      <4>1. SackedFrom(b, j) >= DupAckThresh
        BY <1>11, <2>1, <3>2
      <4>2. b.head < j /\ j <= b.highestSack
        BY <1>11, <2>1, <3>1, <3>4
      <4> QED
        BY <4>1, <4>2
    <3> QED
      BY <3>3, <3>4
  <2> QED
    BY <2>2, <2>3, <2>4
<1> HIDE DEF c, gone, head, found
<1>5. L \subseteq SentList(b) /\ L \in SUBSET Segs /\ b.sacked \cap L = {}
  BY <1>3, BufferFacts
<1>6. n = Cardinality(L)
  <2>1. b.lost \subseteq Segs /\ b.lostOut = Cardinality(b.lost) /\ b.lost \cap found = {}
    BY <1>3, BufferFacts
  <2>2. /\ Cardinality(L) = Cardinality(b.lost) + Cardinality(found)
                              - Cardinality(b.lost \cap found)
        /\ Cardinality(b.lost \cap found) = 0
    BY <1>3, <2>1, JoinCount
  <2>3. Cardinality(b.lost) \in Int /\ Cardinality(found) \in Int
    BY <1>3, <2>1, SegmentsCount
  <2> QED
    BY <2>1, <2>2, <2>3
<1>7. n \in Int /\ b \in Shapes
  BY <1>5, <1>6, SegmentsCount, BufferFacts, BufferShape
<1> HIDE DEF L, n
<1>8. c \in Shapes
  BY <1>4, <1>5, <1>7, Zenon DEF Shapes
<1>9. /\ c.head = b.head /\ c.high = b.high /\ c.sacked = b.sacked
      /\ c.sackedOut = b.sackedOut /\ c.lost = L /\ c.lostOut = n
      /\ c.retrans = b.retrans /\ c.retransOut = b.retransOut
  BY <1>4, <1>7 DEF Shapes
<1>10. ConsistencyCheck(c)
  BY <1>5, <1>6, <1>9, BufferFacts DEF ConsistencyCheck, SentList
<1>12. LostBelow(c)
  BY <1>9, <1>11 DEF LostBelow, SentList
<1> QED
  BY <1>8, <1>9, <1>10, <1>12, BufferBuilt DEF SameSacks, c

(* m_highestSack stays a segment or none ...                               *)
LEMMA HighestOK ==
  ASSUME NEW h \in 0..NumSegs, NEW F, F \subseteq Segs
  PROVE  Highest(h, F) \in 0..NumSegs
<1> DEFINE above == {i \in F : h = 0 \/ h <= i + 1}
<1>1. above # {} => Max(above) \in Segs
  <2>1. above \subseteq Segs
    OBVIOUS
  <2> HIDE DEF above
  <2> QED
    BY <2>1, LargestExists
<1>2. Highest(h, F) = IF above = {} THEN h ELSE Max(above)
  BY DEF Highest
<1> HIDE DEF above
<1> QED
  BY <1>1, <1>2, TxBufferAssumption DEF Segs

(* ... whatever blocks an option has.                                      *)
LEMMA HighestAfterOK ==
  ASSUME NEW b, BufferOK(b), NEW blocks
  PROVE  HighestAfter(b, blocks) \in 0..NumSegs
<1> DEFINE fresh(k) == FreshIn(b, blocks[k])
<1>1. b.highestSack \in 0..NumSegs
  BY BufferFacts
<1>2. \A k : fresh(k) \subseteq Segs
  BY BufferFacts DEF FreshIn
<1>3. HighestAfter(b, blocks) = Highest(Highest(Highest(Highest(b.highestSack, fresh(1)),
                                  fresh(2)), fresh(3)), fresh(4))
  BY DEF HighestAfter
<1> HIDE DEF fresh
<1>4. Highest(b.highestSack, fresh(1)) \in 0..NumSegs
  BY <1>1, <1>2, HighestOK
<1>5. Highest(Highest(b.highestSack, fresh(1)), fresh(2)) \in 0..NumSegs
  BY <1>2, <1>4, HighestOK
<1>6. Highest(Highest(Highest(b.highestSack, fresh(1)), fresh(2)), fresh(3)) \in 0..NumSegs
  BY <1>2, <1>5, HighestOK
<1> QED
  BY <1>2, <1>3, <1>6, HighestOK

(* A SACK option that does not report the head: the flags of what is new.  *)
LEMMA UpdateOK ==
  ASSUME NEW b, BufferOK(b), b.head \notin b.sacked,
         NEW blocks, b.head \notin Reported(blocks)
  PROVE  LET c == Update(b, blocks)
         IN /\ BufferOK(c) /\ c.head = b.head /\ c.high = b.high
            /\ c.sacked = b.sacked \cup FreshIn(b, Reported(blocks))
            /\ c.retrans = b.retrans /\ (c.sacked = b.sacked => c = b)
<1> DEFINE fresh == FreshIn(b, Reported(blocks))
           S == b.sacked \cup fresh
           n == b.sackedOut + Cardinality(fresh)
           L == b.lost \ fresh
           k == b.lostOut - Cardinality(fresh \cap b.lost)
           h == HighestAfter(b, blocks)
           c == [b EXCEPT !.sacked = S, !.sackedOut = n, !.lost = L, !.lostOut = k,
                          !.highestSack = h]
<1>1. Update(b, blocks) = IF fresh = {} THEN b ELSE UpdateLostCount(c)
  BY DEF Update
<1>2. /\ fresh \subseteq SentList(b) /\ fresh \cap b.sacked = {} /\ b.head \notin fresh
      /\ fresh \subseteq Segs /\ h \in 0..NumSegs
  BY BufferFacts, HighestAfterOK DEF FreshIn
<1> HIDE DEF fresh, h
<1>3. /\ b.sacked \subseteq Segs /\ b.sackedOut = Cardinality(b.sacked)
      /\ b.lost \subseteq Segs /\ b.lostOut = Cardinality(b.lost) /\ b \in Shapes
  BY BufferFacts, BufferShape
<1>4. /\ Cardinality(b.sacked) \in Int /\ Cardinality(b.lost) \in Int
      /\ Cardinality(fresh) \in Int
  BY <1>2, <1>3, SegmentsCount
<1>5. n = Cardinality(S)
  <2>1. Cardinality(S) = Cardinality(b.sacked) + Cardinality(fresh)
                           - Cardinality(b.sacked \cap fresh)
        /\ (b.sacked \cap fresh = {} => Cardinality(b.sacked \cap fresh) = 0)
    BY <1>2, <1>3, JoinCount
  <2> QED
    BY <1>2, <1>3, <1>4, <2>1
<1>6. k = Cardinality(L)
  <2>1. Cardinality(L) = Cardinality(b.lost) - Cardinality(b.lost \cap fresh)
    BY <1>2, <1>3, JoinCount
  <2>2. b.lost \cap fresh = fresh \cap b.lost
    OBVIOUS
  <2> QED
    BY <1>3, <2>1, <2>2
<1>7. /\ S \subseteq SentList(b) /\ L \subseteq SentList(b) /\ S \cap L = {}
      /\ S \in SUBSET Segs /\ L \in SUBSET Segs /\ b.head \notin S
  BY <1>2, BufferFacts
<1>8. n \in Int /\ k \in Int
  BY <1>5, <1>6, <1>7, SegmentsCount
<1> HIDE DEF S, L, n, k
<1>9. c \in Shapes
  BY <1>2, <1>3, <1>7, <1>8, Zenon DEF Shapes
<1>10. /\ c.head = b.head /\ c.high = b.high /\ c.sacked = S
       /\ c.sackedOut = n /\ c.lost = L /\ c.lostOut = k
       /\ c.retrans = b.retrans /\ c.retransOut = b.retransOut
  BY <1>3 DEF Shapes
<1> HIDE DEF c
<1>11. ConsistencyCheck(c)
  BY <1>5, <1>6, <1>7, <1>10, BufferFacts DEF ConsistencyCheck, SentList
<1>15. LostBelow(c)
  BY <1>10, BufferFacts DEF LostBelow, SentList, S, L
<1>12. BufferOK(c) /\ c.head \notin c.sacked
  BY <1>7, <1>9, <1>10, <1>11, <1>15, BufferBuilt
<1>13. CASE fresh = {}
  BY <1>1, <1>13 DEF fresh
<1>14. CASE fresh # {}
  <2>1. S # b.sacked
    BY <1>2, <1>14 DEF S
  <2> QED
    BY <1>1, <1>10, <1>12, <1>14, <2>1, LostCountOK DEF SameSacks, S, fresh
<1> QED
  BY <1>13, <1>14

(* What an acknowledgement covers goes from flags and counters alike.      *)
LEMMA RemoveOK ==
  ASSUME NEW b, BufferOK(b), NEW a \in b.head .. b.high
  PROVE  LET c == RemoveUpTo(b, a)
         IN /\ BufferOK(c) /\ c.head = a /\ c.high = b.high
            /\ c.sacked = b.sacked \ (b.head .. (a - 1)) /\ c.retrans \subseteq b.retrans
<1> DEFINE c == RemoveUpTo(b, a)
           gone == b.head .. (a - 1)
           S == b.sacked \ gone
           R == b.retrans \ gone
           L == b.lost \ gone
           n == b.sackedOut - Cardinality(gone \cap b.sacked)
           m == b.retransOut - Cardinality(gone \cap b.retrans)
           k == b.lostOut - Cardinality(gone \cap b.lost)
<1>1. /\ gone \subseteq Segs /\ a \in 1..(NumSegs + 1) /\ a <= b.high
      /\ SentList(b) \ gone \subseteq a .. (b.high - 1) /\ b \in Shapes
  BY BufferFacts, BufferShape, TxBufferAssumption DEF SentList, Segs
<1>2. c = [b EXCEPT !.head = a, !.sacked = S, !.sackedOut = n, !.retrans = R,
                    !.retransOut = m, !.lost = L, !.lostOut = k]
  BY DEF RemoveUpTo
<1> HIDE DEF c, gone
<1>3. ASSUME NEW X, X \subseteq Segs
      PROVE  Cardinality(X) - Cardinality(gone \cap X) = Cardinality(X \ gone)
  <2>1. Cardinality(X \ gone) = Cardinality(X) - Cardinality(X \cap gone)
    BY <1>1, <1>3, JoinCount
  <2>2. X \cap gone = gone \cap X
    OBVIOUS
  <2> QED
    BY <2>1, <2>2
<1>4. /\ b.sacked \subseteq Segs /\ b.sackedOut = Cardinality(b.sacked)
      /\ b.lost \subseteq Segs /\ b.lostOut = Cardinality(b.lost)
      /\ b.retrans \subseteq Segs /\ b.retransOut = Cardinality(b.retrans)
  BY BufferFacts
<1>5. n = Cardinality(S) /\ m = Cardinality(R) /\ k = Cardinality(L)
  BY <1>3, <1>4
<1>6. /\ S \in SUBSET Segs /\ R \in SUBSET Segs /\ L \in SUBSET Segs
      /\ S \cap L = {} /\ S \cup L \cup R \subseteq SentList(b) \ gone
  BY <1>4, BufferFacts
<1>7. n \in Int /\ m \in Int /\ k \in Int
  BY <1>5, <1>6, SegmentsCount
<1> HIDE DEF S, R, L, n, m, k
<1>8. c \in Shapes
  BY <1>1, <1>2, <1>6, <1>7, Zenon DEF Shapes
<1>9. /\ c.head = a /\ c.high = b.high /\ c.sacked = S
      /\ c.sackedOut = n /\ c.lost = L /\ c.lostOut = k
      /\ c.retrans = R /\ c.retransOut = m
  BY <1>1, <1>2 DEF Shapes
<1>10. ConsistencyCheck(c)
  BY <1>1, <1>5, <1>6, <1>9 DEF ConsistencyCheck, SentList
<1>11. LostBelow(c)
  <2> SUFFICES ASSUME NEW i \in c.lost, NEW j \in SentList(c) \ c.sacked, j < i
               PROVE  j \in c.lost
    BY DEF LostBelow
  <2>1. i \in b.lost /\ j \in SentList(b) /\ j \notin gone /\ j \notin b.sacked
    BY <1>1, <1>9, BufferFacts DEF SentList, S, L, gone
  <2> QED
    BY <1>9, <2>1, BufferFacts DEF LostBelow, L
<1> QED
  BY <1>8, <1>9, <1>10, <1>11, BufferBuilt DEF c, S, R, gone

(* An acknowledgement of a segment that is not SACKed leaves the guesses   *)
(* of UnsackHead alone.                                                    *)
LEMMA DiscardOK ==
  ASSUME NEW b, BufferOK(b), NEW a \in b.head .. b.high, a \notin b.sacked
  PROVE  LET c == DiscardUpTo(b, a)
         IN /\ BufferOK(c) /\ c.head = a /\ c.high = b.high
            /\ c.sacked = b.sacked \ (b.head .. (a - 1)) /\ c.retrans \subseteq b.retrans
            /\ a = b.head => c = b
<1> DEFINE c == RemoveUpTo(b, a)
           d == [c EXCEPT !.highestSack = 0]
<1>1. b.head \in Int /\ a \in Int
  BY BufferFacts
<1>2. CASE a <= b.head
  <2>1. a = b.head /\ DiscardUpTo(b, a) = b /\ b.head .. (a - 1) = {}
    BY <1>1, <1>2 DEF DiscardUpTo
  <2> QED
    BY <2>1
<1>3. CASE ~(a <= b.head)
  <2>1. /\ BufferOK(c) /\ c.head = a /\ c.high = b.high
        /\ c.sacked = b.sacked \ (b.head .. (a - 1)) /\ c.retrans \subseteq b.retrans
    BY RemoveOK
  <2>2. UnsackHead(c) = c
    BY <2>1 DEF UnsackHead
  <2>3. DiscardUpTo(b, a) = IF c.highestSack <= c.head THEN d ELSE c
    BY <1>3, <2>2 DEF DiscardUpTo
  <2> HIDE DEF c
  <2>4. c \in Shapes /\ 0 \in 0..NumSegs
    BY <2>1, BufferFacts, BufferShape, TxBufferAssumption
  <2>5. d \in Shapes
    BY <2>4, Zenon DEF Shapes
  <2>6. /\ d.head = c.head /\ d.high = c.high /\ d.sacked = c.sacked
        /\ d.sackedOut = c.sackedOut /\ d.lost = c.lost /\ d.lostOut = c.lostOut
        /\ d.retrans = c.retrans /\ d.retransOut = c.retransOut
    BY <2>4 DEF Shapes
  <2> HIDE DEF d
  <2>7. BufferOK(d)
    <3>1. ConsistencyCheck(d)
      BY <2>1, <2>6, BufferFacts DEF ConsistencyCheck, SentList
    <3>2. LostBelow(d)
      BY <2>1, <2>6, BufferFacts DEF LostBelow, SentList
    <3> QED
      BY <2>5, <3>1, <3>2, BufferBuilt
  <2> QED
    BY <1>1, <1>3, <2>1, <2>3, <2>6, <2>7
<1> QED
  BY <1>2, <1>3
=============================================================================
