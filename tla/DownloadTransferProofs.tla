----------------------- MODULE DownloadTransferProofs -----------------------
(***************************************************************************)
(* What DownloadTransfer promises for every file size, chunk size, growth  *)
(* of the file and way of splitting the reads.                             *)
(***************************************************************************)
EXTENDS DownloadTransfer, TLAPS

(* What the thread has told the student goes with where it is, and the     *)
(* connection opens and closes in order.                                   *)
Phases ==
  /\ spc \in {"accept", "open"} => messages = <<>>
  /\ spc \in {"send", "close"} => Len(messages) = 1 /\ messages[1] = "started"
  /\ spc = "told" => /\ Len(messages) = 2
                     /\ messages[1] = "started" /\ messages[2] = "successful"
  /\ cpc = "connect" => spc = "accept"
  /\ cpc = "closed" => spc \in {"close", "told"} /\ down = <<>>

(* The loop of the server ends only at the end of the file, and the client *)
(* has saved, or will, at least as many bytes as were read of it.          *)
Counted ==
  /\ spc = "accept" => pos = 0
  /\ spc \in {"close", "told"} => pos >= file_size
  /\ cpc = "connect" => saved = OldBytes(old) /\ down = <<>>
  /\ cpc \in {"recv", "closed"} => Len(saved) + Len(down) >= old + pos

Inv == Phases /\ Counted /\ NoByteLost

-----------------------------------------------------------------------------
(* The size of the last chunk is a remainder (ServerDownloadHandler lines  *)
(* 42-46 and ClientFileHandler lines 72-76).                               *)
LEMMA ChunkArithmetic ==
  ASSUME NEW size \in Nat, NEW chunk \in Nat \ {0}
  PROVE  /\ LastChunk(size, chunk) \in Nat /\ LastChunk(size, chunk) < chunk
         /\ NChunks(size, chunk) \in Nat \ {0}
         /\ size >= chunk => NChunks(size, chunk) >= 2
         /\ size = chunk * (NChunks(size, chunk) - 1) + LastChunk(size, chunk)
<1> DEFINE q == size \div chunk
<1>1. /\ q \in Nat
      /\ size = chunk * q + (size % chunk)
      /\ size % chunk \in 0..(chunk - 1)
  BY Z3
<1>2. size >= chunk => q >= 1
  BY Z3
<1>3. LastChunk(size, chunk) = size - chunk * q /\ NChunks(size, chunk) = q + 1
  BY DEF LastChunk, NChunks
<1> HIDE DEF q
<1>4. (q + 1) - 1 = q /\ chunk * q \in Int
  BY <1>1
<1> QED
  BY <1>1, <1>2, <1>3, <1>4

(* The sizes in every state, and the length of the next buffer.            *)
LEMMA SizesTyping ==
  ASSUME TypeOK
  PROVE  /\ file_size \in Nat /\ chunk_size \in Nat \ {0} /\ old \in Nat
         /\ length \in Nat /\ length >= file_size /\ pos \in Nat /\ pos <= length
         /\ \A n \in Int : NextLen(n) \in Nat
<1>1. /\ file_size \in Nat /\ chunk_size \in Nat \ {0} /\ old \in Nat /\ MaxGrowth \in Nat
  BY DownloadAssumption DEF TypeOK
<1>2. LastChunk(file_size, chunk_size) \in Nat
  BY <1>1, ChunkArithmetic
<1> QED
  BY <1>1, <1>2 DEF NextLen, TypeOK

(* Padding is a sequence of that many bytes that are none, ...             *)
LEMMA PadsTyping ==
  ASSUME NEW n \in Nat
  PROVE  /\ Pads(n) \in Seq(Int) /\ Len(Pads(n)) = n
         /\ \A i \in 1..n : Pads(n)[i] = Pad
BY DEF Pads, Pad

(* ... and what is read of a file is the next bytes of it.                 *)
LEMMA FileTyping ==
  ASSUME NEW p \in Nat, NEW k \in Nat
  PROVE  /\ FileBytes(p + 1, p + k) \in Seq(Int)
         /\ Len(FileBytes(p + 1, p + k)) = k
         /\ \A i \in 1..k : FileBytes(p + 1, p + k)[i] = p + i
<1>1. (p + k) - (p + 1) + 1 = k /\ \A i \in 1..k : (p + 1) + i - 1 = p + i
  OBVIOUS
<1>2. FileBytes(p + 1, p + k) = [i \in 1..k |-> (p + 1) + i - 1]
  BY <1>1 DEF FileBytes
<1>3. FileBytes(p + 1, p + k) = [i \in 1..k |-> p + i]
  BY <1>1, <1>2, Zenon
<1> HIDE DEF FileBytes
<1> QED
  BY <1>3

(* The bytes of an earlier download are none of this one.                  *)
LEMMA OldTyping ==
  ASSUME NEW n \in Nat
  PROVE  /\ OldBytes(n) \in Seq(Int) /\ Len(OldBytes(n)) = n
         /\ \A i \in 1..n : OldBytes(n)[i] = -i
BY DEF OldBytes

(* Two sequences, one after the other.                                     *)
LEMMA Joined ==
  ASSUME NEW s \in Seq(Int), NEW t \in Seq(Int)
  PROVE  /\ s \o t \in Seq(Int) /\ Len(s \o t) = Len(s) + Len(t)
         /\ \A i \in 1..(Len(s) + Len(t)) :
              (s \o t)[i] = IF i <= Len(s) THEN s[i] ELSE t[i - Len(s)]
OBVIOUS

(* What a read of n bytes leaves.                                          *)
LEMMA Left ==
  ASSUME NEW s \in Seq(Int), NEW n \in Nat, n <= Len(s)
  PROVE  /\ SubSeq(s, n + 1, Len(s)) \in Seq(Int)
         /\ Len(SubSeq(s, n + 1, Len(s))) = Len(s) - n
         /\ \A i \in 1..(Len(s) - n) : SubSeq(s, n + 1, Len(s))[i] = s[n + i]
<1>1. PICK t : t = SubSeq(s, n + 1, Len(s))
  OBVIOUS
<1>2. t \in Seq(Int) /\ Len(t) = Len(s) - n
  BY <1>1
<1>3. \A i \in 1..Len(t) : t[i] = s[n + i]
  BY <1>1
<1> QED
  BY <1>1, <1>2, <1>3

(* A buffer: k bytes of the file after the p read before, and padding up   *)
(* to m.                                                                   *)
Buffer(p, k, m) == FileBytes(p + 1, p + k) \o Pads(m - k)

(* It is as long as it was made.                                           *)
LEMMA BufferTyping ==
  ASSUME NEW p \in Nat, NEW k \in Nat, NEW m \in Nat, k <= m
  PROVE  /\ Buffer(p, k, m) \in Seq(Int) /\ Len(Buffer(p, k, m)) = m
         /\ \A i \in 1..m : Buffer(p, k, m)[i] = IF i <= k THEN p + i ELSE Pad
<1> DEFINE f == FileBytes(p + 1, p + k)
           g == Pads(m - k)
<1>1. m - k \in Nat
  OBVIOUS
<1>2. f \in Seq(Int) /\ Len(f) = k /\ \A i \in 1..k : f[i] = p + i
  BY FileTyping
<1>3. g \in Seq(Int) /\ Len(g) = m - k /\ \A i \in 1..(m - k) : g[i] = Pad
  BY <1>1, PadsTyping
<1> HIDE DEF f, g
<1>4. /\ f \o g \in Seq(Int) /\ Len(f \o g) = Len(f) + Len(g)
      /\ \A i \in 1..(Len(f) + Len(g)) :
           (f \o g)[i] = IF i <= Len(f) THEN f[i] ELSE g[i - Len(f)]
  BY <1>2, <1>3, Joined
<1>5. Len(f) + Len(g) = m
  BY <1>2, <1>3
<1>6. \A i \in 1..m : (f \o g)[i] = IF i <= k THEN p + i ELSE Pad
  <2> SUFFICES ASSUME NEW i \in 1..m
               PROVE  (f \o g)[i] = IF i <= k THEN p + i ELSE Pad
    OBVIOUS
  <2>1. (f \o g)[i] = IF i <= k THEN f[i] ELSE g[i - k]
    BY <1>2, <1>4, <1>5
  <2>2. i <= k => i \in 1..k
    OBVIOUS
  <2>3. ~(i <= k) => i - k \in 1..(m - k)
    OBVIOUS
  <2> QED
    BY <1>2, <1>3, <2>1, <2>2, <2>3
<1> QED
  BY <1>4, <1>5, <1>6, Zenon DEF f, g, Buffer

(* A buffer appended keeps the order.                                      *)
LEMMA OrderExtended ==
  ASSUME NEW s \in Seq(Int), NEW t \in Seq(Int), NEW p \in Nat, NEW k \in Nat,
         InOrder(s, p), Len(t) >= Len(s) + k,
         \A i \in 1..Len(t) :
           t[i] = IF i <= Len(s) THEN s[i]
                  ELSE IF i <= Len(s) + k THEN p + (i - Len(s)) ELSE Pad
  PROVE  InOrder(t, p + k)
<1> DEFINE L == Len(s)
           M == Len(t)
<1>1. L \in Nat /\ M \in Nat /\ M >= L + k
  OBVIOUS
<1>2. /\ \A i \in 1..L : s[i] \in Int /\ s[i] <= p
      /\ \A b \in 1..p : \E i \in 1..L : s[i] = b
      /\ \A i, j \in 1..L : i < j /\ s[i] > 0 /\ s[j] > 0 => s[i] < s[j]
  BY DEF InOrder
<1>3. \A i \in 1..M : t[i] = IF i <= L THEN s[i]
                             ELSE IF i <= L + k THEN p + (i - L) ELSE 0
  BY DEF Pad
<1> HIDE DEF L, M
<1>4. \A i \in 1..M : t[i] <= p + k
  <2> SUFFICES ASSUME NEW i \in 1..M PROVE t[i] <= p + k
    OBVIOUS
  <2>1. CASE i <= L
    <3>1. i \in 1..L /\ t[i] = s[i] /\ s[i] \in Int /\ s[i] <= p
      BY <1>1, <1>2, <1>3, <2>1
    <3> QED
      BY <3>1
  <2>2. CASE i > L /\ i <= L + k
    <3>1. t[i] = p + (i - L)
      BY <1>1, <1>3, <2>2
    <3> QED
      BY <1>1, <2>2, <3>1
  <2>3. CASE i > L + k
    BY <1>1, <1>3, <2>3
  <2> QED
    BY <1>1, <2>1, <2>2, <2>3
<1>5. \A b \in 1..(p + k) : \E i \in 1..M : t[i] = b
  <2> SUFFICES ASSUME NEW b \in 1..(p + k) PROVE \E i \in 1..M : t[i] = b
    OBVIOUS
  <2>1. CASE b <= p
    <3>1. PICK i \in 1..L : s[i] = b
      BY <1>2, <2>1
    <3>2. i \in 1..M /\ t[i] = b
      BY <1>1, <1>3, <3>1
    <3> QED
      BY <3>2
  <2>2. CASE b > p
    <3> DEFINE i == L + (b - p)
    <3>1. i \in 1..M /\ i > L /\ i <= L + k /\ p + (i - L) = b
      BY <1>1, <2>2
    <3> HIDE DEF i
    <3>2. t[i] = p + (i - L)
      BY <1>1, <1>3, <3>1
    <3> QED
      BY <3>1, <3>2
  <2> QED
    BY <2>1, <2>2
<1>6. \A i, j \in 1..M : i < j /\ t[i] > 0 /\ t[j] > 0 => t[i] < t[j]
  <2> SUFFICES ASSUME NEW i \in 1..M, NEW j \in 1..M, i < j, t[i] > 0, t[j] > 0
               PROVE  t[i] < t[j]
    OBVIOUS
  <2>1. j <= L + k
    BY <1>1, <1>3
  <2>2. CASE j <= L
    <3>1. i \in 1..L /\ j \in 1..L /\ t[i] = s[i] /\ t[j] = s[j]
      BY <1>1, <1>3, <2>2
    <3> QED
      BY <1>2, <3>1
  <2>3. CASE j > L /\ i <= L
    <3>1. t[j] = p + (j - L) /\ t[i] = s[i] /\ s[i] <= p /\ s[i] \in Int
      BY <1>1, <1>2, <1>3, <2>1, <2>3
    <3> QED
      BY <1>1, <2>3, <3>1
  <2>4. CASE i > L
    <3>1. t[j] = p + (j - L) /\ t[i] = p + (i - L)
      BY <1>1, <1>3, <2>1, <2>4
    <3> QED
      BY <1>1, <3>1
  <2> QED
    BY <1>1, <2>2, <2>3, <2>4
<1> QED
  BY <1>4, <1>5, <1>6 DEF InOrder, M

(* Padding inserted anywhere keeps it too.                                 *)
LEMMA OrderPadded ==
  ASSUME NEW s \in Seq(Int), NEW t \in Seq(Int), NEW p \in Nat, NEW m \in Nat,
         NEW h \in 0..Len(s), InOrder(s, p), Len(t) = Len(s) + m,
         \A i \in 1..Len(t) :
           t[i] = IF i <= h THEN s[i] ELSE IF i <= h + m THEN Pad ELSE s[i - m]
  PROVE  InOrder(t, p)
<1> DEFINE L == Len(s)
<1>1. L \in Nat /\ h \in Nat /\ h <= L
  OBVIOUS
<1>2. /\ \A i \in 1..L : s[i] \in Int /\ s[i] <= p
      /\ \A b \in 1..p : \E i \in 1..L : s[i] = b
      /\ \A i, j \in 1..L : i < j /\ s[i] > 0 /\ s[j] > 0 => s[i] < s[j]
  BY DEF InOrder
<1>3. Len(t) = L + m /\ \A i \in 1..(L + m) :
        t[i] = IF i <= h THEN s[i] ELSE IF i <= h + m THEN 0 ELSE s[i - m]
  BY DEF Pad
<1> HIDE DEF L
<1>4. \A i \in 1..(L + m) :
        \/ i <= h /\ i \in 1..L /\ t[i] = s[i]
        \/ i > h + m /\ i - m \in 1..L /\ t[i] = s[i - m]
        \/ i > h /\ i <= h + m /\ t[i] = 0
  BY <1>1, <1>3
<1>5. \A i \in 1..(L + m) : t[i] <= p
  <2> SUFFICES ASSUME NEW i \in 1..(L + m) PROVE t[i] <= p
    OBVIOUS
  <2>1. CASE i \in 1..L /\ t[i] = s[i]
    BY <1>2, <2>1
  <2>2. CASE i - m \in 1..L /\ t[i] = s[i - m]
    BY <1>2, <2>2
  <2>3. CASE t[i] = 0
    BY <2>3
  <2> QED
    BY <1>4, <2>1, <2>2, <2>3
<1>6. \A b \in 1..p : \E i \in 1..(L + m) : t[i] = b
  <2> SUFFICES ASSUME NEW b \in 1..p PROVE \E i \in 1..(L + m) : t[i] = b
    OBVIOUS
  <2>1. PICK i \in 1..L : s[i] = b
    BY <1>2
  <2>2. CASE i <= h
    BY <1>1, <1>3, <2>1, <2>2
  <2>3. CASE i > h
    <3>1. i + m \in 1..(L + m) /\ i + m > h + m /\ (i + m) - m = i
      BY <1>1, <2>3
    <3> DEFINE e == i + m
    <3>2. e \in 1..(L + m) /\ e > h + m /\ ~(e <= h) /\ e - m = i
      BY <1>1, <2>3, <3>1
    <3> HIDE DEF e
    <3>3. t[e] = s[e - m]
      BY <1>1, <1>3, <3>2
    <3> QED
      BY <2>1, <3>2, <3>3
  <2> QED
    BY <1>1, <2>2, <2>3
<1>7. \A i, j \in 1..(L + m) : i < j /\ t[i] > 0 /\ t[j] > 0 => t[i] < t[j]
  <2> SUFFICES ASSUME NEW i \in 1..(L + m), NEW j \in 1..(L + m),
                      i < j, t[i] > 0, t[j] > 0
               PROVE  t[i] < t[j]
    OBVIOUS
  <2>1. CASE j <= h
    <3>1. i \in 1..L /\ j \in 1..L /\ t[i] = s[i] /\ t[j] = s[j]
      BY <1>1, <1>4, <2>1
    <3> QED
      BY <1>2, <3>1
  <2>2. CASE i > h + m
    <3>1. /\ i - m \in 1..L /\ j - m \in 1..L /\ i - m < j - m
          /\ t[i] = s[i - m] /\ t[j] = s[j - m]
      BY <1>1, <1>4, <2>2
    <3> QED
      BY <1>2, <3>1
  <2>3. CASE i <= h /\ j > h + m
    <3>1. /\ i \in 1..L /\ j - m \in 1..L /\ i < j - m
          /\ t[i] = s[i] /\ t[j] = s[j - m]
      BY <1>1, <1>4, <2>3
    <3> QED
      BY <1>2, <3>1
  <2> QED
    BY <1>1, <1>4, <2>1, <2>2, <2>3
<1> QED
  BY <1>3, <1>5, <1>6, <1>7 DEF InOrder


-----------------------------------------------------------------------------
(* Nothing was sent; in Downloads is what an earlier download left.        *)
LEMMA InitInv == Init => TypeOK /\ Inv
<1> SUFFICES ASSUME Init PROVE TypeOK /\ Inv
  OBVIOUS
<1>1. /\ file_size \in Nat /\ chunk_size \in Nat \ {0} /\ old \in Nat
      /\ MaxGrowth \in Nat
  BY DownloadAssumption DEF Init
<1>2. s_chunks \in Int /\ s_len \in Nat /\ c_chunks \in Int /\ c_len \in Nat
  BY <1>1, ChunkArithmetic DEF Init
<1>3. saved \in Seq(Int) /\ down \in Seq(Int)
  BY <1>1, OldTyping DEF Init
<1>4. messages \in Seq({"started", "successful", "failed"})
  BY DEF Init
<1>5. length \in file_size..(file_size + MaxGrowth) /\ pos \in 0..length
  BY <1>1 DEF Init
<1>6. TypeOK
  BY <1>2, <1>3, <1>4, <1>5 DEF Init, TypeOK
<1>7. Inv
  BY DEF Init, Inv, Phases, Counted, NoByteLost
<1> QED
  BY <1>6, <1>7

(* A read fills a buffer with the next bytes of the file, and the whole    *)
(* buffer is sent (ServerDownloadHandler 55-63).                           *)
LEMMA SendsBuffer ==
  ASSUME TypeOK, Send
  PROVE  \E k \in Nat :
           /\ k = Smaller(s_len, length - pos) /\ k <= s_len /\ pos + k <= length
           /\ cpc = "recv" => down' = down \o Buffer(pos, k, s_len)
           /\ Buffer(pos, k, s_len) \in Seq(Int) /\ Len(Buffer(pos, k, s_len)) = s_len
           /\ \A i \in 1..s_len :
                Buffer(pos, k, s_len)[i] = IF i <= k THEN pos + i ELSE Pad
<1> DEFINE k == Smaller(s_len, length - pos)
<1>1. length \in Nat /\ pos \in Nat /\ pos <= length /\ s_len \in Nat /\ down \in Seq(Int)
  BY SizesTyping DEF TypeOK
<1>2. k \in Nat /\ k <= s_len /\ pos + k <= length
  BY <1>1 DEF Smaller
<1>3. cpc = "recv" =>
        down' = (down \o FileBytes(pos + 1, pos + k)) \o Pads(s_len - k)
  BY DEF Send
<1> SUFFICES /\ cpc = "recv" => down' = down \o Buffer(pos, k, s_len)
             /\ Buffer(pos, k, s_len) \in Seq(Int) /\ Len(Buffer(pos, k, s_len)) = s_len
             /\ \A i \in 1..s_len :
                  Buffer(pos, k, s_len)[i] = IF i <= k THEN pos + i ELSE Pad
  BY <1>2
<1> HIDE DEF k
<1>4. PICK j : j = k
  OBVIOUS
<1>5. pos \in Nat /\ j \in Nat /\ s_len \in Nat /\ j <= s_len /\ s_len - j \in Nat
  BY <1>1, <1>2, <1>4
<1>6. ASSUME cpc = "recv"
      PROVE  down' = down \o Buffer(pos, k, s_len)
  <2>1. FileBytes(pos + 1, pos + j) \in Seq(Int) /\ Pads(s_len - j) \in Seq(Int)
    BY <1>5, FileTyping, PadsTyping
  <2>2. ASSUME NEW f \in Seq(Int), NEW g \in Seq(Int)
        PROVE  (down \o f) \o g = down \o (f \o g)
    BY <1>1
  <2> QED
    BY <1>3, <1>4, <1>6, <2>1, <2>2, Zenon DEF Buffer
<1>7. /\ Buffer(pos, j, s_len) \in Seq(Int) /\ Len(Buffer(pos, j, s_len)) = s_len
      /\ \A i \in 1..s_len :
           Buffer(pos, j, s_len)[i] = IF i <= j THEN pos + i ELSE Pad
  BY <1>5, BufferTyping
<1> QED
  BY <1>4, <1>6, <1>7

(* The server reads a buffer and sends it.                                 *)
LEMMA SendInv ==
  ASSUME TypeOK, Inv, Send
  PROVE  TypeOK' /\ Inv'
<1>0. PICK k \in Nat :
        /\ k = Smaller(s_len, length - pos) /\ k <= s_len /\ pos + k <= length
        /\ cpc = "recv" => down' = down \o Buffer(pos, k, s_len)
        /\ Buffer(pos, k, s_len) \in Seq(Int) /\ Len(Buffer(pos, k, s_len)) = s_len
        /\ \A i \in 1..s_len :
             Buffer(pos, k, s_len)[i] = IF i <= k THEN pos + i ELSE Pad
  BY SendsBuffer
<1> DEFINE b == Buffer(pos, k, s_len)
<1>1. /\ file_size \in Nat /\ length \in Nat /\ pos \in Nat /\ pos <= length
      /\ s_len \in Nat /\ s_chunks \in Int
      /\ saved \in Seq(Int) /\ down \in Seq(Int) /\ old \in Nat
  BY SizesTyping DEF TypeOK
<1>2. k \in Nat /\ k <= s_len /\ pos + k <= length
  BY <1>0
<1>3. /\ spc = "send" /\ spc' = spc /\ cpc' = cpc /\ saved' = saved /\ old' = old
      /\ file_size' = file_size /\ chunk_size' = chunk_size /\ cut' = cut
      /\ length' = length /\ exists' = exists /\ messages' = messages
      /\ c_chunks' = c_chunks /\ c_len' = c_len
      /\ pos' = pos + k /\ s_chunks' = s_chunks - 1 /\ s_len' = NextLen(s_chunks - 1)
      /\ cpc # "recv" => down' = down
  BY <1>0 DEF Send, request, file, clientVars
<1>4. cpc = "recv" => down' = down \o b
  BY <1>0
<1>5. /\ b \in Seq(Int) /\ Len(b) = s_len
      /\ \A i \in 1..s_len : b[i] = IF i <= k THEN pos + i ELSE Pad
  BY <1>0
<1> HIDE DEF b
<1>6. down' \in Seq(Int) /\ (cpc = "recv" => Len(down') = Len(down) + s_len)
  <2>1. CASE cpc = "recv"
    <3>1. down \o b \in Seq(Int) /\ Len(down \o b) = Len(down) + Len(b)
      BY <1>1, <1>5, Joined
    <3> QED
      BY <1>4, <1>5, <2>1, <3>1
  <2>2. CASE cpc # "recv"
    BY <1>1, <1>3, <2>2
  <2> QED
    BY <2>1, <2>2
<1>7. s_len' \in Nat /\ s_chunks' \in Int /\ pos' \in 0..length'
  <2>1. s_chunks - 1 \in Int
    BY <1>1
  <2> QED
    BY <1>1, <1>2, <1>3, <2>1, SizesTyping
<1>8. TypeOK'
  BY <1>3, <1>6, <1>7 DEF TypeOK
<1>9. cpc \in {"recv", "offline"}
  BY <1>3 DEF Inv, Phases, TypeOK
<1>10. Phases'
  BY <1>3, <1>9 DEF Inv, Phases
<1>11. Counted'
  BY <1>1, <1>2, <1>3, <1>6, <1>9 DEF Inv, Counted
<1>12. NoByteLost'
  <2> SUFFICES ASSUME cpc = "recv" PROVE InOrder(saved \o down', pos + k)
    BY <1>3, <1>9 DEF NoByteLost
  <2> DEFINE s == saved \o down
             t == saved \o down'
  <2>1. s \in Seq(Int) /\ InOrder(s, pos) /\ Len(s) = Len(saved) + Len(down)
    BY <1>1 DEF Inv, NoByteLost
  <2>2. t = s \o b
    <3>1. saved \o (down \o b) = (saved \o down) \o b
      BY <1>1, <1>5
    <3> QED
      BY <1>4, <3>1
  <2> HIDE DEF s, t
  <2>3. /\ t \in Seq(Int) /\ Len(t) = Len(s) + Len(b)
        /\ \A i \in 1..(Len(s) + Len(b)) :
             t[i] = IF i <= Len(s) THEN s[i] ELSE b[i - Len(s)]
    BY <1>5, <2>1, <2>2, Joined
  <2>4. Len(t) >= Len(s) + k
    BY <1>1, <1>2, <1>5, <2>1, <2>3
  <2>5. \A i \in 1..Len(t) :
          t[i] = IF i <= Len(s) THEN s[i]
                 ELSE IF i <= Len(s) + k THEN pos + (i - Len(s)) ELSE Pad
    <3> SUFFICES ASSUME NEW i \in 1..Len(t), i > Len(s)
                 PROVE  t[i] = IF i <= Len(s) + k THEN pos + (i - Len(s)) ELSE Pad
      BY <1>5, <2>1, <2>3
    <3>1. i - Len(s) \in 1..s_len /\ (i - Len(s) <= k <=> i <= Len(s) + k)
      BY <1>1, <1>2, <1>5, <2>1, <2>3
    <3>2. t[i] = b[i - Len(s)]
      BY <1>1, <1>5, <2>1, <2>3
    <3> QED
      BY <1>5, <3>1, <3>2
  <2>6. InOrder(t, pos + k)
    BY <1>1, <1>2, <2>1, <2>3, <2>4, <2>5, OrderExtended
  <2> QED
    BY <2>6 DEF t
<1> QED
  BY <1>8, <1>10, <1>11, <1>12 DEF Inv

(* The client reads what has come and saves its whole buffer               *)
(* (ClientFileHandler 79-87).                                              *)
LEMMA ReceiveSaves ==
  ASSUME TypeOK, Receive
  PROVE  \E n \in ReadLengths :
           /\ n \in Nat /\ n <= c_len /\ n <= Len(down)
           /\ down' \in Seq(Int) /\ Len(down') = Len(down) - n
           /\ \A i \in 1..(Len(down) - n) : down'[i] = down[n + i]
           /\ saved' \in Seq(Int) /\ Len(saved') = Len(saved) + c_len
           /\ \A i \in 1..(Len(saved) + c_len) :
                saved'[i] = IF i <= Len(saved) THEN saved[i]
                            ELSE IF i <= Len(saved) + n THEN down[i - Len(saved)]
                            ELSE Pad
<1>1. saved \in Seq(Int) /\ down \in Seq(Int) /\ c_len \in Nat
  BY DEF TypeOK
<1>3. PICK n \in ReadLengths :
           /\ saved' = saved \o SubSeq(down, 1, n) \o Pads(c_len - n)
           /\ down' = SubSeq(down, n + 1, Len(down))
  BY DEF Receive
<1>4. n \in Nat /\ n <= c_len /\ n <= Len(down)
  BY <1>1 DEF ReadLengths, Smaller
<1> DEFINE m == c_len - n
           h == Len(saved) + n
           first == SubSeq(down, 1, n)
           pads == Pads(m)
<1>5. m \in Nat /\ h \in Nat
  BY <1>1, <1>4
<1>2. h + m = Len(saved) + c_len
  BY <1>1, <1>4
<1>6. /\ first \in Seq(Int) /\ Len(first) = n
      /\ \A i \in 1..n : first[i] = down[i]
  BY <1>1, <1>4
<1>7. pads \in Seq(Int) /\ Len(pads) = m /\ \A i \in 1..m : pads[i] = Pad
  BY <1>5, PadsTyping
<1>8. /\ down' \in Seq(Int) /\ Len(down') = Len(down) - n
      /\ \A i \in 1..(Len(down) - n) : down'[i] = down[n + i]
  BY <1>1, <1>3, <1>4, Left
<1>9. saved' = (saved \o first) \o pads
  BY <1>3
<1> HIDE DEF first, pads, m
<1>10. /\ saved' \in Seq(Int) /\ Len(saved') = h + m
       /\ \A i \in 1..(h + m) :
            saved'[i] = IF i <= Len(saved) THEN saved[i]
                        ELSE IF i <= h THEN down[i - Len(saved)] ELSE Pad
  <2> DEFINE a == saved \o first
  <2>1. /\ a \in Seq(Int) /\ Len(a) = h
        /\ \A i \in 1..h : a[i] = IF i <= Len(saved) THEN saved[i]
                                  ELSE first[i - Len(saved)]
    BY <1>1, <1>6, Joined
  <2> HIDE DEF a
  <2>2. /\ saved' \in Seq(Int) /\ Len(saved') = h + m
        /\ \A i \in 1..(h + m) :
             saved'[i] = IF i <= h THEN a[i] ELSE pads[i - h]
    <3>1. saved' = a \o pads
      BY <1>9 DEF a
    <3>2. /\ a \o pads \in Seq(Int) /\ Len(a \o pads) = Len(a) + Len(pads)
          /\ \A i \in 1..(Len(a) + Len(pads)) :
               (a \o pads)[i] = IF i <= Len(a) THEN a[i] ELSE pads[i - Len(a)]
      BY <1>7, <2>1, Joined, Zenon
    <3>3. Len(a) = h /\ Len(pads) = m
      BY <1>7, <2>1
    <3> QED
      BY <3>1, <3>2, <3>3, Zenon
  <2>3. \A i \in 1..(h + m) :
          /\ i > Len(saved) /\ i <= h => i - Len(saved) \in 1..n
          /\ i > h => i - h \in 1..m
          /\ i <= h => i \in 1..h
          /\ i <= Len(saved) => i <= h
    BY <1>1, <1>4, <1>5
  <2> SUFFICES ASSUME NEW i \in 1..(h + m)
               PROVE  saved'[i] = IF i <= Len(saved) THEN saved[i]
                                  ELSE IF i <= h THEN down[i - Len(saved)] ELSE Pad
    BY <2>2
  <2>4. CASE i <= Len(saved)
    BY <2>1, <2>2, <2>3, <2>4
  <2>5. CASE ~(i <= Len(saved)) /\ i <= h
    <3>1. i - Len(saved) \in 1..n
      BY <1>1, <1>4, <1>5, <2>5
    <3> QED
      BY <1>6, <2>1, <2>2, <2>3, <2>5, <3>1
  <2>6. CASE ~(i <= h) /\ ~(i <= Len(saved))
    <3>1. i - h \in 1..m
      BY <1>5, <2>6
    <3> QED
      BY <1>7, <2>2, <2>6, <3>1
  <2> QED
    BY <1>1, <1>4, <1>5, <2>3, <2>4, <2>5, <2>6
<1> QED
  BY <1>2, <1>4, <1>8, <1>10 DEF h

(* A read of the client puts padding where the read ended, and keeps the   *)
(* rest.                                                                   *)
LEMMA ReceiveInv ==
  ASSUME TypeOK, Inv, Receive
  PROVE  TypeOK' /\ Inv'
<1>1. /\ saved \in Seq(Int) /\ down \in Seq(Int) /\ c_len \in Nat /\ c_chunks \in Int
      /\ pos \in Nat /\ old \in Nat
  BY SizesTyping DEF TypeOK
<1>2. /\ cpc = "recv" /\ cpc' = cpc /\ spc' = spc /\ pos' = pos /\ old' = old
      /\ file_size' = file_size /\ chunk_size' = chunk_size /\ cut' = cut
      /\ length' = length /\ exists' = exists /\ messages' = messages
      /\ s_chunks' = s_chunks /\ s_len' = s_len
      /\ c_chunks' = c_chunks - 1 /\ c_len' = NextLen(c_chunks - 1)
  BY DEF Receive, request, file, serverVars
<1>3. PICK n \in ReadLengths :
        /\ n \in Nat /\ n <= c_len /\ n <= Len(down)
        /\ down' \in Seq(Int) /\ Len(down') = Len(down) - n
        /\ \A i \in 1..(Len(down) - n) : down'[i] = down[n + i]
        /\ saved' \in Seq(Int) /\ Len(saved') = Len(saved) + c_len
        /\ \A i \in 1..(Len(saved) + c_len) :
             saved'[i] = IF i <= Len(saved) THEN saved[i]
                         ELSE IF i <= Len(saved) + n THEN down[i - Len(saved)]
                         ELSE Pad
  BY ReceiveSaves
<1> DEFINE m == c_len - n
           h == Len(saved) + n
<1>4. n \in Nat /\ n <= c_len /\ n <= Len(down)
  BY <1>3
<1>5. m \in Nat /\ h \in Nat
  BY <1>1, <1>4
<1>6. h + m = Len(saved) + c_len
  BY <1>1, <1>4
<1>8. /\ down' \in Seq(Int) /\ Len(down') = Len(down) - n
      /\ \A i \in 1..(Len(down) - n) : down'[i] = down[n + i]
  BY <1>3
<1> HIDE DEF m
<1>10. /\ saved' \in Seq(Int) /\ Len(saved') = h + m
       /\ \A i \in 1..(h + m) :
            saved'[i] = IF i <= Len(saved) THEN saved[i]
                        ELSE IF i <= h THEN down[i - Len(saved)] ELSE Pad
  BY <1>3, <1>6
<1>11. TypeOK'
  <2>1. c_chunks - 1 \in Int
    BY <1>1
  <2>2. c_len' \in Nat /\ c_chunks' \in Int
    BY <1>2, <2>1, SizesTyping
  <2> QED
    BY <1>2, <1>8, <1>10, <2>2 DEF TypeOK
<1>12. Phases'
  BY <1>2 DEF Inv, Phases
<1>13. Len(saved') + Len(down') = Len(saved) + Len(down) + m
  <2>1. Len(saved') = Len(saved) + n + m /\ Len(down') = Len(down) - n
    BY <1>8, <1>10
  <2> QED
    BY <1>1, <1>4, <1>5, <2>1
<1>14. Counted'
  <2>1. Len(saved) + Len(down) >= old + pos
    BY <1>2 DEF Inv, Counted
  <2>2. Len(saved') + Len(down') >= old + pos
    BY <1>1, <1>5, <1>13, <2>1
  <2> QED
    BY <1>2, <2>2 DEF Inv, Counted
<1>15. NoByteLost'
  <2> DEFINE s == saved \o down
             t == saved' \o down'
  <2>1. /\ s \in Seq(Int) /\ Len(s) = Len(saved) + Len(down)
        /\ \A i \in 1..(Len(saved) + Len(down)) :
             s[i] = IF i <= Len(saved) THEN saved[i] ELSE down[i - Len(saved)]
    BY <1>1, Joined
  <2>2. /\ t \in Seq(Int) /\ Len(t) = Len(saved') + Len(down')
        /\ \A i \in 1..(Len(saved') + Len(down')) :
             t[i] = IF i <= Len(saved') THEN saved'[i] ELSE down'[i - Len(saved')]
    BY <1>8, <1>10, Joined
  <2>3. InOrder(s, pos)
    BY <1>2 DEF Inv, NoByteLost
  <2> HIDE DEF s, t
  <2>4. Len(t) = Len(s) + m /\ h \in 0..Len(s)
    BY <1>1, <1>4, <1>5, <1>13, <2>1, <2>2
  <2>5. \A i \in 1..Len(t) :
          t[i] = IF i <= h THEN s[i] ELSE IF i <= h + m THEN Pad ELSE s[i - m]
    <3> SUFFICES ASSUME NEW i \in 1..Len(t)
                 PROVE  t[i] = IF i <= h THEN s[i]
                               ELSE IF i <= h + m THEN Pad ELSE s[i - m]
      OBVIOUS
    <3>1. CASE i <= h
      <4>1. i \in 1..(h + m) /\ i \in 1..(Len(saved') + Len(down')) /\ i <= Len(saved')
        BY <1>5, <1>8, <1>10, <2>2, <3>1
      <4>2. i \in 1..(Len(saved) + Len(down))
        BY <1>1, <1>4, <3>1
      <4>3. t[i] = saved'[i]
        BY <2>2, <4>1
      <4> QED
        BY <1>10, <2>1, <3>1, <4>1, <4>2, <4>3
    <3>2. CASE ~(i <= h) /\ i <= h + m
      <4>1. i \in 1..(h + m) /\ i \in 1..(Len(saved') + Len(down')) /\ i <= Len(saved')
        BY <1>5, <1>8, <1>10, <2>2, <3>2
      <4>2. ~(i <= Len(saved))
        BY <1>1, <1>4, <3>2
      <4>3. t[i] = saved'[i]
        BY <2>2, <4>1
      <4> QED
        BY <1>10, <3>2, <4>1, <4>2, <4>3
    <3>3. CASE ~(i <= h) /\ ~(i <= h + m)
      <4>1. /\ i \in 1..(Len(saved') + Len(down')) /\ ~(i <= Len(saved'))
            /\ i - (h + m) \in 1..(Len(down) - n)
            /\ i - m \in 1..(Len(saved) + Len(down)) /\ ~(i - m <= Len(saved))
            /\ n + (i - (h + m)) = (i - m) - Len(saved)
        <5>1. /\ Len(saved) \in Nat /\ Len(down) \in Nat /\ h = Len(saved) + n
              /\ Len(saved') = h + m /\ Len(down') = Len(down) - n
              /\ Len(t) = Len(saved') + Len(down')
          BY <1>1, <1>8, <1>10, <2>2
        <5>2. i \in 1..(Len(saved') + Len(down'))
          BY <5>1
        <5> HIDE DEF h
        <5> QED
          BY <1>4, <1>5, <3>3, <5>1, <5>2
      <4>2. t[i] = down'[i - (h + m)]
        BY <1>10, <2>2, <4>1
      <4>3. t[i] = down[(i - m) - Len(saved)]
        BY <1>8, <4>1, <4>2
      <4>4. s[i - m] = down[(i - m) - Len(saved)]
        BY <2>1, <4>1
      <4> QED
        BY <3>3, <4>3, <4>4
    <3> QED
      BY <1>5, <3>1, <3>2, <3>3
  <2>6. InOrder(t, pos)
    BY <1>1, <1>5, <2>1, <2>2, <2>3, <2>4, <2>5, OrderPadded
  <2> QED
    BY <1>2, <2>6 DEF NoByteLost, t
<1> QED
  BY <1>11, <1>12, <1>14, <1>15 DEF Inv

(* A message more.                                                         *)
LEMMA Told ==
  ASSUME NEW S, NEW s \in Seq(S), NEW w \in S
  PROVE  /\ Len(Append(s, w)) = Len(s) + 1
         /\ Append(s, w)[Len(s) + 1] = w
         /\ \A i \in 1..Len(s) : Append(s, w)[i] = s[i]
OBVIOUS

(* The other steps send nothing and save nothing.                          *)
LEMMA OtherInv ==
  ASSUME TypeOK, Inv,
         \/ Accept \/ Open \/ OpenFails \/ SendFails \/ SendEof \/ Tell
         \/ Connect \/ ReceiveEof \/ Leave \/ Grow \/ DeleteFile \/ UNCHANGED vars
  PROVE  TypeOK' /\ Inv'
<1>1. /\ file_size' = file_size /\ chunk_size' = chunk_size /\ old' = old /\ cut' = cut
      /\ pos' = pos /\ saved' = saved /\ s_chunks' = s_chunks /\ s_len' = s_len
      /\ c_chunks' = c_chunks /\ c_len' = c_len
      /\ down' = down \/ (Leave /\ down' = <<>>)
  BY DEF Accept, Open, OpenFails, SendFails, SendEof, Tell, Fail, Connect,
         ReceiveEof, Leave, Grow, DeleteFile, request, file, serverVars,
         clientVars, vars
<1>2. /\ file_size \in Nat /\ length \in Nat /\ length >= file_size /\ pos \in Nat
      /\ pos <= length /\ MaxGrowth \in Nat /\ old \in Nat
  BY SizesTyping, DownloadAssumption
<1>3. length' \in file_size..(file_size + MaxGrowth) /\ pos \in 0..length'
  <2>1. length' = length \/ (length < file_size + MaxGrowth /\ length' = length + 1)
    BY DEF Accept, Open, OpenFails, SendFails, SendEof, Tell, Fail, Connect,
           ReceiveEof, Leave, Grow, DeleteFile, file, vars
  <2> QED
    BY <1>2, <2>1 DEF TypeOK
<1>4. exists' \in BOOLEAN
  BY DEF Accept, Open, OpenFails, SendFails, SendEof, Tell, Fail, Connect,
         ReceiveEof, Leave, Grow, DeleteFile, file, vars, TypeOK
<1>5. /\ spc' \in {"accept", "open", "send", "close", "told", "failed"}
      /\ cpc' \in {"connect", "recv", "closed", "offline"}
  BY DEF Accept, Open, OpenFails, SendFails, SendEof, Tell, Fail, Connect,
         ReceiveEof, Leave, Grow, DeleteFile, serverVars, clientVars, vars, TypeOK
<1>6. messages' \in Seq({"started", "successful", "failed"})
  <2>1. \/ messages' = messages
        \/ \E w \in {"started", "successful", "failed"} : messages' = Append(messages, w)
    BY DEF Accept, Open, OpenFails, SendFails, SendEof, Tell, Fail, Connect,
           ReceiveEof, Leave, Grow, DeleteFile, serverVars, vars
  <2>2. messages \in Seq({"started", "successful", "failed"})
    BY DEF TypeOK
  <2>3. \A w \in {"started", "successful", "failed"} :
          Append(messages, w) \in Seq({"started", "successful", "failed"})
    BY <2>2
  <2> QED
    BY <2>1, <2>2, <2>3
<1>7. down' \in Seq(Int)
  <2>1. <<>> \in Seq(Int)
    OBVIOUS
  <2> QED
    BY <1>1, <2>1 DEF TypeOK
<1>8. TypeOK'
  BY <1>1, <1>3, <1>4, <1>5, <1>6, <1>7 DEF TypeOK
<1>9. Phases'
  <2>0. messages \in Seq({"started", "successful", "failed"})
    BY DEF TypeOK
  <2>1. CASE Accept
    BY <2>1 DEF Accept, clientVars, Inv, Phases, TypeOK
  <2>2. CASE Open
    <3>1. Len(messages) = 0 /\ spc' = "send" /\ messages' = Append(messages, "started")
      BY <2>2 DEF Open, Inv, Phases
    <3>2. Len(messages') = 1 /\ messages'[1] = "started"
      BY <2>0, <3>1
    <3> QED
      BY <2>2, <3>1, <3>2 DEF Open, clientVars, Inv, Phases
  <2>3. CASE OpenFails \/ SendFails
    BY <2>3 DEF OpenFails, SendFails, Fail, clientVars, Inv, Phases
  <2>4. CASE SendEof
    BY <2>4 DEF SendEof, clientVars, Inv, Phases
  <2>5. CASE Tell
    <3>1. /\ Len(messages) = 1 /\ messages[1] = "started"
          /\ messages' = Append(messages, "successful")
      BY <2>5 DEF Tell, Inv, Phases
    <3>2. /\ Len(messages') = Len(messages) + 1
          /\ messages'[Len(messages) + 1] = "successful"
          /\ \A i \in 1..Len(messages) : messages'[i] = messages[i]
      <4>1. PICK S : S = {"started", "successful", "failed"}
        OBVIOUS
      <4>2. messages \in Seq(S) /\ "successful" \in S
        BY <2>0, <4>1
      <4>3. /\ Len(Append(messages, "successful")) = Len(messages) + 1
            /\ Append(messages, "successful")[Len(messages) + 1] = "successful"
            /\ \A i \in 1..Len(messages) : Append(messages, "successful")[i] = messages[i]
        BY <4>2, Told, Zenon
      <4> QED
        BY <3>1, <4>3, Zenon
    <3>3. Len(messages') = 2 /\ messages'[1] = "started" /\ messages'[2] = "successful"
      BY <3>1, <3>2
    <3> QED
      BY <2>5, <3>1, <3>3 DEF Tell, clientVars, Inv, Phases
  <2>6. CASE Connect \/ ReceiveEof \/ Leave
    BY <2>6 DEF Connect, ReceiveEof, Leave, serverVars, Inv, Phases
  <2>7. CASE Grow \/ DeleteFile \/ UNCHANGED vars
    BY <2>7 DEF Grow, DeleteFile, vars, serverVars, clientVars, Inv, Phases
  <2> QED
    BY <2>1, <2>2, <2>3, <2>4, <2>5, <2>6, <2>7
<1>10. CASE Connect
  <2>1. /\ cpc = "connect" /\ cpc' = "recv" /\ down' = down /\ spc' = spc
        /\ saved = OldBytes(old) /\ down = <<>> /\ pos = 0
    BY <1>10 DEF Connect, serverVars, Inv, Counted, Phases
  <2>2. /\ OldBytes(old) \in Seq(Int) /\ Len(OldBytes(old)) = old
        /\ \A i \in 1..old : OldBytes(old)[i] = -i
    BY <1>2, OldTyping
  <2>3. saved \o down = saved /\ Len(saved) = old /\ Len(down) = 0
    BY <2>1, <2>2
  <2>4. InOrder(saved, 0)
    BY <1>2, <2>1, <2>2 DEF InOrder
  <2>5. Counted' /\ NoByteLost'
    BY <1>1, <1>2, <2>1, <2>3, <2>4 DEF Inv, Phases, Counted, NoByteLost
  <2> QED
    BY <1>8, <1>9, <2>5 DEF Inv
<1>11. CASE ~Connect
  <2>1. /\ cpc' \in {"recv", "closed"} => cpc \in {"recv", "closed"} /\ down' = down
        /\ cpc' = "connect" => cpc = "connect" /\ down' = down
    BY <1>1, <1>11 DEF Accept, Open, OpenFails, SendFails, SendEof, Tell, Fail,
       ReceiveEof, Leave, Grow, DeleteFile, clientVars, vars
  <2>2. /\ spc' = "accept" => spc = "accept"
        /\ spc' \in {"close", "told"} => spc \in {"close", "told"} \/ pos = length
    BY DEF Accept, Open, OpenFails, SendFails, SendEof, Tell, Fail, Connect,
           ReceiveEof, Leave, Grow, DeleteFile, serverVars, vars
  <2>3. Counted' /\ NoByteLost'
    BY <1>1, <1>2, <2>1, <2>2 DEF Inv, Counted, NoByteLost
  <2> QED
    BY <1>8, <1>9, <2>3 DEF Inv
<1> QED
  BY <1>10, <1>11

(* Every step keeps types and invariant.                                   *)
LEMMA StepInv == TypeOK /\ Inv /\ [Next]_vars => TypeOK' /\ Inv'
BY SendInv, ReceiveInv, OtherInv DEF Next, Server, Client

(* The invariant the theorems below rest on, for all sizes, however the    *)
(* file grows and the stream is split.                                     *)
THEOREM DownloadInvariant == Spec => [](TypeOK /\ Inv)
<1> QED
  BY InitInv, StepInv, PTL DEF Spec

(* The two loops, their buffers and what is between them stay of their     *)
(* types: the server never reads past the end of the file.                 *)
THEOREM DownloadTypes == Spec => []TypeOK
<1>1. TypeOK /\ Inv => TypeOK
  OBVIOUS
<1> QED
  BY <1>1, DownloadInvariant, PTL

(* What the server has read of the file reaches the file in Downloads once *)
(* and in order, whatever pads the buffers between (ServerDownloadHandler  *)
(* 55-63, ClientFileHandler 79-87).                                        *)
THEOREM DownloadNoByteLost == Spec => []NoByteLost
<1>1. TypeOK /\ Inv => NoByteLost
  BY DEF Inv
<1> QED
  BY <1>1, DownloadInvariant, PTL

(* A client that has seen the end of the stream has at least as much as    *)
(* the file had when it was asked for, and was never told of a failure     *)
(* (ServerDownloadHandler 65-79).                                          *)
THEOREM DownloadClosed == Spec => []ClosedIsToldSuccess
<1>1. TypeOK /\ Inv => ClosedIsToldSuccess
  <2> SUFFICES ASSUME TypeOK, Inv, cpc = "closed"
               PROVE  /\ Len(saved) >= old + file_size
                      /\ messages \in {<<"started">>, <<"started", "successful">>}
    BY DEF ClosedIsToldSuccess
  <2>1. spc \in {"close", "told"} /\ Len(down) = 0
    BY DEF Inv, Phases
  <2>2. Len(saved) + Len(down) >= old + pos /\ pos >= file_size
    BY <2>1 DEF Inv, Counted
  <2>3. Len(saved) \in Nat /\ old \in Nat /\ pos \in Nat /\ file_size \in Nat
    BY SizesTyping DEF TypeOK
  <2>4. messages \in {<<"started">>, <<"started", "successful">>}
    <3>1. messages \in Seq({"started", "successful", "failed"})
      BY DEF TypeOK
    <3>2. CASE Len(messages) = 1 /\ messages[1] = "started"
      BY <3>1, <3>2
    <3>3. CASE Len(messages) = 2 /\ messages[1] = "started" /\ messages[2] = "successful"
      BY <3>1, <3>3
    <3> QED
      BY <2>1, <3>2, <3>3 DEF Inv, Phases
  <2> QED
    BY <2>1, <2>2, <2>3, <2>4
<1> QED
  BY <1>1, DownloadInvariant, PTL


-----------------------------------------------------------------------------
(* A file of at least one chunk that nobody changes, each chunk of which   *)
(* arrives in one piece: the two loops count the same chunks.              *)
Plain == ~cut /\ Unchanged /\ file_size >= chunk_size

(* How much of the file is sent while n chunks are left.                   *)
Sent(n) == IF n >= 1 THEN chunk_size * (NChunks(file_size, chunk_size) - n)
                     ELSE file_size

(* So what the server has read, and what the client has saved, is what     *)
(* their counters say; what is between them is the rest.                   *)
Straight ==
  Plain =>
    /\ s_chunks \in 0..NChunks(file_size, chunk_size)
    /\ pos = Sent(s_chunks) /\ s_len = NextLen(s_chunks)
    /\ cpc # "offline" =>
         /\ c_chunks \in 0..NChunks(file_size, chunk_size)
         /\ c_len = NextLen(c_chunks)
         /\ Len(saved) = old + Sent(c_chunks)
         /\ Len(down) = pos - Sent(c_chunks)
         /\ \A i \in 1..Len(saved) : saved[i] = IF i <= old THEN -i ELSE i - old
         /\ \A i \in 1..Len(down) : down[i] = Sent(c_chunks) + i

(* The sizes of the chunks add up to that of the file                      *)
(* (ServerDownloadHandler 42-46, 60-62; ClientFileHandler 72-76, 84-86).   *)
LEMMA SentArithmetic ==
  ASSUME TypeOK, file_size >= chunk_size
  PROVE  LET N == NChunks(file_size, chunk_size) IN
         /\ N \in Nat /\ N >= 2 /\ NextLen(N) = chunk_size
         /\ Sent(N) = 0 /\ Sent(0) = file_size
         /\ NextLen(0) = chunk_size /\ chunk_size > 0
         /\ \A n \in 0..N : Sent(n) \in Nat /\ Sent(n) <= file_size /\ NextLen(n) \in Nat
         /\ \A n \in 1..N : Sent(n - 1) = Sent(n) + NextLen(n)
         /\ \A n \in 0..N, k \in 0..N : n <= k => Sent(k) <= Sent(n)
<1> DEFINE N == NChunks(file_size, chunk_size)
           L == LastChunk(file_size, chunk_size)
<1>1. /\ file_size \in Nat /\ chunk_size \in Nat \ {0}
      /\ N \in Nat \ {0} /\ N >= 2 /\ L \in Nat /\ L < chunk_size
      /\ file_size = chunk_size * (N - 1) + L
  BY SizesTyping, ChunkArithmetic
<1>2. /\ \A n \in Int : NextLen(n) = IF n = 1 THEN L ELSE chunk_size
      /\ \A n \in Int : Sent(n) = IF n >= 1 THEN chunk_size * (N - n) ELSE file_size
  BY DEF NextLen, Sent
<1> HIDE DEF N, L
<1>3. ASSUME NEW c \in Nat, NEW x \in Nat
      PROVE  /\ c * x \in Nat /\ c * (x + 1) = c * x + c
             /\ \A y \in Nat : c * (x + y) = c * x + c * y /\ c * y \in Nat
             /\ c * 0 = 0 /\ c * 1 = c
  BY <1>3, Z3
<1>4. ASSUME NEW n \in 1..N
      PROVE  Sent(n - 1) = Sent(n) + NextLen(n)
  <2>1. CASE n = 1
    BY <1>1, <1>2, <2>1
  <2>2. CASE n > 1
    <3>1. N - n \in Nat /\ N - (n - 1) = (N - n) + 1
      BY <1>1
    <3>2. chunk_size * (N - (n - 1)) = chunk_size * (N - n) + chunk_size
      BY <1>1, <1>3, <3>1
    <3> QED
      BY <1>1, <1>2, <2>2, <3>2
  <2> QED
    BY <2>1, <2>2
<1>5. ASSUME NEW n \in 1..N
      PROVE  Sent(n) \in Nat /\ Sent(n) <= chunk_size * (N - 1)
  <2>1. N - n \in Nat /\ n - 1 \in Nat /\ N - 1 = (N - n) + (n - 1)
    BY <1>1
  <2>2. /\ chunk_size * (N - n) \in Nat /\ chunk_size * (n - 1) \in Nat
        /\ chunk_size * (N - 1) = chunk_size * (N - n) + chunk_size * (n - 1)
    BY <1>1, <1>3, <2>1
  <2>3. Sent(n) = chunk_size * (N - n)
    BY <1>1, <1>2
  <2> QED
    BY <2>2, <2>3
<1>6. /\ Sent(0) = file_size /\ N - 1 \in Nat /\ chunk_size * (N - 1) \in Nat
      /\ chunk_size * (N - 1) <= file_size
  <2>1. N - 1 \in Nat
    BY <1>1
  <2>2. chunk_size * (N - 1) \in Nat
    BY <1>1, <1>3, <2>1
  <2> QED
    BY <1>1, <1>2, <2>1, <2>2
<1>7. Sent(N) = 0
  <2>1. N - N = 0 /\ chunk_size * 0 = 0
    BY <1>1, <1>3
  <2> QED
    BY <1>1, <1>2, <2>1
<1>8. ASSUME NEW n \in 0..N
      PROVE  Sent(n) \in Nat /\ Sent(n) <= file_size /\ NextLen(n) \in Nat
  <2>1. CASE n = 0
    BY <1>1, <1>2, <1>6, <2>1
  <2>2. CASE n # 0
    <3>1. n \in 1..N
      BY <1>1, <2>2
    <3>2. Sent(n) \in Nat /\ Sent(n) <= chunk_size * (N - 1)
      BY <1>5, <3>1
    <3> QED
      BY <1>1, <1>2, <1>6, <3>2
  <2> QED
    BY <2>1, <2>2
<1>9. ASSUME NEW n \in 0..N, NEW k \in 0..N, n <= k
      PROVE  Sent(k) <= Sent(n)
  <2>1. CASE n = 0
    BY <1>6, <1>8, <2>1
  <2>2. CASE n # 0
    <3>1. N - k \in Nat /\ k - n \in Nat /\ N - n = (N - k) + (k - n)
      BY <1>1, <1>9
    <3>2. /\ chunk_size * (N - k) \in Nat /\ chunk_size * (k - n) \in Nat
          /\ chunk_size * (N - n) = chunk_size * (N - k) + chunk_size * (k - n)
      BY <1>1, <1>3, <3>1
    <3>3. Sent(n) = chunk_size * (N - n) /\ Sent(k) = chunk_size * (N - k)
      BY <1>1, <1>2, <1>9, <2>2
    <3> QED
      BY <3>2, <3>3
  <2> QED
    BY <2>1, <2>2
<1>10. NextLen(N) = chunk_size /\ NextLen(0) = chunk_size
  BY <1>1, <1>2
<1> QED
  BY <1>1, <1>4, <1>6, <1>7, <1>8, <1>9, <1>10 DEF N

(* Nothing has been read or saved.                                         *)
LEMMA InitStraight == Init => Straight
<1> SUFFICES ASSUME Init, Plain PROVE Straight
  BY DEF Straight
<1>1. TypeOK /\ file_size >= chunk_size
  BY InitInv DEF Plain
<1>2. LET N == NChunks(file_size, chunk_size) IN
      N \in 0..N /\ NextLen(N) = chunk_size /\ Sent(N) = 0
  BY <1>1, SentArithmetic
<1>3. old \in Nat /\ OldBytes(old) \in Seq(Int) /\ Len(OldBytes(old)) = old
      /\ \A i \in 1..old : OldBytes(old)[i] = -i
  BY <1>1, SizesTyping, OldTyping
<1>4. /\ s_chunks = NChunks(file_size, chunk_size) /\ s_len = chunk_size
      /\ c_chunks = NChunks(file_size, chunk_size) /\ c_len = chunk_size
      /\ pos = 0 /\ saved = OldBytes(old) /\ down = <<>>
  BY DEF Init
<1>5. Len(saved) = old /\ \A i \in 1..Len(saved) : saved[i] = IF i <= old THEN -i ELSE i - old
  BY <1>3, <1>4
<1>6. Len(down) = 0
  BY <1>4
<1> QED
  BY <1>2, <1>3, <1>4, <1>5, <1>6 DEF Straight

(* The server sends a whole chunk.                                         *)
LEMMA SendStraight ==
  ASSUME TypeOK, Inv, Straight, Send, Plain
  PROVE  Straight'
<1> DEFINE N == NChunks(file_size, chunk_size)
<1>1. PICK k \in Nat :
        /\ k = Smaller(s_len, length - pos) /\ k <= s_len /\ pos + k <= length
        /\ cpc = "recv" => down' = down \o Buffer(pos, k, s_len)
        /\ Buffer(pos, k, s_len) \in Seq(Int) /\ Len(Buffer(pos, k, s_len)) = s_len
        /\ \A i \in 1..s_len :
             Buffer(pos, k, s_len)[i] = IF i <= k THEN pos + i ELSE Pad
  BY SendsBuffer
<1> DEFINE b == Buffer(pos, k, s_len)
<1>2. /\ spc = "send" /\ cpc' = cpc /\ saved' = saved /\ old' = old
      /\ file_size' = file_size /\ chunk_size' = chunk_size
      /\ c_chunks' = c_chunks /\ c_len' = c_len
      /\ pos' = pos + k /\ s_chunks' = s_chunks - 1 /\ s_len' = NextLen(s_chunks - 1)
      /\ pos < length \/ s_len = 0
  BY <1>1 DEF Send, request, file, clientVars
<1>3. cpc \in {"recv", "offline"}
  BY <1>2 DEF Inv, Phases, TypeOK
<1>4. /\ s_chunks \in 0..N /\ pos = Sent(s_chunks) /\ s_len = NextLen(s_chunks)
      /\ cpc = "recv" =>
           /\ c_chunks \in 0..N /\ c_len = NextLen(c_chunks)
           /\ Len(saved) = old + Sent(c_chunks) /\ Len(down) = pos - Sent(c_chunks)
           /\ \A i \in 1..Len(saved) : saved[i] = IF i <= old THEN -i ELSE i - old
           /\ \A i \in 1..Len(down) : down[i] = Sent(c_chunks) + i
  BY <1>3 DEF Straight
<1>5. /\ N \in Nat /\ Sent(0) = file_size /\ NextLen(0) > 0
      /\ \A n \in 0..N : Sent(n) \in Nat /\ Sent(n) <= file_size /\ NextLen(n) \in Nat
      /\ \A n \in 1..N : Sent(n - 1) = Sent(n) + NextLen(n)
  BY SentArithmetic DEF Plain
<1>6. length = file_size /\ file_size \in Nat
  BY SizesTyping DEF Plain, Unchanged
<1> HIDE DEF N
<1>7. s_chunks \in 1..N /\ s_chunks - 1 \in 0..N
  BY <1>2, <1>4, <1>5, <1>6
<1>8. k = s_len /\ pos' = Sent(s_chunks - 1)
  <2>1. Sent(s_chunks - 1) = pos + s_len
    BY <1>4, <1>5, <1>7
  <2>2. pos + s_len <= length
    BY <1>5, <1>6, <1>7, <2>1
  <2>3. pos \in Nat /\ s_len \in Nat /\ length \in Nat
    BY <1>4, <1>5, <1>6
  <2>4. k = s_len
    BY <1>1, <2>2, <2>3 DEF Smaller
  <2> QED
    BY <1>2, <2>1, <2>4
<1>9. ASSUME cpc = "recv"
      PROVE  /\ Len(down') = pos' - Sent(c_chunks)
             /\ \A i \in 1..Len(down') : down'[i] = Sent(c_chunks) + i
  <2>1. down \in Seq(Int) /\ down' = down \o b /\ b \in Seq(Int) /\ Len(b) = s_len
    BY <1>1, <1>9 DEF TypeOK
  <2>2. \A i \in 1..s_len : b[i] = pos + i
    BY <1>1, <1>8
  <2>3. /\ Sent(c_chunks) \in Nat /\ pos \in Nat /\ s_len \in Nat
        /\ Len(down) = pos - Sent(c_chunks)
        /\ \A i \in 1..Len(down) : down[i] = Sent(c_chunks) + i
    BY <1>4, <1>5, <1>9
  <2> HIDE DEF b
  <2>4. /\ Len(down') = Len(down) + s_len
        /\ \A i \in 1..(Len(down) + s_len) :
             down'[i] = IF i <= Len(down) THEN down[i] ELSE b[i - Len(down)]
    BY <2>1, Joined
  <2>5. Len(down') = pos' - Sent(c_chunks)
    BY <1>2, <1>8, <2>3, <2>4
  <2>6. ASSUME NEW i \in 1..Len(down')
        PROVE  down'[i] = Sent(c_chunks) + i
    <3>1. CASE i <= Len(down)
      BY <2>1, <2>3, <2>4, <3>1
    <3>2. CASE ~(i <= Len(down))
      <4>1. i - Len(down) \in 1..s_len
        BY <2>1, <2>3, <2>4, <3>2
      <4>2. down'[i] = pos + (i - Len(down))
        BY <2>2, <2>4, <3>2, <4>1
      <4> QED
        BY <2>1, <2>3, <4>2
    <3> QED
      BY <3>1, <3>2
  <2> QED
    BY <2>5, <2>6
<1>10. Sent(c_chunks)' = Sent(c_chunks) /\ Sent(s_chunks)' = Sent(s_chunks - 1)
       /\ NextLen(c_chunks)' = NextLen(c_chunks) /\ NextLen(s_chunks)' = NextLen(s_chunks - 1)
       /\ NChunks(file_size, chunk_size)' = N
  BY <1>2 DEF Sent, NextLen, N
<1> QED
  BY <1>2, <1>3, <1>4, <1>7, <1>8, <1>9, <1>10 DEF Straight, N

(* The client reads and saves a whole chunk.                               *)
LEMMA ReceiveStraight ==
  ASSUME TypeOK, Inv, Straight, Receive, Plain
  PROVE  Straight'
<1> DEFINE N == NChunks(file_size, chunk_size)
<1>1. PICK n \in ReadLengths :
        /\ n \in Nat /\ n <= c_len /\ n <= Len(down)
        /\ down' \in Seq(Int) /\ Len(down') = Len(down) - n
        /\ \A i \in 1..(Len(down) - n) : down'[i] = down[n + i]
        /\ saved' \in Seq(Int) /\ Len(saved') = Len(saved) + c_len
        /\ \A i \in 1..(Len(saved) + c_len) :
             saved'[i] = IF i <= Len(saved) THEN saved[i]
                         ELSE IF i <= Len(saved) + n THEN down[i - Len(saved)]
                         ELSE Pad
  BY ReceiveSaves
<1>2. /\ cpc = "recv" /\ cpc' = cpc /\ pos' = pos /\ old' = old
      /\ file_size' = file_size /\ chunk_size' = chunk_size
      /\ s_chunks' = s_chunks /\ s_len' = s_len
      /\ c_chunks' = c_chunks - 1 /\ c_len' = NextLen(c_chunks - 1)
  BY DEF Receive, request, file, serverVars
<1>3. /\ s_chunks \in 0..N /\ pos = Sent(s_chunks) /\ s_len = NextLen(s_chunks)
      /\ c_chunks \in 0..N /\ c_len = NextLen(c_chunks)
      /\ Len(saved) = old + Sent(c_chunks) /\ Len(down) = pos - Sent(c_chunks)
      /\ \A i \in 1..Len(saved) : saved[i] = IF i <= old THEN -i ELSE i - old
      /\ \A i \in 1..Len(down) : down[i] = Sent(c_chunks) + i
  BY <1>2 DEF Straight
<1>4. /\ N \in Nat /\ Sent(0) = file_size /\ NextLen(0) > 0
      /\ \A m \in 0..N : Sent(m) \in Nat /\ Sent(m) <= file_size /\ NextLen(m) \in Nat
      /\ \A m \in 1..N : Sent(m - 1) = Sent(m) + NextLen(m)
      /\ \A m \in 0..N, k \in 0..N : m <= k => Sent(k) <= Sent(m)
  BY SentArithmetic DEF Plain
<1>5. /\ old \in Nat /\ saved \in Seq(Int) /\ down \in Seq(Int) /\ c_len \in Nat
      /\ Len(saved) \in Nat /\ Len(down) \in Nat
  <2>1. saved \in Seq(Int) /\ down \in Seq(Int) /\ c_len \in Nat
    BY DEF TypeOK
  <2>2. old \in Nat
    BY SizesTyping
  <2>3. Len(saved) \in Nat /\ Len(down) \in Nat
    BY <2>1
  <2> QED
    BY <2>1, <2>2, <2>3
<1>6. n = Smaller(c_len, Len(down)) /\ (n > 0 \/ c_len = 0)
  BY DEF ReadLengths, Plain
<1> HIDE DEF N
<1>7. c_chunks \in 1..N /\ c_chunks - 1 \in 0..N
  <2>1. ASSUME c_chunks = 0 PROVE FALSE
    <3>1. Sent(c_chunks) = file_size /\ c_len > 0 /\ pos <= file_size
      BY <1>3, <1>4, <2>1
    <3>2. Len(down) = 0
      BY <1>3, <1>4, <1>5, <3>1
    <3> QED
      BY <1>1, <1>5, <1>6, <3>1, <3>2
  <2> QED
    BY <1>3, <1>4, <2>1
<1>8. n = c_len
  <2>1. CASE s_chunks < c_chunks
    <3>1. s_chunks <= c_chunks - 1 /\ s_chunks \in 0..N
      BY <1>3, <1>4, <1>7, <2>1
    <3>2. Sent(c_chunks - 1) <= Sent(s_chunks)
      BY <1>4, <1>7, <3>1
    <3>3. Sent(c_chunks) + c_len <= pos
      BY <1>3, <1>4, <1>7, <3>2
    <3>4. c_len <= Len(down)
      BY <1>3, <1>4, <1>5, <3>3
    <3> QED
      BY <1>5, <1>6, <3>4 DEF Smaller
  <2>2. CASE ~(s_chunks < c_chunks)
    <3>1. Sent(s_chunks) <= Sent(c_chunks)
      BY <1>3, <1>4, <2>2
    <3>2. Len(down) = 0
      BY <1>3, <1>4, <1>5, <3>1
    <3> QED
      BY <1>1, <1>5, <1>6, <3>2
  <2> QED
    BY <2>1, <2>2
<1>9. Sent(c_chunks - 1) = Sent(c_chunks) + n /\ Sent(c_chunks) \in Nat
      /\ pos \in Nat /\ Len(saved) = old + Sent(c_chunks)
      /\ Len(down) = pos - Sent(c_chunks)
  BY <1>3, <1>4, <1>7, <1>8
<1>10. Len(saved') = old + Sent(c_chunks - 1) /\ Len(down') = pos - Sent(c_chunks - 1)
  BY <1>1, <1>5, <1>8, <1>9
<1>11. ASSUME NEW i \in 1..Len(saved')
       PROVE  saved'[i] = IF i <= old THEN -i ELSE i - old
  <2>1. Len(saved) >= old /\ i \in 1..(Len(saved) + c_len)
    BY <1>1, <1>5, <1>9
  <2>2. CASE i <= Len(saved)
    <3>1. i \in 1..Len(saved) /\ saved'[i] = saved[i]
      BY <1>1, <1>5, <2>1, <2>2
    <3> QED
      BY <1>3, <3>1
  <2>3. CASE ~(i <= Len(saved))
    <3>1. /\ i - Len(saved) \in 1..Len(down) /\ i <= Len(saved) + n
          /\ i \in 1..(Len(saved) + c_len)
      <4>1. n \in Nat /\ n <= Len(down) /\ n = c_len
        BY <1>1, <1>8
      <4> QED
        BY <1>5, <2>1, <2>3, <4>1
    <3>3. saved'[i] = down[i - Len(saved)]
      BY <1>1, <2>3, <3>1
    <3>2. saved'[i] = Sent(c_chunks) + (i - Len(saved))
      BY <1>3, <3>1, <3>3
    <3> QED
      BY <1>5, <1>9, <2>1, <2>3, <3>2
  <2> QED
    BY <2>2, <2>3
<1>12. ASSUME NEW i \in 1..Len(down')
       PROVE  down'[i] = Sent(c_chunks - 1) + i
  <2>1. n + i \in 1..Len(down) /\ down'[i] = down[n + i]
    BY <1>1, <1>5
  <2>2. down'[i] = Sent(c_chunks) + (n + i)
    BY <1>3, <2>1
  <2> QED
    BY <1>1, <1>9, <2>2
<1>13. Sent(c_chunks)' = Sent(c_chunks - 1) /\ Sent(s_chunks)' = Sent(s_chunks)
       /\ NextLen(c_chunks)' = NextLen(c_chunks - 1) /\ NextLen(s_chunks)' = NextLen(s_chunks)
       /\ NChunks(file_size, chunk_size)' = N
  BY <1>2 DEF Sent, NextLen, N
<1> QED
  BY <1>2, <1>3, <1>7, <1>10, <1>11, <1>12, <1>13 DEF Straight, N

(* The other steps leave counters and bytes, and whoever goes offline saves*)
(* nothing any more.  A file that has grown stays grown.                   *)
LEMMA OtherStraight ==
  ASSUME TypeOK, Inv, Straight,
         \/ Accept \/ Open \/ OpenFails \/ SendFails \/ SendEof \/ Tell
         \/ Connect \/ ReceiveEof \/ Leave \/ Grow \/ DeleteFile \/ UNCHANGED vars,
         Plain'
  PROVE  Straight'
<1>1. /\ file_size' = file_size /\ chunk_size' = chunk_size /\ old' = old /\ cut' = cut
      /\ pos' = pos /\ saved' = saved /\ s_chunks' = s_chunks /\ s_len' = s_len
      /\ c_chunks' = c_chunks /\ c_len' = c_len
      /\ cpc' # "offline" => cpc # "offline" /\ down' = down
      /\ length' = length \/ length' = length + 1
  BY DEF Accept, Open, OpenFails, SendFails, SendEof, Tell, Fail, Connect,
         ReceiveEof, Leave, Grow, DeleteFile, request, file, serverVars,
         clientVars, vars, TypeOK
<1>2. Plain
  BY <1>1, SizesTyping DEF Plain, Unchanged
<1>3. Sent(c_chunks)' = Sent(c_chunks) /\ Sent(s_chunks)' = Sent(s_chunks)
      /\ NextLen(c_chunks)' = NextLen(c_chunks) /\ NextLen(s_chunks)' = NextLen(s_chunks)
      /\ NChunks(file_size, chunk_size)' = NChunks(file_size, chunk_size)
  BY <1>1 DEF Sent, NextLen
<1> QED
  BY <1>1, <1>2, <1>3 DEF Straight

(* Every step keeps the two loops straight.                                *)
LEMMA StepStraight ==
  TypeOK /\ Inv /\ Straight /\ [Next]_vars => Straight'
<1> SUFFICES ASSUME TypeOK, Inv, Straight, [Next]_vars, Plain' PROVE Straight'
  BY DEF Straight
<1>1. ASSUME Send \/ Receive PROVE Plain
  BY <1>1 DEF Send, Receive, request, file, Plain, Unchanged
<1> QED
  BY <1>1, SendStraight, ReceiveStraight, OtherStraight DEF Next, Server, Client

(* If every chunk arrives in one piece, a file of at least one chunk that  *)
(* nobody changes is saved as it is, after what was there before           *)
(* (ClientFileHandler 65-90): only a file shorter than a chunk is padded.  *)
THEOREM DownloadLargeIsIntact == Spec => []LargeIsIntact
<1>1. TypeOK /\ Inv /\ Straight => LargeIsIntact
  <2> SUFFICES ASSUME TypeOK, Inv, Straight, cpc = "closed", Plain
               PROVE  saved = OldBytes(old) \o FileBytes(1, file_size)
    BY DEF LargeIsIntact, Plain
  <2> DEFINE whole == OldBytes(old) \o FileBytes(1, file_size)
  <2>1. spc \in {"close", "told"} /\ Len(down) = 0
    BY DEF Inv, Phases
  <2>2. /\ old \in Nat /\ file_size \in Nat /\ saved \in Seq(Int)
        /\ pos \in Nat /\ pos <= file_size
    BY SizesTyping DEF TypeOK, Plain, Unchanged
  <2>3. pos = file_size
    BY <2>1, <2>2 DEF Inv, Counted
  <2>4. /\ Len(saved) = old + Sent(c_chunks) /\ 0 = pos - Sent(c_chunks)
        /\ \A i \in 1..Len(saved) : saved[i] = IF i <= old THEN -i ELSE i - old
        /\ c_chunks \in 0..NChunks(file_size, chunk_size)
    BY <2>1 DEF Straight
  <2>5. Sent(c_chunks) \in Nat
    BY <2>4, SentArithmetic DEF Plain
  <2>6. Len(saved) = old + file_size
    <3>1. Len(saved) = old + Sent(c_chunks) /\ 0 = pos - Sent(c_chunks)
      BY <2>4
    <3> QED
      BY <2>2, <2>3, <2>5, <3>1
  <2>7. /\ FileBytes(1, file_size) \in Seq(Int) /\ Len(FileBytes(1, file_size)) = file_size
        /\ \A i \in 1..file_size : FileBytes(1, file_size)[i] = i
    <3>1. 0 + 1 = 1 /\ 0 + file_size = file_size /\ \A i \in 1..file_size : 0 + i = i
      BY <2>2
    <3> QED
      BY <2>2, <3>1, FileTyping
  <2>8. /\ OldBytes(old) \in Seq(Int) /\ Len(OldBytes(old)) = old
        /\ \A i \in 1..old : OldBytes(old)[i] = -i
    BY <2>2, OldTyping
  <2>9. /\ whole \in Seq(Int) /\ Len(whole) = old + file_size
        /\ \A i \in 1..(old + file_size) :
             whole[i] = IF i <= old THEN OldBytes(old)[i]
                        ELSE FileBytes(1, file_size)[i - old]
    <3> DEFINE f == OldBytes(old)
               g == FileBytes(1, file_size)
    <3>1. f \in Seq(Int) /\ g \in Seq(Int) /\ Len(f) = old /\ Len(g) = file_size
      BY <2>7, <2>8
    <3> HIDE DEF f, g
    <3>2. /\ f \o g \in Seq(Int) /\ Len(f \o g) = Len(f) + Len(g)
          /\ \A i \in 1..(Len(f) + Len(g)) :
               (f \o g)[i] = IF i <= Len(f) THEN f[i] ELSE g[i - Len(f)]
      BY <3>1, Joined
    <3>3. /\ f \o g \in Seq(Int) /\ Len(f \o g) = old + file_size
          /\ \A i \in 1..(old + file_size) :
               (f \o g)[i] = IF i <= old THEN f[i] ELSE g[i - old]
      BY <3>1, <3>2, Zenon
    <3> QED
      BY <3>3 DEF f, g
  <2> HIDE DEF whole
  <2>10. ASSUME NEW i \in 1..(old + file_size)
         PROVE  whole[i] = saved[i]
    <3>1. CASE i <= old
      BY <2>2, <2>4, <2>6, <2>8, <2>9, <3>1
    <3>2. CASE ~(i <= old)
      <4>1. i - old \in 1..file_size
        BY <2>2, <3>2
      <4> QED
        BY <2>4, <2>6, <2>7, <2>9, <3>2, <4>1
    <3> QED
      BY <3>1, <3>2
  <2>11. saved = whole
    <3>1. ASSUME NEW s \in Seq(Int), NEW t \in Seq(Int), Len(s) = Len(t),
                 \A i \in 1..Len(t) : t[i] = s[i]
          PROVE  s = t
      BY <3>1
    <3>2. saved \in Seq(Int) /\ whole \in Seq(Int) /\ Len(saved) = Len(whole)
      BY <2>2, <2>6, <2>9
    <3>3. \A i \in 1..Len(whole) : whole[i] = saved[i]
      BY <2>9, <2>10
    <3> QED
      BY <3>1, <3>2, <3>3
  <2> QED
    BY <2>11 DEF whole
<1>2. Spec => []Straight
  <2>1. Init /\ [][Next]_vars /\ [](TypeOK /\ Inv) => []Straight
    BY InitStraight, StepStraight, PTL
  <2> QED
    BY <2>1, DownloadInvariant, PTL DEF Spec
<1> QED
  BY <1>1, <1>2, DownloadInvariant, PTL
=============================================================================
