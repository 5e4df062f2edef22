---------------------------- MODULE BufferProofs ----------------------------
(***************************************************************************)
(* Proofs about the small parts that pass something on: the receive pool   *)
(* (module RecvPool), the reorder buffer (Reorder) and the notify pipe     *)
(* (NotifyPipe).  They share no state; each part has its own invariant.    *)
(***************************************************************************)
EXTENDS RecvPool, Reorder, NotifyPipe, FiniteSetTheorems, SequenceTheorems,
        WellFoundedInduction, TLAPS

(***************************************************************************)
(* CProRecvPool, for every pool size and every set of bytes.               *)
(***************************************************************************)
IInv == TypeOK /\ RingTiles

\* The freshly resized pool satisfies the invariant.
LEMMA InitIInv == Init => IInv
  BY SizeAssumption DEF Init, IInv, TypeOK, RingTiles, NULL, Wrap

\* Where recv() may write, and that it stays inside the buffer.
LEMMA IdleBounds ==
  ASSUME IInv, m_dataSize < Size
  PROVE  /\ m_idle \in 0..(Size - 1)
         /\ ContinuousIdleSize \in 1..m_idleSize
         /\ m_idle + ContinuousIdleSize <= Size
  BY SizeAssumption DEF IInv, TypeOK, RingTiles, NULL, ContinuousIdleSize

\* Receiving n bytes keeps the ring tiled.
LEMMA FillStep ==
  ASSUME IInv, NEW n \in 1..Size, NEW x \in [1..n -> Bytes], Fill(x)
  PROVE  IInv'
<1>1. Len(x) = n
  BY DEF IInv
<1>2. n \in Nat /\ n > 0 /\ n <= ContinuousIdleSize
  BY <1>1 DEF Fill
<1>3. m_dataSize < Size
  BY <1>2, SizeAssumption
  DEF IInv, TypeOK, RingTiles, NULL, ContinuousIdleSize
<1>4. /\ m_idle \in 0..(Size - 1)
      /\ ContinuousIdleSize <= m_idleSize
      /\ m_idle + ContinuousIdleSize <= Size
      /\ ContinuousIdleSize \in Nat
  BY <1>3, IdleBounds DEF IInv, TypeOK
<1>5. m_idle + n <= Size /\ n <= m_idleSize
  BY <1>2, <1>4, SizeAssumption DEF IInv, TypeOK
<1>6. /\ m_data' = IF m_data = NULL THEN m_idle ELSE m_data
      /\ m_dataSize' = m_dataSize + n
      /\ m_idle' = IF m_idleSize = n THEN NULL
                   ELSE IF m_idle + n = Size THEN 0 ELSE m_idle + n
      /\ m_idleSize' = m_idleSize - n
  BY <1>1 DEF Fill
<1>7. m_buf' \in [0..(Size - 1) -> Bytes]
  <2>1. m_buf' = [p \in 0..(Size - 1) |->
                    IF p >= m_idle /\ p < m_idle + n THEN x[p - m_idle + 1]
                    ELSE m_buf[p]]
    BY <1>1 DEF Fill
  <2>2. ASSUME NEW p \in 0..(Size - 1), p >= m_idle, p < m_idle + n
        PROVE  x[p - m_idle + 1] \in Bytes
    BY <1>4, <2>2, p - m_idle + 1 \in 1..n
  <2>3. ASSUME NEW p \in 0..(Size - 1) PROVE m_buf[p] \in Bytes
    BY DEF IInv, TypeOK
  <2> QED
    BY <2>1, <2>2, <2>3
<1>8. TypeOK'
  BY <1>2, <1>4, <1>5, <1>6, <1>7, SizeAssumption
  DEF IInv, TypeOK, RingTiles, NULL
<1>9. RingTiles'
  BY <1>2, <1>4, <1>5, <1>6, SizeAssumption
  DEF IInv, TypeOK, RingTiles, NULL, Wrap
<1> QED
  BY <1>8, <1>9 DEF IInv

\* Flushing n bytes keeps the ring tiled; data that remains starts n further.
LEMMA FlushStep ==
  ASSUME IInv, NEW n \in 1..Size, Flush(n)
  PROVE  IInv' /\ (m_dataSize # n => m_data' = Wrap(m_data + n))
<1>1. n \in Nat /\ n > 0 /\ n <= m_dataSize
  BY DEF Flush
<1>2. m_data \in 0..(Size - 1)
  BY <1>1, SizeAssumption DEF IInv, TypeOK, RingTiles, NULL
<1>3. CASE m_dataSize = n
  BY <1>1, <1>3, SizeAssumption
  DEF Flush, IInv, TypeOK, RingTiles, NULL, Wrap
<1>4. CASE m_dataSize # n
  <2>1. Advanced(n) = Wrap(m_data + n) /\ Advanced(n) \in 0..(Size - 1)
    BY <1>1, <1>2, <1>4, SizeAssumption
    DEF IInv, TypeOK, RingTiles, NULL, Advanced, ContinuousDataSize, Wrap
  <2>2. /\ m_data' = Wrap(m_data + n)
        /\ m_dataSize' = m_dataSize - n
        /\ m_idle' = IF m_idle = NULL THEN m_data ELSE m_idle
        /\ m_idleSize' = m_idleSize + n
        /\ m_buf' = m_buf
    BY <1>4, <2>1 DEF Flush
  <2>3. TypeOK'
    BY <1>1, <1>2, <1>4, <2>1, <2>2, SizeAssumption
    DEF IInv, TypeOK, RingTiles, NULL
  <2>4. RingTiles'
    BY <1>1, <1>2, <1>4, <2>2, SizeAssumption
    DEF IInv, TypeOK, RingTiles, NULL, Wrap
  <2> QED
    BY <2>2, <2>3, <2>4 DEF IInv
<1> QED
  BY <1>3, <1>4

\* Data and idle space tile the ring in every reachable state.
THEOREM Invariance == Spec => []IInv
<1>1. IInv /\ [Next]_vars => IInv'
  <2> SUFFICES ASSUME IInv, [Next]_vars PROVE IInv'
    OBVIOUS
  <2>1. CASE UNCHANGED vars
    BY <2>1 DEF IInv, TypeOK, RingTiles, Wrap, vars
  <2> QED
    BY <2>1, FillStep, FlushStep DEF Next
<1> QED
  BY InitIInv, <1>1, PTL DEF Spec

\* Pointers and sizes stay inside the buffer.
THEOREM TypeCorrect == Spec => []TypeOK
  BY Invariance, PTL DEF IInv

\* Fill and Flush never make data and idle space overlap or lose space.
THEOREM RingCorrect == Spec => []RingTiles
  BY Invariance, PTL DEF IInv

\* A pool that is not full always offers room to recv(), inside the buffer.
THEOREM ReceiveCorrect == Spec => []CanReceive
<1>1. IInv => CanReceive
  BY IdleBounds DEF CanReceive, IInv, TypeOK
<1> QED
  BY Invariance, <1>1, PTL

\* PeekData returns the oldest bytes whether or not the data wraps.
THEOREM PeekCorrect == Spec => []PeekIsPrefix
<1>1. IInv => PeekIsPrefix
  <2> SUFFICES ASSUME IInv, NEW n \in 1..m_dataSize
               PROVE  PeekData(n) = [i \in 1..n |-> Content[i]]
    BY DEF PeekIsPrefix
  <2>1. m_data \in 0..(Size - 1) /\ m_dataSize \in 1..Size /\ n \in 1..Size
    BY SizeAssumption DEF IInv, TypeOK, RingTiles, NULL
  <2>2. ASSUME NEW i \in 1..n
        PROVE  (IF i <= ContinuousDataSize THEN m_buf[m_data + i - 1]
                ELSE m_buf[i - 1 - ContinuousDataSize]) = Content[i]
    <3>1. i \in 1..m_dataSize /\ Content[i] = m_buf[Wrap(m_data + i - 1)]
      BY <2>1 DEF Content
    <3>2. IF i <= ContinuousDataSize
            THEN Wrap(m_data + i - 1) = m_data + i - 1
            ELSE Wrap(m_data + i - 1) = i - 1 - ContinuousDataSize
      BY <2>1, SizeAssumption DEF Wrap, ContinuousDataSize
    <3> QED
      BY <3>1, <3>2
  <2> QED
    BY <2>2 DEF PeekData
<1> QED
  BY Invariance, <1>1, PTL
-----------------------------------------------------------------------------
(***************************************************************************)
(* The ring implements the byte queue.                                     *)
(***************************************************************************)

\* The unread bytes form a sequence of m_dataSize bytes.
LEMMA ContentType ==
  ASSUME IInv
  PROVE  /\ Content \in Seq(Bytes)
         /\ Len(Content) = m_dataSize
         /\ m_dataSize \in Nat
         /\ \A i \in 1..m_dataSize : Content[i] = m_buf[Wrap(m_data + i - 1)]
<1>1. m_dataSize \in Nat /\ m_dataSize <= Size
  BY SizeAssumption DEF IInv, TypeOK
<1>2. ASSUME NEW i \in 1..m_dataSize
      PROVE  m_buf[Wrap(m_data + i - 1)] \in Bytes
  <2>1. Wrap(m_data + i - 1) \in 0..(Size - 1)
    BY <1>1, SizeAssumption DEF IInv, TypeOK, RingTiles, NULL, Wrap
  <2> QED
    BY <2>1 DEF IInv, TypeOK
<1> QED
  BY <1>1, <1>2 DEF Content

\* Fill appends what recv() has written, wherever the idle space is.
LEMMA FillArrives ==
  ASSUME IInv, NEW n \in 1..Size, NEW x \in [1..n -> Bytes], Fill(x)
  PROVE  Fifo!Arrive(x)
<1>1. IInv' /\ Len(x) = n /\ x \in Seq(Bytes) /\ n \in Nat
  BY FillStep
<1>2. /\ Content \in Seq(Bytes) /\ Len(Content) = m_dataSize /\ m_dataSize \in Nat
      /\ \A i \in 1..m_dataSize : Content[i] = m_buf[Wrap(m_data + i - 1)]
  BY ContentType
<1>3. /\ Content' \in Seq(Bytes) /\ Len(Content') = m_dataSize + n
      /\ \A i \in 1..(m_dataSize + n) : Content'[i] = m_buf'[Wrap(m_data' + i - 1)]
      /\ m_dataSize + n <= Size
  <2>1. m_dataSize' = m_dataSize + n
    BY <1>1 DEF Fill
  <2>2. /\ Content' \in Seq(Bytes) /\ Len(Content') = m_dataSize'
        /\ \A i \in 1..m_dataSize' : Content'[i] = m_buf'[Wrap(m_data' + i - 1)]
    <3>1. Content' = [i \in 1..m_dataSize' |-> m_buf'[Wrap(m_data' + i - 1)]]
      BY DEF Content, Wrap
    <3>2. ASSUME NEW i \in 1..m_dataSize'
          PROVE  m_buf'[Wrap(m_data' + i - 1)] \in Bytes
      <4>1. Wrap(m_data' + i - 1) \in 0..(Size - 1)
        BY <1>1, SizeAssumption DEF IInv, TypeOK, RingTiles, NULL, Wrap
      <4> QED
        BY <1>1, <4>1 DEF IInv, TypeOK
    <3>3. m_dataSize' \in Nat
      BY <1>1, SizeAssumption DEF IInv, TypeOK
    <3> QED
      BY <3>1, <3>2, <3>3
  <2>3. m_dataSize' <= Size
    BY <1>1, SizeAssumption DEF IInv, TypeOK
  <2> QED
    BY <2>1, <2>2, <2>3
<1>4. /\ m_idle \in 0..(Size - 1) /\ m_idle + n <= Size
      /\ m_data' = IF m_data = NULL THEN m_idle ELSE m_data
      /\ m_data # NULL => m_idle = Wrap(m_data + m_dataSize)
      /\ m_data = NULL <=> m_dataSize = 0
  <2>1. m_dataSize < Size
    BY <1>2, <1>3, SizeAssumption
  <2>2. n <= ContinuousIdleSize
    BY <1>1 DEF Fill
  <2>3. /\ m_idle \in 0..(Size - 1) /\ m_idle + ContinuousIdleSize <= Size
        /\ ContinuousIdleSize \in Nat
    BY <2>1, IdleBounds, SizeAssumption DEF IInv, TypeOK
  <2>4. m_idle + n <= Size
    BY <1>1, <2>2, <2>3, SizeAssumption
  <2>5. m_idle # NULL
    BY <2>3, SizeAssumption DEF NULL
  <2>6. m_data' = IF m_data = NULL THEN m_idle ELSE m_data
    BY DEF Fill
  <2>7. /\ m_data # NULL => m_idle = Wrap(m_data + m_dataSize)
        /\ m_data = NULL <=> m_dataSize = 0
    BY <2>5 DEF IInv, RingTiles
  <2> QED
    BY <2>3, <2>4, <2>6, <2>7
<1>5. \A p \in 0..(Size - 1) :
        m_buf'[p] = IF p >= m_idle /\ p < m_idle + n THEN x[p - m_idle + 1]
                    ELSE m_buf[p]
  BY <1>1 DEF Fill
<1>6. ASSUME NEW i \in 1..(m_dataSize + n)
      PROVE  Content'[i] = (Content \o x)[i]
  <2>1. CASE i <= m_dataSize
    <3>1. /\ m_data' = m_data /\ m_data \in 0..(Size - 1)
          /\ Wrap(m_data + i - 1) \in 0..(Size - 1)
          /\ ~(Wrap(m_data + i - 1) >= m_idle /\ Wrap(m_data + i - 1) < m_idle + n)
      <4>1. m_data # NULL
        BY <1>2, <1>4, <2>1
      <4>2. m_data' = m_data /\ m_data \in 0..(Size - 1)
        BY <1>4, <4>1, SizeAssumption DEF IInv, TypeOK, NULL
      <4>3. m_idle \in 0..(Size - 1) /\ m_idle = Wrap(m_data + m_dataSize)
        BY <1>4, <4>1
      <4>4. /\ i \in Nat /\ i >= 1 /\ m_dataSize \in Nat /\ n \in Nat
            /\ m_dataSize + n <= Size
        BY <1>1, <1>2, <1>3, SizeAssumption
      <4>5. CASE m_data + m_dataSize >= Size
        BY <2>1, <4>2, <4>3, <4>4, <4>5, SizeAssumption DEF Wrap
      <4>6. CASE m_data + m_dataSize < Size
        <5>1. Wrap(m_data + i - 1) = m_data + i - 1 /\ m_idle = m_data + m_dataSize
          BY <2>1, <4>2, <4>3, <4>4, <4>6, SizeAssumption DEF Wrap
        <5> QED
          BY <2>1, <4>2, <4>4, <4>6, <5>1, SizeAssumption
      <4> QED
        BY <4>2, <4>4, <4>5, <4>6, SizeAssumption
    <3>2. Content'[i] = m_buf[Wrap(m_data + i - 1)]
      BY <1>3, <1>5, <3>1
    <3>3. (Content \o x)[i] = Content[i]
      BY <1>1, <1>2, <2>1, ConcatProperties
    <3> QED
      BY <1>2, <2>1, <3>2, <3>3
  <2>2. CASE i > m_dataSize
    <3> DEFINE j == i - m_dataSize
    <3>1. /\ j \in 1..n /\ i = m_dataSize + j
          /\ m_idle + j - 1 \in 0..(Size - 1)
      <4>1. m_idle \in Nat /\ m_idle + n <= Size /\ Size \in Nat
        BY <1>4, SizeAssumption
      <4>2. j \in 1..n /\ i = m_dataSize + j
        BY <1>1, <1>2, <2>2
      <4> HIDE DEF j
      <4> QED
        BY <1>1, <4>1, <4>2
    <3> HIDE DEF j
    <3>2. Wrap(m_data' + i - 1) = m_idle + j - 1
      <4>1. CASE m_data = NULL
        BY <1>1, <1>2, <1>4, <3>1, <4>1, SizeAssumption DEF Wrap
      <4>2. CASE m_data # NULL
        <5>1. m_data \in 0..(Size - 1) /\ m_data' = m_data
          BY <1>4, <4>2, SizeAssumption DEF IInv, TypeOK, NULL
        <5> QED
          BY <1>1, <1>2, <1>3, <1>4, <3>1, <4>2, <5>1, SizeAssumption DEF Wrap
      <4> QED
        BY <4>1, <4>2
    <3>5. Content'[i] = m_buf'[m_idle + j - 1]
      BY <1>3, <3>2
    <3>6. /\ m_idle + j - 1 >= m_idle /\ m_idle + j - 1 < m_idle + n
          /\ (m_idle + j - 1) - m_idle + 1 = j
      BY <1>1, <1>4, <3>1
    <3>4. Content'[i] = x[j]
      BY <1>5, <3>1, <3>5, <3>6
    <3>3. (Content \o x)[i] = x[j]
      BY <1>1, <1>2, <2>2, ConcatProperties DEF j
    <3> QED
      BY <3>4, <3>3
  <2> QED
    BY <1>1, <1>2, <2>1, <2>2
<1>7. Content \o x \in Seq(Bytes) /\ Len(Content \o x) = m_dataSize + n
  BY <1>1, <1>2, ConcatProperties
<1>8. Content' = Content \o x
  BY <1>1, <1>2, <1>3, <1>6, <1>7, SeqEqual
<1> QED
  BY <1>1, <1>2, <1>3, <1>8 DEF Fifo!Arrive

\* Flush(n) removes the n oldest bytes.
LEMMA FlushLeaves ==
  ASSUME IInv, NEW n \in 1..Size, Flush(n)
  PROVE  n \in 1..Len(Content) /\ Fifo!Leave(n)
<1>1. /\ IInv' /\ n \in Nat /\ n > 0 /\ n <= m_dataSize
      /\ m_dataSize' = m_dataSize - n /\ m_buf' = m_buf
  BY FlushStep DEF Flush
<1>2. /\ Content \in Seq(Bytes) /\ Len(Content) = m_dataSize /\ m_dataSize \in Nat
      /\ \A i \in 1..m_dataSize : Content[i] = m_buf[Wrap(m_data + i - 1)]
  BY ContentType
<1>3. Content' = [i \in 1..(m_dataSize - n) |-> m_buf[Wrap(m_data' + i - 1)]]
  BY <1>1 DEF Content, Wrap
<1>4. ASSUME NEW i \in 1..(m_dataSize - n)
      PROVE  m_buf[Wrap(m_data' + i - 1)] = Content[n + i]
  <2>1. m_dataSize # n
    BY <1>1, <1>2
  <2>2. m_data' = Wrap(m_data + n) /\ m_data \in 0..(Size - 1)
    <3>1. m_data' = Wrap(m_data + n)
      BY <2>1, FlushStep
    <3>2. m_data # NULL
      BY <1>1, <1>2 DEF IInv, RingTiles
    <3> QED
      BY <3>1, <3>2, SizeAssumption DEF IInv, TypeOK, NULL
  <2>4. m_dataSize <= Size /\ i \in Nat /\ i > 0 /\ n + i <= m_dataSize
    BY <1>1, <1>2, SizeAssumption DEF IInv, TypeOK
  <2>3. Wrap(m_data' + i - 1) = Wrap(m_data + (n + i) - 1)
    BY <1>1, <1>2, <2>2, <2>4, SizeAssumption DEF Wrap
  <2> QED
    BY <1>1, <1>2, <2>3, n + i \in 1..m_dataSize
<1>5. Content' = [i \in 1..(m_dataSize - n) |-> Content[n + i]]
  BY <1>3, <1>4
<1>6. SubSeq(Content, n + 1, Len(Content))
        = [i \in 1..(m_dataSize - n) |-> Content[n + i]]
  <2> DEFINE t == SubSeq(Content, n + 1, Len(Content))
  <2>1. t = [i \in 1..(Len(Content) - (n + 1) + 1) |-> Content[(n + 1) + i - 1]]
    BY <1>1, <1>2
  <2>2. Len(Content) - (n + 1) + 1 = m_dataSize - n
    BY <1>1, <1>2
  <2>3. \A i \in 1..(m_dataSize - n) : (n + 1) + i - 1 = n + i
    BY <1>1, <1>2
  <2> QED
    BY <2>1, <2>2, <2>3
<1> QED
  BY <1>1, <1>2, <1>5, <1>6 DEF Fifo!Leave

\* Every behaviour of the ring is a behaviour of the bounded byte queue.
THEOREM Refinement == Spec => ImplementsFifo
<1>1. Init => Fifo!FifoInit
  <2> SUFFICES ASSUME Init PROVE Content = <<>>
    BY DEF Fifo!FifoInit
  <2>1. IInv /\ m_dataSize = 0
    BY InitIInv DEF Init
  <2> QED
    BY <2>1, ContentType, EmptySeq
<1>2. IInv /\ [Next]_vars => [Fifo!FifoNext]_Content
  <2> SUFFICES ASSUME IInv, [Next]_vars PROVE [Fifo!FifoNext]_Content
    OBVIOUS
  <2>1. CASE UNCHANGED vars
    BY <2>1 DEF vars, Content, Wrap
  <2>2. ASSUME NEW n \in 1..Size, NEW x \in [1..n -> Bytes], Fill(x)
        PROVE  Fifo!FifoNext
    BY <2>2, FillArrives DEF Fifo!FifoNext
  <2>3. ASSUME NEW n \in 1..Size, Flush(n)
        PROVE  Fifo!FifoNext
    BY <2>3, FlushLeaves DEF Fifo!FifoNext
  <2> QED
    BY <2>1, <2>2, <2>3 DEF Next
<1> QED
  BY Invariance, <1>1, <1>2, PTL DEF Spec, ImplementsFifo, Fifo!FifoSpec
-----------------------------------------------------------------------------
(***************************************************************************)
(* CProReorder, for every width of sequence numbers, loss window, limit of *)
(* packets and duration.                                                   *)
(***************************************************************************)

\* Quotient and remainder: the high and the low part of a long number.
LEMMA Division ==
  ASSUME NEW a \in Nat
  PROVE  /\ a \div M \in Nat /\ a % M \in 0..(M - 1)
         /\ a = M * (a \div M) + (a % M)
<1>1. PICK m \in Nat \ {0} : m = M
    BY WindowAssumption
<1>2. a \div m \in Nat /\ a % m \in 0..(m - 1)
    OBVIOUS
<1>3. a = m * (a \div m) + (a % m)
    OBVIOUS
<1> QED BY <1>1, <1>2, <1>3

\* The distance of two short numbers, one way round.
LEMMA Distance ==
  ASSUME NEW x \in 0..(M - 1), NEW y \in 0..(M - 1)
  PROVE  (x - y) % M = IF x >= y THEN x - y ELSE x - y + M
<1>1. PICK m \in Nat \ {0} : m = M
    BY WindowAssumption
<1>2. PICK d \in Int : d = x - y
    BY <1>1
<1>3. CASE x >= y
  <2>1. d \in 0..(m - 1)
      BY <1>1, <1>2, <1>3
  <2>2. d % m = d
      BY <2>1
  <2> QED BY <1>1, <1>2, <1>3, <2>2
<1>4. CASE ~(x >= y)
  <2>1. d + m \in 0..(m - 1) /\ d < 0
      BY <1>1, <1>2, <1>4
  <2>2. d % m \in 0..(m - 1) /\ d \div m \in Int /\ d = m * (d \div m) + (d % m)
      OBVIOUS
  <2>3. PICK q \in Int, r \in 0..(m - 1) : q = d \div m /\ r = d % m /\ d = m * q + r
      BY <2>2
  <2>4. q = -1
    <3>1. CASE q >= 0
      <4>1. m * q >= 0
          BY <3>1
      <4> QED BY <2>1, <2>3, <4>1
    <3>2. CASE q <= -2
      <4>1. m * (q + 2) <= 0 /\ m * (q + 2) = m * q + 2 * m
          BY <3>2
      <4>2. m * q \in Int
          OBVIOUS
      <4> QED BY <2>1, <2>3, <4>1, <4>2
    <3> QED BY <3>1, <3>2
  <2>5. r = d + m
      BY <2>3, <2>4
  <2> QED BY <1>1, <1>2, <1>4, <2>3, <2>5
<1> QED BY <1>3, <1>4

\* Two numbers that are closer than Reach: the extension of the short one.
LEMMA ExtensionRight ==
  ASSUME NEW min \in Nat, NEW b \in Nat, NEW q \in Int, b = min + q * M,
         NEW n \in Nat, n - b \in -Reach..Reach,
         NEW s, s = Extended(min, n % M), s # None
  PROVE  s \in Int /\ s - min = n - b
<1>1. PICK m \in Nat : m = M /\ m > 0 /\ 2 * MaxLoss <= m /\ Reach <= m - MaxLoss
    BY WindowAssumption
<1>2. MaxLoss \in Nat /\ MaxLoss > 0 /\ Reach \in Nat
    BY WindowAssumption
<1>3. PICK h \in Nat, low \in 0..(m - 1) : h = min \div M /\ low = min % M /\ min = m * h + low
    BY <1>1, Division
<1>4. PICK k \in Nat, seq \in 0..(m - 1) : k = n \div M /\ seq = n % M /\ n = m * k + seq
    BY <1>1, Division
<1>5. PICK j \in Int : j = k - h - q
    OBVIOUS
<1>6. PICK d \in Int : d = n - b
    OBVIOUS
<1>7. d = m * j + (seq - low)
  <2>1. m * j = m * k - m * h - m * q /\ q * m = m * q
      BY <1>5
  <2>2. m * k \in Int /\ m * h \in Int /\ m * q \in Int
      OBVIOUS
  <2> QED BY <1>1, <1>3, <1>4, <1>6, <2>1, <2>2
<1>8. d <= m - MaxLoss /\ d >= MaxLoss - m
    BY <1>1, <1>2, <1>6
<1>9. j \in {-1, 0, 1}
  <2>1. PICK p \in Int : p = m * j
      OBVIOUS
  <2>2. p < 2 * m /\ p > -(2 * m)
      BY <1>1, <1>2, <1>7, <1>8, <2>1
  <2>3. CASE j >= 2
    <3>1. m * (j - 2) >= 0 /\ m * (j - 2) = m * j - 2 * m
        BY <2>3
    <3> QED BY <2>1, <2>2, <3>1
  <2>4. CASE j <= -2
    <3>1. m * (j + 2) <= 0 /\ m * (j + 2) = m * j + 2 * m
        BY <2>4
    <3> QED BY <2>1, <2>2, <3>1
  <2> QED BY <2>3, <2>4
<1>10. d \in {seq - low - m, seq - low, seq - low + m}
    BY <1>7, <1>9
<1>11. PICK dist1 \in Int, dist2 \in Int :
         /\ dist1 = (seq - low) % M /\ dist2 = (low - seq) % M
         /\ dist1 = IF seq >= low THEN seq - low ELSE seq - low + m
         /\ dist2 = IF low >= seq THEN low - seq ELSE low - seq + m
    BY <1>1, Distance
<1>12. CASE seq = low
  <2>1. s = min
      BY <1>3, <1>4, <1>11, <1>12 DEF Extended
  <2>2. d = 0
      BY <1>2, <1>8, <1>10, <1>12
  <2> QED BY <1>6, <2>1, <2>2
<1> DEFINE forward == dist1 < dist2 /\ dist1 < MaxLoss
           back    == dist2 < dist1 /\ dist2 < MaxLoss
           high    == CASE forward /\ seq < low -> h + 1
                        [] back /\ seq > low    -> h - 1
                        [] OTHER                -> h
<1>13. CASE seq # low
  <2>1. (forward \/ back) /\ s = high * m + seq
      BY <1>1, <1>3, <1>4, <1>11, <1>13 DEF Extended
  <2>2. CASE forward /\ seq < low
    <3>1. s = (h + 1) * m + seq
        BY <2>1, <2>2
    <3>2. (h + 1) * m = m * h + m /\ m * h \in Int
        OBVIOUS
    <3>3. d = seq - low + m
        BY <1>2, <1>8, <1>10, <1>11, <2>2
    <3> QED BY <1>3, <1>6, <3>1, <3>2, <3>3
  <2>3. CASE forward /\ ~(seq < low)
    <3>1. s = h * m + seq
        BY <2>1, <2>3
    <3>2. h * m = m * h /\ m * h \in Int
        OBVIOUS
    <3>3. d = seq - low
        BY <1>2, <1>8, <1>10, <1>11, <1>13, <2>3
    <3> QED BY <1>3, <1>6, <3>1, <3>2, <3>3
  <2>4. CASE back /\ seq > low
    <3>1. s = (h - 1) * m + seq
        BY <2>1, <2>4
    <3>2. (h - 1) * m = m * h - m /\ m * h \in Int
        OBVIOUS
    <3>3. d = seq - low - m
        BY <1>2, <1>8, <1>10, <1>11, <2>4
    <3> QED BY <1>3, <1>6, <3>1, <3>2, <3>3
  <2>5. CASE back /\ ~(seq > low)
    <3>1. s = h * m + seq
        BY <2>1, <2>5
    <3>2. h * m = m * h /\ m * h \in Int
        OBVIOUS
    <3>3. d = seq - low
        BY <1>2, <1>8, <1>10, <1>11, <1>13, <2>5
    <3> QED BY <1>3, <1>6, <3>1, <3>2, <3>3
  <2> QED BY <2>1, <2>2, <2>3, <2>4, <2>5
<1> QED BY <1>12, <1>13
-----------------------------------------------------------------------------
\* m_minSeq64 and the sender's number it stands for differ by whole rounds, and
\* lie behind what has been popped.
InStep ==
  /\ m_minSeq64 # None => \E q \in Int : base = m_minSeq64 + q * M
  /\ m_minSeq64 = None => Held = {}
  /\ popped < base
  /\ IsFiniteSet(Held)

ReorderInv == ReorderTypeOK /\ InStep /\ Reconstructed /\ HoldBounded

\* A set of naturals has a least element, which is what Min gives.
LEMMA LeastHeld ==
  ASSUME NEW T \in SUBSET Nat, T # {}
  PROVE  Min(T) \in T /\ \A y \in T : Min(T) <= y
<1>1. PICK x \in T : \A y \in T : <<y, x>> \notin OpToRel(<, Nat)
    BY WFMin, NatLessThanWellFounded, Zenon
<1>2. \A y \in T : y < x => <<y, x>> \in OpToRel(<, Nat)
    BY DEF OpToRel
<1>3. \A y \in T : ~(y < x)
    BY <1>1, <1>2, Zenon
<1>4. \A y \in T : x <= y
    BY <1>3
<1> QED BY <1>4 DEF Min

LEMMA ReorderInitInv == ReorderInit => ReorderInv
<1> SUFFICES ASSUME ReorderInit PROVE ReorderInv
    OBVIOUS
<1>1. Held = {} /\ IsFiniteSet(Held) /\ Cardinality(Held) = 0
    BY FS_EmptySet DEF ReorderInit, Held
<1>2. popping = FALSE /\ popping \in BOOLEAN
    BY DEF ReorderInit
<1>3. ReorderTypeOK
    BY <1>1, <1>2, LimitsAssumption DEF ReorderInit, ReorderTypeOK
<1>4. InStep /\ Reconstructed /\ HoldBounded
    BY <1>1, LimitsAssumption DEF ReorderInit, InStep, Reconstructed, HoldBounded, None
<1> QED BY <1>3, <1>4 DEF ReorderInv

LEMMA StartAgainStep ==
  ASSUME ReorderInv, NEW n \in Numbers, StartAgain(n), popping' = TRUE
  PROVE  ReorderInv'
<1>1. n \in Nat /\ n % M \in Nat /\ n \div M \in Nat /\ n = M * (n \div M) + (n % M)
    BY LimitsAssumption, WindowAssumption, Division
<1>2. Held' = {n % M} /\ IsFiniteSet(Held')
    BY FS_Singleton DEF StartAgain, Held
<1>3. m_seq64ToPacket'[n % M] = [n |-> n, age |-> 0]
    BY DEF StartAgain
<1>4. ReorderTypeOK'
  <2>1. popping' \in BOOLEAN
      OBVIOUS
  <2> QED BY <1>1, <1>2, <1>3, <2>1, LimitsAssumption DEF StartAgain, ReorderTypeOK
<1>5. InStep'
  <2>1. (n % M) + (n \div M) * M = n
    <3>1. PICK m \in Nat, k \in Nat, r \in Nat : m = M /\ k = n \div M /\ r = n % M
        BY <1>1, WindowAssumption
    <3>2. m * k = k * m /\ m * k \in Nat
        OBVIOUS
    <3> QED BY <1>1, <3>1, <3>2
  <2> QED BY <1>1, <1>2, <2>1 DEF StartAgain, InStep, None
<1>6. Reconstructed' /\ HoldBounded'
    BY <1>1, <1>2, <1>3 DEF StartAgain, Reconstructed, HoldBounded
<1> QED BY <1>4, <1>5, <1>6 DEF ReorderInv

LEMMA InsertStep ==
  ASSUME ReorderInv, m_minSeq64 # None, NEW n \in Numbers, n - base \in -Reach..Reach,
         NEW seq64, seq64 = Extended(m_minSeq64, n % M), seq64 # None,
         Insert(seq64, n), popping' = TRUE
  PROVE  ReorderInv'
<1>1. n \in Nat /\ m_minSeq64 \in Nat /\ base \in Nat
    BY LimitsAssumption DEF ReorderInv, ReorderTypeOK
<1>2. seq64 \in Int /\ seq64 - m_minSeq64 = n - base
    BY <1>1, ExtensionRight DEF ReorderInv, InStep
<1>3. popping' \in BOOLEAN
    OBVIOUS
<1>4. UNCHANGED <<m_minSeq64, base, popped>>
    BY DEF Insert
<1>5. CASE seq64 >= m_minSeq64 /\ seq64 \notin Held
  <2>1. /\ m_seq64ToPacket' = [s \in Held \cup {seq64} |->
             IF s = seq64 THEN [n |-> n, age |-> 0] ELSE m_seq64ToPacket[s]]
        /\ lastValid' = 0
      BY <1>5 DEF Insert
  <2>2. /\ Held' = Held \cup {seq64} /\ m_seq64ToPacket'[seq64] = [n |-> n, age |-> 0]
        /\ \A s \in Held : m_seq64ToPacket'[s] = m_seq64ToPacket[s]
      BY <1>5, <2>1 DEF Held
  <2>3. IsFiniteSet(Held')
      BY <2>2, FS_AddElement DEF ReorderInv, InStep
  <2>4. seq64 \in Nat
      BY <1>1, <1>2, <1>5
  <2>5. ReorderTypeOK'
    <3>1. [n |-> n, age |-> 0] \in [n : Numbers, age : 0..MaxWaiting]
        BY LimitsAssumption
    <3>2. \A s \in Held' : m_seq64ToPacket'[s] \in [n : Numbers, age : 0..MaxWaiting]
        BY <2>2, <3>1 DEF ReorderInv, ReorderTypeOK
    <3>3. lastValid' \in 0..(MaxBroken + 1) /\ Held' \subseteq Nat
      <4>1. Held \subseteq Nat
          BY DEF ReorderInv, ReorderTypeOK
      <4>2. Held' = Held \cup {seq64} /\ lastValid' = 0
          BY <2>1, <2>2
      <4>3. Held' \subseteq Nat
          BY <2>4, <4>1, <4>2
      <4>4. 0 \in 0..(MaxBroken + 1)
          BY LimitsAssumption
      <4> QED BY <4>2, <4>3, <4>4
    <3> QED BY <1>3, <1>4, <3>2, <3>3 DEF ReorderInv, ReorderTypeOK
  <2>6. InStep'
      BY <1>4, <2>3 DEF ReorderInv, InStep
  <2>7. Reconstructed'
    <3>1. m_seq64ToPacket'[seq64].n = n
        BY <2>2
    <3>2. \A s \in Held : /\ s >= m_minSeq64'
                          /\ m_seq64ToPacket'[s].n - base' = s - m_minSeq64'
        BY <1>4, <2>2 DEF ReorderInv, Reconstructed
    <3> QED BY <1>1, <1>2, <1>4, <1>5, <2>2, <3>1, <3>2 DEF Reconstructed
  <2>8. HoldBounded'
      BY DEF HoldBounded
  <2> QED BY <2>5, <2>6, <2>7, <2>8 DEF ReorderInv
<1>6. CASE ~(seq64 >= m_minSeq64 /\ seq64 \notin Held)
  <2>1. UNCHANGED <<m_seq64ToPacket, lastValid, Held>>
      BY <1>6 DEF Insert, Held
  <2>2. ReorderTypeOK'
      BY <1>3, <1>4, <2>1 DEF ReorderInv, ReorderTypeOK
  <2>3. InStep' /\ Reconstructed' /\ HoldBounded'
      BY <1>4, <2>1 DEF ReorderInv, InStep, Reconstructed, HoldBounded
  <2> QED BY <2>2, <2>3 DEF ReorderInv
<1> QED BY <1>5, <1>6

LEMMA PushBackStep ==
  ASSUME ReorderInv, NEW n \in Numbers, PushBack(n)
  PROVE  ReorderInv'
<1>1. popping' = TRUE
    BY DEF PushBack
<1>2. CASE StartAgain(n)
    BY <1>1, <1>2, StartAgainStep
<1>3. CASE ~StartAgain(n)
    BY <1>1, <1>3, InsertStep DEF PushBack
<1> QED BY <1>2, <1>3

LEMMA PopFrontStep ==
  ASSUME ReorderInv, PopFront
  PROVE  ReorderInv'
<1>1. Held \subseteq Nat /\ IsFiniteSet(Held)
    BY DEF ReorderInv, ReorderTypeOK, InStep
<1>2. PICK seq64 : seq64 = Min(Held)
    OBVIOUS
<1>3. Held # {} => seq64 \in Held /\ \A s \in Held : seq64 <= s
    BY <1>1, <1>2, LeastHeld
<1> DEFINE stop == \/ Held = {}
                   \/ /\ seq64 # m_minSeq64
                      /\ Cardinality(Held) < MaxPacketCount
                      /\ m_seq64ToPacket[seq64].age < MaxWaiting
<1>4. CASE stop
  <2>1. /\ popping' = FALSE
        /\ UNCHANGED <<m_minSeq64, m_seq64ToPacket, base, popped, lastValid, Held>>
      BY <1>2, <1>4 DEF PopFront, Held
  <2>2. popping' \in BOOLEAN
      BY <2>1
  <2>3. ReorderTypeOK'
      BY <2>1, <2>2 DEF ReorderInv, ReorderTypeOK
  <2>4. InStep' /\ Reconstructed'
      BY <2>1 DEF ReorderInv, InStep, Reconstructed
  <2>5. Cardinality(Held) < MaxPacketCount
      BY <1>4, FS_EmptySet, LimitsAssumption
  <2>6. m_minSeq64 \notin Held
    <3>1. SUFFICES ASSUME m_minSeq64 \in Held PROVE FALSE
        OBVIOUS
    <3>2. seq64 # m_minSeq64 /\ seq64 <= m_minSeq64 /\ seq64 \in Held
        BY <1>3, <1>4, <3>1
    <3> QED BY <1>1, <3>1, <3>2 DEF ReorderInv, Reconstructed
  <2>7. HoldBounded'
      BY <2>1, <2>5, <2>6 DEF HoldBounded
  <2> QED BY <2>3, <2>4, <2>7 DEF ReorderInv
<1>5. CASE ~stop
  <2>1. /\ seq64 \in Held /\ seq64 \in Nat
        /\ m_seq64ToPacket' = [s \in Held \ {seq64} |-> m_seq64ToPacket[s]]
        /\ m_minSeq64' = seq64 + 1
        /\ base' = m_seq64ToPacket[seq64].n + 1 /\ popped' = m_seq64ToPacket[seq64].n
        /\ UNCHANGED <<popping, lastValid>> /\ popping
      BY <1>1, <1>2, <1>3, <1>5 DEF PopFront
  <2>2. /\ Held' = Held \ {seq64} /\ IsFiniteSet(Held')
        /\ \A s \in Held' : m_seq64ToPacket'[s] = m_seq64ToPacket[s]
      BY <1>1, <2>1, FS_RemoveElement DEF Held
  <2>3. PICK n \in Nat : n = m_seq64ToPacket[seq64].n
      BY <2>1, LimitsAssumption DEF ReorderInv, ReorderTypeOK
  <2>4. m_minSeq64 \in Nat /\ base \in Nat /\ n - base = seq64 - m_minSeq64
      BY <2>1, <2>3 DEF ReorderInv, ReorderTypeOK, InStep, Reconstructed
  <2>5. ReorderTypeOK'
    <3>1. popping' \in BOOLEAN
        BY <2>1 DEF ReorderInv, ReorderTypeOK
    <3> QED BY <2>1, <2>2, <2>3, <3>1 DEF ReorderInv, ReorderTypeOK
  <2>6. InStep'
    <3>1. PICK q \in Int : base = m_minSeq64 + q * M
        BY <2>4 DEF ReorderInv, InStep, None
    <3>2. PICK r \in Int : r = q * M
        BY WindowAssumption
    <3>3. base' = m_minSeq64' + r
        BY <2>1, <2>3, <2>4, <3>1, <3>2
    <3>4. popped' < base' /\ m_minSeq64' # None
        BY <2>1, <2>3 DEF None
    <3> QED BY <2>2, <3>2, <3>3, <3>4 DEF InStep
  <2>7. Reconstructed'
    <3> SUFFICES ASSUME NEW s \in Held'
                 PROVE  /\ s >= m_minSeq64'
                        /\ m_seq64ToPacket'[s].n - base' = s - m_minSeq64'
        BY DEF Reconstructed
    <3>1. s \in Held /\ s \in Nat /\ s # seq64 /\ seq64 <= s
        BY <1>1, <1>3, <2>2
    <3>2. PICK k \in Nat : k = m_seq64ToPacket[s].n /\ k = m_seq64ToPacket'[s].n
        BY <2>2, <3>1, LimitsAssumption DEF ReorderInv, ReorderTypeOK
    <3>3. k - base = s - m_minSeq64
        BY <3>1, <3>2 DEF ReorderInv, Reconstructed
    <3> QED BY <2>1, <2>3, <2>4, <3>1, <3>2, <3>3
  <2>8. HoldBounded'
      BY <2>1 DEF HoldBounded
  <2> QED BY <2>5, <2>6, <2>7, <2>8 DEF ReorderInv
<1> QED BY <1>4, <1>5

LEMMA RestStep ==
  ASSUME ReorderInv, Reset \/ TimePasses \/ UNCHANGED reorderVars
  PROVE  ReorderInv'
<1>1. CASE Reset
  <2>1. Held' = {} /\ IsFiniteSet(Held') /\ Cardinality(Held') = 0
      BY <1>1, FS_EmptySet DEF Reset, Held
  <2>2. popping' \in BOOLEAN
      BY <1>1 DEF Reset, ReorderInv, ReorderTypeOK
  <2>3. ReorderTypeOK'
      BY <1>1, <2>1, <2>2, LimitsAssumption DEF Reset, ReorderTypeOK
  <2>4. InStep' /\ Reconstructed' /\ HoldBounded'
      BY <1>1, <2>1, LimitsAssumption DEF Reset, InStep, Reconstructed, HoldBounded, None
  <2> QED BY <2>3, <2>4 DEF ReorderInv
<1>2. CASE TimePasses
  <2>1. /\ Held' = Held /\ UNCHANGED <<m_minSeq64, popping, base, popped>>
        /\ \A s \in Held : m_seq64ToPacket'[s] =
             [m_seq64ToPacket[s] EXCEPT !.age = IF @ < MaxWaiting THEN @ + 1 ELSE @]
      BY <1>2 DEF TimePasses, Held
  <2>2. lastValid' \in 0..(MaxBroken + 1)
      BY <1>2, LimitsAssumption DEF TimePasses, ReorderInv, ReorderTypeOK
  <2>3. ASSUME NEW s \in Held
        PROVE  /\ m_seq64ToPacket'[s] \in [n : Numbers, age : 0..MaxWaiting]
               /\ m_seq64ToPacket'[s].n = m_seq64ToPacket[s].n
    <3>1. PICK p \in [n : Numbers, age : 0..MaxWaiting] : p = m_seq64ToPacket[s]
        BY DEF ReorderInv, ReorderTypeOK
    <3>2. m_seq64ToPacket'[s] = [p EXCEPT !.age = IF @ < MaxWaiting THEN @ + 1 ELSE @]
        BY <2>1, <3>1
    <3> QED BY <3>1, <3>2, LimitsAssumption
  <2>4. popping' \in BOOLEAN
      BY <2>1 DEF ReorderInv, ReorderTypeOK
  <2>5. ReorderTypeOK'
      BY <2>1, <2>2, <2>3, <2>4 DEF ReorderInv, ReorderTypeOK
  <2>6. InStep' /\ Reconstructed' /\ HoldBounded'
      BY <2>1, <2>3 DEF ReorderInv, InStep, Reconstructed, HoldBounded
  <2> QED BY <2>5, <2>6 DEF ReorderInv
<1>3. CASE UNCHANGED reorderVars
    BY <1>3 DEF reorderVars, ReorderInv, ReorderTypeOK, InStep, Reconstructed, HoldBounded,
                Held
<1> QED BY <1>1, <1>2, <1>3

LEMMA ReorderInvariance == ReorderSpec => []ReorderInv
<1>1. ReorderInv /\ [ReorderNext]_reorderVars => ReorderInv'
    BY PushBackStep, PopFrontStep, RestStep DEF ReorderNext
<1> QED BY <1>1, ReorderInitInv, PTL DEF ReorderSpec

(***************************************************************************)
(* The buffer is a table of packets by long numbers, which stay natural.   *)
(***************************************************************************)
THEOREM ReorderTypeCorrect == ReorderSpec => []ReorderTypeOK
<1>1. ReorderInv => ReorderTypeOK
    BY DEF ReorderInv
<1> QED BY <1>1, ReorderInvariance, PTL

(***************************************************************************)
(* PushBack extends short sequence numbers correctly: a packet is held as  *)
(* far from the expected one as its sender put it, for every width and     *)
(* loss window, through every wrap-around.                                 *)
(***************************************************************************)
THEOREM ExtensionCorrect == ReorderSpec => []Reconstructed
<1>1. ReorderInv => Reconstructed
    BY DEF ReorderInv
<1> QED BY <1>1, ReorderInvariance, PTL

(***************************************************************************)
(* PopFront gives packets away in the order of their sender, none twice.   *)
(***************************************************************************)
THEOREM InOrderCorrect == ReorderSpec => []InOrder
<1>1. ReorderInv => InOrder
  <2> SUFFICES ASSUME ReorderInv, NEW s \in Held PROVE m_seq64ToPacket[s].n > popped
      BY DEF InOrder
  <2>1. PICK n \in Nat : n = m_seq64ToPacket[s].n
      BY LimitsAssumption DEF ReorderInv, ReorderTypeOK
  <2>2. /\ m_minSeq64 \in Nat /\ base \in Nat /\ popped \in Int /\ popped < base
        /\ s \in Nat /\ s >= m_minSeq64 /\ n - base = s - m_minSeq64
      BY <2>1 DEF ReorderInv, ReorderTypeOK, InStep, Reconstructed, None
  <2> QED BY <2>1, <2>2
<1> QED BY <1>1, ReorderInvariance, PTL

(***************************************************************************)
(* When PopFront has returned NULL, fewer than m_maxPacketCount packets    *)
(* are held, and the one expected is not among them.                       *)
(***************************************************************************)
THEOREM HoldCorrect == ReorderSpec => []HoldBounded
<1>1. ReorderInv => HoldBounded
    BY DEF ReorderInv
<1> QED BY <1>1, ReorderInvariance, PTL
-----------------------------------------------------------------------------
(***************************************************************************)
(* CProNotifyPipe, for any number of threads, changes, milliseconds and    *)
(* bytes the pipe can hold.                                                *)
(***************************************************************************)

\* The worker is on its way to read m_wantExit and the handlers, or has done so
\* after the last change.
Aware == \/ wpc \in {"enable", "zero", "loop", "off"}
         \/ ~m_wantExit /\ watched = changes

\* Once Notify has got past its send, the byte is there, unless the worker has
\* read it, which leads it to the handlers again.
Delivered == npc \notin {"test", "send"} /\ apart => pipe > 0 \/ Aware

\* EnableNotify forgets the stamp; nothing else changes it but Notify.
Stamped == m_notifyTick \in {0, lastStamp}

PipeInv == PipeTypeOK /\ (Unlocked => npc = "done") /\ Stamped /\ Delivered
-----------------------------------------------------------------------------
LEMMA PipeInitInv == PipeInit => PipeInv
<1> SUFFICES ASSUME PipeInit PROVE PipeInv
    OBVIOUS
<1>1. PipeTypeOK
  <2>1. /\ m_notifyTick \in 0..MaxTick /\ pipe \in 0..Capacity /\ changes \in 0..MaxChanges
        /\ watched \in 0..changes /\ reading \in 0..MaxTick /\ tick \in 1..MaxTick
        /\ lastStamp \in 0..MaxTick
      BY BoundsAssumption DEF PipeInit
  <2>2. m_enableNotify \in BOOLEAN /\ m_wantExit \in BOOLEAN /\ apart \in BOOLEAN
      BY DEF PipeInit
  <2> QED BY <2>1, <2>2 DEF PipeInit, PipeTypeOK
<1>2. npc = "done" /\ Stamped /\ Delivered
    BY DEF PipeInit, Stamped, Delivered, Aware
<1> QED BY <1>1, <1>2 DEF PipeInv

LEMMA RequestStep ==
  ASSUME PipeInv, NEW t \in Threads, ChangeHandlers(t) \/ Fini(t)
  PROVE  PipeInv'
<1>1. PipeTypeOK'
  <2>1. CASE ChangeHandlers(t)
      BY <2>1, BoundsAssumption DEF PipeInv, PipeTypeOK, ChangeHandlers, flags, work, hist
  <2>2. CASE Fini(t)
      BY <2>2, BoundsAssumption DEF PipeInv, PipeTypeOK, Fini, flags, work, hist
  <2> QED BY <2>1, <2>2
<1>2. /\ holder' = t /\ npc' = "test" /\ UNCHANGED <<m_notifyTick, lastStamp>>
    BY DEF ChangeHandlers, Fini, flags, hist
<1>3. ~Unlocked' /\ Stamped' /\ Delivered'
    BY <1>2, ThreadsAssumption DEF PipeInv, Unlocked, Stamped, Delivered
<1> QED BY <1>1, <1>3 DEF PipeInv

LEMMA CallerStep ==
  ASSUME PipeInv, Caller
  PROVE  PipeInv'
<1> USE DEF PipeInv, PipeTypeOK, Unlocked, Stamped, Delivered, Aware, flags, reg, work, hist
<1>1. CASE NotifyTest
    BY <1>1, BoundsAssumption DEF NotifyTest
<1>2. CASE NotifySend
    BY <1>2, BoundsAssumption DEF NotifySend
<1>3. CASE NotifyClear
    BY <1>3 DEF NotifyClear
<1>4. CASE NotifyStamp
    BY <1>4, BoundsAssumption DEF NotifyStamp
<1>5. CASE Unlock
    BY <1>5, BoundsAssumption DEF Unlock
<1> QED BY <1>1, <1>2, <1>3, <1>4, <1>5 DEF Caller

LEMMA WorkerStep ==
  ASSUME PipeInv, Worker \/ WorkerOther
  PROVE  PipeInv'
<1> USE DEF PipeInv, PipeTypeOK, Unlocked, Stamped, Delivered, Aware, flags, reg, caller, hist
<1>1. CASE WorkerLoop
    BY <1>1 DEF WorkerLoop
<1>2. CASE WorkerWoken
    BY <1>2 DEF WorkerWoken
<1>3. CASE WorkerOther
    BY <1>3 DEF WorkerOther
<1>4. CASE WorkerLookup
    BY <1>4 DEF WorkerLookup
<1>5. CASE WorkerRecv
    BY <1>5, BoundsAssumption DEF WorkerRecv
<1>6. CASE WorkerEnable
    BY <1>6 DEF WorkerEnable
<1>7. CASE WorkerZero
    BY <1>7, BoundsAssumption DEF WorkerZero
<1> QED BY <1>1, <1>2, <1>3, <1>4, <1>5, <1>6, <1>7 DEF Worker

LEMMA PipeInvariance == PipeSpec => []PipeInv
<1>1. PipeInv /\ [PipeNext]_pipeVars => PipeInv'
  <2> SUFFICES ASSUME PipeInv, [PipeNext]_pipeVars PROVE PipeInv'
      OBVIOUS
  <2>1. CASE Tick
      BY <2>1, BoundsAssumption
      DEF Tick, PipeInv, PipeTypeOK, Unlocked, Stamped, Delivered, Aware, flags, reg, caller,
          work, hist
  <2>2. CASE UNCHANGED pipeVars
      BY <2>2
      DEF pipeVars, PipeInv, PipeTypeOK, Unlocked, Stamped, Delivered, Aware, flags, reg, caller,
          work, hist
  <2> QED BY <2>1, <2>2, RequestStep, CallerStep, WorkerStep DEF PipeNext
<1> QED BY <1>1, PipeInitInv, PTL DEF PipeSpec

(***************************************************************************)
(* The flags, the pipe and both threads have their types.                  *)
(***************************************************************************)
THEOREM PipeTypeCorrect == PipeSpec => []PipeTypeOK
<1>1. PipeInv => PipeTypeOK
    BY DEF PipeInv
<1> QED BY <1>1, PipeInvariance, PTL

(***************************************************************************)
(* A worker that sleeps although AddHandler, RemoveHandler or Fini has     *)
(* asked something of it was last called in a millisecond in which Notify  *)
(* had written a byte before.                                              *)
(***************************************************************************)
THEOREM LossCorrect == PipeSpec => []LostOnlyWithinTick
<1>1. PipeInv => LostOnlyWithinTick
    BY DEF PipeInv, PipeTypeOK, Delivered, Aware, LostOnlyWithinTick, Stuck
<1> QED BY <1>1, PipeInvariance, PTL
=============================================================================
