------------------------------ MODULE RecvPool ------------------------------
(***************************************************************************)
(* CProRecvPool (pro_net/pro_recv_pool.h): the ring buffer a transport     *)
(* receives into.  Pointers are offsets from m_begin, so m_begin is 0 and  *)
(* m_end is Size; NULL is -1.                                              *)
(*                                                                         *)
(* A transport receives straight into the ring: recv() writes at most      *)
(* ContinuousIdleSize() bytes at ContinuousIdleBuf() and Fill(n) takes     *)
(* them over.  The observer reads with PeekData and consumes with Flush.   *)
(***************************************************************************)
EXTENDS Integers, Sequences

CONSTANTS
  Bytes,   \* byte values
  Size     \* size of the pool

ASSUME SizeAssumption == Size \in Nat \ {0}

NULL == -1

VARIABLES m_buf, m_data, m_dataSize, m_idle, m_idleSize

vars == <<m_buf, m_data, m_dataSize, m_idle, m_idleSize>>

TypeOK ==
  /\ m_buf \in [0..(Size - 1) -> Bytes]
  /\ m_data \in NULL..(Size - 1)
  /\ m_dataSize \in 0..Size
  /\ m_idle \in NULL..(Size - 1)
  /\ m_idleSize \in 0..Size

\* The constructor and Resize(Size); the memory is not initialised.
Init ==
  /\ m_buf \in [0..(Size - 1) -> Bytes]
  /\ m_data = NULL
  /\ m_dataSize = 0
  /\ m_idle = 0
  /\ m_idleSize = Size
-----------------------------------------------------------------------------
\* Mutant of ContinuousIdleSize: the end of the buffer is ignored.
IdleSizeUnclamped == m_idleSize

ContinuousIdleSize ==
  IF m_idle + m_idleSize > Size THEN Size - m_idle ELSE m_idleSize

ContinuousDataSize ==
  IF m_data + m_dataSize > Size THEN Size - m_data ELSE m_dataSize

\* Mutant of PeekData: the second memcpy starts one byte late.
PeekDataLate(n) ==
  [i \in 1..n |-> IF i <= ContinuousDataSize
                    THEN m_buf[m_data + i - 1]
                    ELSE m_buf[i - ContinuousDataSize]]

\* PeekData(buf, n): one memcpy, or two when the data wraps.
PeekData(n) ==
  [i \in 1..n |-> IF i <= ContinuousDataSize
                    THEN m_buf[m_data + i - 1]
                    ELSE m_buf[i - 1 - ContinuousDataSize]]

\* recv() of the bytes x into ContinuousIdleBuf, then Fill(Len(x)).
Fill(x) ==
  LET n == Len(x)
  IN
  /\ n > 0 /\ n <= ContinuousIdleSize
  /\ m_buf' = [p \in 0..(Size - 1) |->
                 IF p >= m_idle /\ p < m_idle + n THEN x[p - m_idle + 1]
                 ELSE m_buf[p]]
  /\ m_data' = IF m_data = NULL THEN m_idle ELSE m_data
  /\ m_dataSize' = m_dataSize + n
  /\ m_idle' = IF m_idleSize = n THEN NULL
               ELSE IF m_idle + n = Size THEN 0 ELSE m_idle + n
  /\ m_idleSize' = m_idleSize - n

\* Mutant of Advanced: a wrapped flush forgets the part after m_begin.
AdvancedToBegin(n) == IF n >= ContinuousDataSize THEN 0 ELSE m_data + n

\* Where Flush(n) leaves m_data when some data remains.
Advanced(n) ==
  IF n > ContinuousDataSize THEN n - ContinuousDataSize
  ELSE IF m_data + n = Size THEN 0 ELSE m_data + n

\* Flush starts again at m_begin when the last byte leaves ("for udp").
Flush(n) ==
  /\ n > 0 /\ n <= m_dataSize
  /\ m_dataSize' = m_dataSize - n
  /\ IF m_dataSize = n
       THEN /\ m_data' = NULL
            /\ m_idle' = 0
            /\ m_idleSize' = Size
       ELSE /\ m_data' = Advanced(n)
            /\ m_idle' = IF m_idle = NULL THEN m_data ELSE m_idle
            /\ m_idleSize' = m_idleSize + n
  /\ UNCHANGED m_buf

Next == \/ \E n \in 1..Size : \E x \in [1..n -> Bytes] : Fill(x)
        \/ \E n \in 1..Size : Flush(n)

Spec == Init /\ [][Next]_vars
-----------------------------------------------------------------------------
(***************************************************************************)
(* Properties.                                                             *)
(***************************************************************************)

Wrap(p) == IF p >= Size THEN p - Size ELSE p

\* The bytes received and not flushed, oldest first.
Content == [i \in 1..m_dataSize |-> m_buf[Wrap(m_data + i - 1)]]

\* Data and idle space tile the ring: they never overlap, none of it is lost,
\* and the idle space starts where the data ends.
RingTiles ==
  /\ m_dataSize + m_idleSize = Size
  /\ m_data = NULL <=> m_dataSize = 0
  /\ m_idle = NULL <=> m_idleSize = 0
  /\ m_data # NULL /\ m_idle # NULL => m_idle = Wrap(m_data + m_dataSize)
  /\ m_data = NULL => m_idle = 0

\* PeekData(n) returns the n oldest bytes, wherever the ring wraps.
PeekIsPrefix ==
  \A n \in 1..m_dataSize : PeekData(n) = [i \in 1..n |-> Content[i]]

\* As long as the pool is not full a transport can receive into it, inside the
\* buffer (CProTcpTransport::OnInputData asserts ContinuousIdleSize() > 0).
CanReceive ==
  m_dataSize < Size =>
    /\ ContinuousIdleSize > 0
    /\ m_idle + ContinuousIdleSize <= Size

\* Seen as the sequence of unread bytes, the ring is a byte queue.
Fifo == INSTANCE ByteFifo WITH q <- Content, Capacity <- Size

\* Every Fill is an arrival and every Flush a departure of that queue.
ImplementsFifo == Fifo!FifoSpec
=============================================================================
