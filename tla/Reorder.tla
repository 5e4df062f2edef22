------------------------------ MODULE Reorder ------------------------------
(***************************************************************************)
(* CProReorder (pro_util/pro_reorder.cpp), as the RTP session wrapper uses *)
(* it: one PushBack, then PopFront until it returns NULL.                  *)
(*                                                                         *)
(* A packet carries a sequence number of Width bits.  The buffer extends   *)
(* it to a long one, relative to the one it expects, m_minSeq64.  Here a   *)
(* packet also has the unbounded number the sender gave it, of which the   *)
(* code only sees n % 2^Width.                                             *)
(*                                                                         *)
(* The code only compares differences of ticks with durations: a tick is   *)
(* its age, and an age that exceeds what it is compared with stays there.  *)
(***************************************************************************)
EXTENDS Integers, FiniteSets, FiniteSetsExt

CONSTANTS
  Width,         \* bits of a sequence number (16)
  MaxLoss,       \* MAX_LOSS_COUNT (15000)
  MaxPacketCount, MaxWaiting, MaxBroken,    \* m_maxPacketCount, ...Duration
  Reach,         \* no packet is further than this from the one expected
  Numbers        \* bound: the sender's numbers

M == 2 ^ Width

ASSUME WindowAssumption ==
  /\ Width \in Nat /\ M \in Nat /\ MaxLoss \in Nat \ {0} /\ 2 * MaxLoss <= M
  /\ Reach \in Nat /\ Reach <= M - MaxLoss
ASSUME LimitsAssumption ==
  /\ MaxPacketCount \in Nat \ {0}
  /\ MaxWaiting \in Nat \ {0} /\ MaxBroken \in Nat \ {0}
  /\ Numbers \subseteq Nat

VARIABLES
  m_minSeq64,        \* the number expected next; -1: none yet
  lastValid,         \* age of m_lastValidTick
  m_seq64ToPacket,   \* long number -> [n, age]
  popping,           \* the wrapper is calling PopFront
  base,              \* history: the sender's number m_minSeq64 stands for
  popped             \* history: the sender's number popped last; -1: none

reorderVars == <<m_minSeq64, lastValid, m_seq64ToPacket, popping, base, popped>>

Held == DOMAIN m_seq64ToPacket
None == -1

ReorderTypeOK ==
  /\ m_minSeq64 \in Nat \cup {None}
  /\ lastValid \in 0..(MaxBroken + 1)
  /\ Held \subseteq Nat
  /\ \A s \in Held : m_seq64ToPacket[s] \in [n : Numbers, age : 0..MaxWaiting]
  /\ popping \in BOOLEAN
  /\ base \in Nat /\ popped \in Nat \cup {None}

ReorderInit ==
  /\ m_minSeq64 = None
  /\ lastValid = 0
  /\ m_seq64ToPacket = <<>>
  /\ popping = FALSE
  /\ base = 0 /\ popped = None
-----------------------------------------------------------------------------
\* Mutant of Extended: no carry into the high part.
ExtendedFlat(min, seq16) ==
  LET dist1 == (seq16 - min) % M
      dist2 == (min - seq16) % M
  IN  IF dist1 < MaxLoss \/ dist2 < MaxLoss THEN (min \div M) * M + seq16 ELSE None

\* The long number of the packet, or -1 when it is too far away; min >> 16 is
\* min \div M and (PRO_UINT16)min is min % M.
Extended(min, seq16) ==
  LET low     == min % M
      dist1   == (seq16 - low) % M
      dist2   == (low - seq16) % M
      forward == dist1 < dist2 /\ dist1 < MaxLoss
      back    == dist2 < dist1 /\ dist2 < MaxLoss
      high    == CASE forward /\ seq16 < low -> min \div M + 1
                   [] back /\ seq16 > low    -> min \div M - 1
                   [] OTHER                  -> min \div M
  IN  CASE seq16 = low     -> min
        [] forward \/ back -> high * M + seq16
        [] OTHER           -> None

\* The buffer starts again with the packet.
StartAgain(n) ==
  /\ m_seq64ToPacket' = [s \in {n % M} |-> [n |-> n, age |-> 0]]
  /\ m_minSeq64' = n % M
  /\ lastValid' = 0
  /\ base' = n /\ popped' = None

\* Mutant of Insert: a packet that comes too late is held, too.
InsertLate(seq64, n) ==
  /\ IF seq64 \notin Held
       THEN /\ m_seq64ToPacket' = [s \in Held \cup {seq64} |->
                 IF s = seq64 THEN [n |-> n, age |-> 0] ELSE m_seq64ToPacket[s]]
            /\ lastValid' = 0
       ELSE UNCHANGED <<m_seq64ToPacket, lastValid>>
  /\ UNCHANGED <<m_minSeq64, base, popped>>

\* A packet that comes too late or twice is dropped.
Insert(seq64, n) ==
  /\ IF seq64 >= m_minSeq64 /\ seq64 \notin Held
       THEN /\ m_seq64ToPacket' = [s \in Held \cup {seq64} |->
                 IF s = seq64 THEN [n |-> n, age |-> 0] ELSE m_seq64ToPacket[s]]
            /\ lastValid' = 0
       ELSE UNCHANGED <<m_seq64ToPacket, lastValid>>
  /\ UNCHANGED <<m_minSeq64, base, popped>>

PushBack(n) ==
  LET seq64 == Extended(m_minSeq64, n % M)
  IN
  /\ ~popping
  /\ popping' = TRUE
  /\ IF m_minSeq64 = None \/ lastValid > MaxBroken
       THEN StartAgain(n)
       ELSE /\ n - base \in -Reach..Reach
            /\ IF seq64 = None
                 THEN StartAgain(n)
                 ELSE Insert(seq64, n)

\* Mutant of PopFront: one packet more is held.
PopFrontFull ==
  LET seq64 == Min(Held)
  IN
  /\ popping
  /\ IF \/ Held = {}
        \/ /\ seq64 # m_minSeq64 /\ Cardinality(Held) <= MaxPacketCount
           /\ m_seq64ToPacket[seq64].age < MaxWaiting
       THEN /\ popping' = FALSE
            /\ UNCHANGED <<m_minSeq64, m_seq64ToPacket, base, popped>>
       ELSE /\ m_seq64ToPacket' = [s \in Held \ {seq64} |-> m_seq64ToPacket[s]]
            /\ m_minSeq64' = seq64 + 1
            /\ base' = m_seq64ToPacket[seq64].n + 1
            /\ popped' = m_seq64ToPacket[seq64].n
            /\ UNCHANGED popping
  /\ UNCHANGED lastValid

\* The first packet, if it is the one expected, too many wait, or it has waited
\* long enough; else NULL, and the wrapper stops.
PopFront ==
  LET seq64 == Min(Held)
  IN
  /\ popping
  /\ IF \/ Held = {}
        \/ /\ seq64 # m_minSeq64
           /\ Cardinality(Held) < MaxPacketCount
           /\ m_seq64ToPacket[seq64].age < MaxWaiting
       THEN /\ popping' = FALSE
            /\ UNCHANGED <<m_minSeq64, m_seq64ToPacket, base, popped>>
       ELSE /\ m_seq64ToPacket' = [s \in Held \ {seq64} |-> m_seq64ToPacket[s]]
            /\ m_minSeq64' = seq64 + 1
            /\ base' = m_seq64ToPacket[seq64].n + 1
            /\ popped' = m_seq64ToPacket[seq64].n
            /\ UNCHANGED popping
  /\ UNCHANGED lastValid

\* The wrapper closes or changes its session.
Reset ==
  /\ ~popping
  /\ m_minSeq64' = None
  /\ lastValid' = 0
  /\ m_seq64ToPacket' = <<>>
  /\ base' = 0 /\ popped' = None
  /\ UNCHANGED popping

TimePasses ==
  /\ lastValid' = IF lastValid > MaxBroken THEN lastValid ELSE lastValid + 1
  /\ m_seq64ToPacket' = [s \in Held |->
       [m_seq64ToPacket[s] EXCEPT !.age = IF @ < MaxWaiting THEN @ + 1 ELSE @]]
  /\ UNCHANGED <<m_minSeq64, popping, base, popped>>

ReorderNext == (\E n \in Numbers : PushBack(n)) \/ PopFront \/ Reset \/ TimePasses

ReorderSpec == ReorderInit /\ [][ReorderNext]_reorderVars
-----------------------------------------------------------------------------
(***************************************************************************)
(* Properties.                                                             *)
(***************************************************************************)

\* The extension of the sequence numbers is right, across wrap-arounds, losses
\* and new starts: a packet is held as far from the one expected as it really
\* is, and none is held that lies before it.
Reconstructed ==
  \A s \in Held : s >= m_minSeq64 /\ m_seq64ToPacket[s].n - base = s - m_minSeq64

\* Until the buffer starts again, packets leave it in the sender's order and
\* none leaves it twice, although the network delays, repeats and reorders them.
InOrder == \A s \in Held : m_seq64ToPacket[s].n > popped

\* When the wrapper has stopped popping, the buffer holds fewer packets than
\* m_maxPacketCount, and not the one expected.
HoldBounded ==
  ~popping => Cardinality(Held) < MaxPacketCount /\ m_minSeq64 \notin Held
=============================================================================
