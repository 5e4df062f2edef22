------------------------- MODULE TcpTransportProofs -------------------------
(***************************************************************************)
(* Proofs about CProTcpTransport, for any number of reactors, any sizes of *)
(* packets and any number of packets and heartbeats.                       *)
(***************************************************************************)
EXTENDS TcpTransport, FiniteSetTheorems, SequenceTheorems, TLAPS

\* m_lockUpcall is held by the thread that is in an upcall, an upcall belongs to
\* an event its reactor still holds, and OnClose is followed by Fini before the
\* lock is released.
Upcalls ==
  /\ \A r \in Reactors : call[r] # NoCall <=> m_lockUpcall = r
  /\ \A r \in Reactors : call[r] # NoCall => rpc[r] = "upcalls"
  /\ \A r \in Reactors : call[r].fn = "OnSend" => "WRITE" \in events[r]
  /\ m_lockUpcall = "timer" <=> tpc = "upcall"
  /\ closed <=> ~m_canUpcall
  /\ ~m_canUpcall /\ ~fini => m_lockUpcall \in Reactors

\* A reactor that holds WRITE is the one the transport is registered with, and
\* it stays registered for WRITE until that event is over.  WRITE is watched
\* only for a packet, for a request, or because OnSend or OnClose is running.
Watch ==
  ~fini =>
    /\ m_onWr <=> "WRITE" \in mask
    /\ m_pendingWr \/ m_requestOnSend => m_onWr
    /\ m_onWr => \/ m_pendingWr \/ m_requestOnSend \/ ~m_canUpcall
                 \/ \E r \in Reactors : call[r].fn = "OnSend"
    /\ \A r \in Reactors : "WRITE" \in events[r] => reactor = r /\ m_onWr

\* The pool holds the last accepted packet or nothing; m_actionId and
\* m_sendingFd are that packet's, and a descriptor goes before the packet.
Pool ==
  LET n == Len(accepted)
  IN
  /\ n <= MaxPackets
  /\ m_pendingWr => /\ n > 0 /\ Len(m_sendPool) = 1
                    /\ m_sendPool[1].pkt = n
                    /\ m_sendPool[1].left \in 1..accepted[n].size
                    /\ m_actionId = IF accepted[n].fd THEN 0 ELSE n
  /\ ~m_pendingWr => m_sendPool = <<>> /\ m_actionId = 0 /\ m_sendingFd = 0
  /\ m_sendingFd # 0 => /\ m_sendingFd = n /\ accepted[n].fd /\ ~Passed(n)
                        /\ m_sendPool[1].left = accepted[n].size
  /\ m_pendingWr /\ accepted[n].fd /\ m_sendingFd = 0 /\ m_canUpcall => Passed(n)

\* OnSend was called for all packets but the one in the pool.
Completions ==
  /\ Len(completed) = IF m_pendingWr THEN Len(accepted) - 1 ELSE Len(accepted)
  /\ \A r \in Reactors : call[r].pkt <= Len(accepted)

\* Only packets that were accepted are on the wire.
Known ==
  /\ \A i \in DOMAIN wire : wire[i] <= Len(accepted)
  /\ \A i \in DOMAIN fdsSent : fdsSent[i] <= Len(accepted) /\ accepted[fdsSent[i]].fd

IInv == TypeOK /\ Upcalls /\ Watch /\ Pool /\ Completions /\ CompletionsMatch
        /\ Known /\ WireExact
-----------------------------------------------------------------------------
(***************************************************************************)
(* Types.                                                                  *)
(***************************************************************************)

\* The bytes of one send().
LEMMA BurstType ==
  ASSUME NEW p \in Packets, NEW n \in Nat, NEW w \in Seq(Packets)
  PROVE  LET burst == [i \in 1..n |-> p]
         IN  /\ burst \in Seq(Packets) /\ Len(burst) = n
             /\ w \o burst \in Seq(Packets) /\ Len(w \o burst) = Len(w) + n
             /\ \A i \in 1..(Len(w) + n) :
                  (w \o burst)[i] = IF i <= Len(w) THEN w[i] ELSE p
<1> DEFINE burst == [i \in 1..n |-> p]
<1>1. burst \in Seq(Packets) /\ Len(burst) = n /\ \A i \in 1..n : burst[i] = p
    BY IsASeq
<1> HIDE DEF burst
<1>2. /\ w \o burst \in Seq(Packets) /\ Len(w \o burst) = Len(w) + n
      /\ \A i \in 1..(Len(w) + n) :
           (w \o burst)[i] = IF i <= Len(w) THEN w[i] ELSE burst[i - Len(w)]
    BY <1>1, ConcatProperties
<1>3. Len(w) \in Nat
    BY LenProperties
<1>4. \A i \in 1..(Len(w) + n) : (w \o burst)[i] = IF i <= Len(w) THEN w[i] ELSE p
    BY <1>1, <1>2, <1>3
<1> QED BY <1>1, <1>2, <1>4 DEF burst

\* Beginning an upcall, or ending the event without one.
LEMMA BeginsType ==
  ASSUME TypeOK, NEW r \in Reactors, NEW fn \in {"OnRecv", "OnSend", "OnClose"},
         NEW actionId \in 0..MaxPackets, NEW pkt \in 0..MaxPackets,
         Begins(r, fn, actionId, pkt)
  PROVE  /\ call' \in [Reactors -> Calls]
         /\ m_lockUpcall' \in Reactors \cup {"timer", NoReactor}
         /\ m_canUpcall' \in BOOLEAN /\ closed' \in BOOLEAN
         /\ completed' \in Seq(Packets)
         /\ rpc' = rpc /\ events' = events
<1>1. pkt # 0 => pkt \in Packets
    BY SizesAssumption DEF Packets
<1>2. completed' \in Seq(Packets)
    BY <1>1, AppendProperties DEF Begins, TypeOK
<1>3. call' \in [Reactors -> Calls]
    BY DEF Begins, TypeOK, Calls
<1> QED BY <1>2, <1>3 DEF Begins, TypeOK

LEMMA ConsumedType ==
  ASSUME TypeOK, NEW r \in Reactors, Consumed(r)
  PROVE  /\ rpc' \in [Reactors -> {"wait", "collect", "upcalls"}]
         /\ events' \in [Reactors -> SUBSET {"ERROR", "WRITE", "READ"}]
         /\ \A q \in Reactors : events'[q] \subseteq events[q]
         /\ \A q \in Reactors \ {r} : events'[q] = events[q]
         /\ "WRITE" \notin events'[r]
<1> DEFINE ev == IF "WRITE" \in events[r] THEN "WRITE" ELSE CHOOSE e \in events[r] : TRUE
<1>1. /\ events' = [events EXCEPT ![r] = events[r] \ {ev}]
      /\ "WRITE" \in events[r] => ev = "WRITE"
    BY DEF Consumed
<1>2. rpc' \in [Reactors -> {"wait", "collect", "upcalls"}]
    BY DEF Consumed, TypeOK
<1> HIDE DEF ev
<1> QED BY <1>1, <1>2 DEF TypeOK

\* AddHandler and RemoveHandler.
LEMMA RegisterType ==
  ASSUME TypeOK
  PROVE  /\ \A bit \in {"READ", "WRITE"} :
              AddHandler(bit) => /\ mask' \subseteq {"READ", "WRITE"}
                                 /\ reactor' \in Reactors \cup {NoReactor}
         /\ \A bits \in SUBSET {"READ", "WRITE"} :
              RemoveHandler(bits) => /\ mask' \subseteq {"READ", "WRITE"}
                                     /\ reactor' \in Reactors \cup {NoReactor}
    BY DEF TypeOK, AddHandler, RemoveHandler

LEMMA AnswerType ==
  ASSUME TypeOK, NEW r \in Reactors, NEW pkt \in 0..MaxPackets, Answer(r, pkt)
  PROVE  /\ m_requestOnSend' \in BOOLEAN
         /\ call' \in [Reactors -> Calls]
         /\ m_lockUpcall' \in Reactors \cup {"timer", NoReactor}
         /\ m_canUpcall' \in BOOLEAN /\ closed' \in BOOLEAN
         /\ completed' \in Seq(Packets)
         /\ rpc' \in [Reactors -> {"wait", "collect", "upcalls"}]
         /\ events' \in [Reactors -> SUBSET {"ERROR", "WRITE", "READ"}]
<1> DEFINE id == IF pkt # 0 THEN m_actionId ELSE 0
<1>1. id \in 0..MaxPackets
    BY SizesAssumption DEF TypeOK
<1>2. CASE Begins(r, "OnSend", id, pkt)
    BY <1>1, <1>2, BeginsType DEF Answer, TypeOK
<1>3. CASE BeginsNot(r)
    BY <1>3, ConsumedType DEF Answer, BeginsNot, TypeOK, locks
<1> QED BY <1>2, <1>3 DEF Answer

LEMMA QueueType ==
  ASSUME TypeOK, NEW fd \in BOOLEAN, NEW size \in Sizes, Queue(fd, size)
  PROVE  /\ accepted' \in Seq([fd : BOOLEAN, size : Sizes])
         /\ m_sendPool' \in Seq([pkt : Packets, left : Nat])
         /\ m_actionId' \in 0..MaxPackets /\ m_sendingFd' \in 0..MaxPackets
         /\ m_onWr' \in BOOLEAN /\ m_pendingWr' \in BOOLEAN
         /\ mask' \subseteq {"READ", "WRITE"} /\ reactor' \in Reactors \cup {NoReactor}
<1>1. /\ accepted' = Append(accepted, [fd |-> fd, size |-> size])
      /\ accepted \in Seq([fd : BOOLEAN, size : Sizes])
      /\ Len(accepted) < MaxPackets
    BY DEF Queue, TypeOK
<1>2. /\ accepted' \in Seq([fd : BOOLEAN, size : Sizes])
      /\ Len(accepted') = Len(accepted) + 1 /\ Len(accepted) \in Nat
    BY <1>1, AppendProperties, LenProperties
<1>3. Len(accepted') \in Packets
    BY <1>1, <1>2, SizesAssumption DEF Packets
<1>4. [pkt |-> Len(accepted'), left |-> size] \in [pkt : Packets, left : Nat]
    BY <1>3, SizesAssumption
<1>5. m_sendPool' \in Seq([pkt : Packets, left : Nat])
    BY <1>4, AppendProperties DEF Queue, TypeOK
<1>6. m_actionId' \in 0..MaxPackets /\ m_sendingFd' \in 0..MaxPackets
    BY <1>3 DEF Queue, TypeOK, Packets
<1>7. mask' \subseteq {"READ", "WRITE"} /\ reactor' \in Reactors \cup {NoReactor}
    BY RegisterType DEF Queue, StartWriting, reg, TypeOK
<1> QED BY <1>2, <1>5, <1>6, <1>7 DEF Queue, StartWriting

LEMMA HeadType ==
  ASSUME TypeOK, m_sendPool # <<>>
  PROVE  /\ Head(m_sendPool) \in [pkt : Packets, left : Nat]
         /\ Head(m_sendPool) = m_sendPool[1]
         /\ Tail(m_sendPool) \in Seq([pkt : Packets, left : Nat])
         /\ Head(m_sendPool).pkt \in 1..MaxPackets
<1> DEFINE B == [pkt : Packets, left : Nat]
<1>1. m_sendPool \in Seq(B)
    BY DEF TypeOK
<1>2. Head(m_sendPool) \in B /\ Tail(m_sendPool) \in Seq(B)
    BY <1>1, HeadTailProperties
<1>3. Head(m_sendPool) = m_sendPool[1]
    BY <1>1
<1> QED BY <1>2, <1>3 DEF Packets

LEMMA SendType ==
  ASSUME TypeOK, NEW r \in Reactors, NEW n \in Nat, OnOutputSend(r, n)
  PROVE  /\ m_sendPool' \in Seq([pkt : Packets, left : Nat])
         /\ wire' \in Seq(Packets)
<1> DEFINE buf == Head(m_sendPool)
<1>1. buf \in [pkt : Packets, left : Nat] /\ Tail(m_sendPool) \in Seq([pkt : Packets, left : Nat])
    BY HeadType DEF OnOutputSend
<1>2. /\ n <= buf.left
      /\ wire' = wire \o [i \in 1..n |-> buf.pkt]
      /\ m_sendPool' = IF n = buf.left THEN Tail(m_sendPool)
                       ELSE <<[buf EXCEPT !.left = @ - n]>> \o Tail(m_sendPool)
    BY DEF OnOutputSend
<1> HIDE DEF buf
<1>3. wire' \in Seq(Packets)
    BY <1>1, <1>2, BurstType DEF TypeOK
<1>4. <<[buf EXCEPT !.left = @ - n]>> \in Seq([pkt : Packets, left : Nat])
  <2>1. [buf EXCEPT !.left = @ - n] \in [pkt : Packets, left : Nat]
    <3>1. buf.left - n \in Nat
        BY <1>1, <1>2
    <3> QED BY <1>1, <3>1
  <2> QED BY <2>1
<1>5. <<[buf EXCEPT !.left = @ - n]>> \o Tail(m_sendPool) \in Seq([pkt : Packets, left : Nat])
    BY <1>1, <1>4, ConcatProperties
<1> QED BY <1>1, <1>2, <1>3, <1>5

LEMMA TypeStep == TypeOK /\ [Next]_vars => TypeOK'
<1> SUFFICES ASSUME TypeOK, [Next]_vars PROVE TypeOK'
    OBVIOUS
<1> USE DEF sends, reg, peer, locks, io, timer, out
<1>1. ASSUME NEW size \in Sizes, SendData(size) PROVE TypeOK'
    BY <1>1, QueueType DEF SendData, TypeOK
<1>2. ASSUME NEW size \in Sizes, SendFd(size) PROVE TypeOK'
    BY <1>2, QueueType DEF SendFd, TypeOK
<1>3. CASE RequestOnSend
    BY <1>3, RegisterType DEF RequestOnSend, StartWriting, TypeOK
<1>4. CASE SuspendRecv
    BY <1>4, RegisterType DEF SuspendRecv, TypeOK
<1>5. CASE ResumeRecv
    BY <1>5, RegisterType DEF ResumeRecv, TypeOK
<1>6. CASE StartHeartbeat
  <2>1. m_timerId' \in 0..MaxTimers /\ nextTimer' \in 1..(MaxTimers + 1)
      BY <1>6, SizesAssumption DEF StartHeartbeat, TypeOK
  <2> QED BY <1>6, <2>1 DEF StartHeartbeat, TypeOK
<1>7. CASE StopHeartbeat
    BY <1>7, SizesAssumption DEF StopHeartbeat, TypeOK
<1>8. CASE Fini
  <2>1. 0 \in 0..MaxTimers
      BY SizesAssumption
  <2>2. mask' \subseteq {"READ", "WRITE"} /\ reactor' \in Reactors \cup {NoReactor}
      BY <1>8, RegisterType DEF Fini, Finished
  <2> QED BY <1>8, <2>1, <2>2 DEF Fini, Finished, TypeOK
<1>9. ASSUME NEW r \in Reactors, NEW ev \in SUBSET {"ERROR", "WRITE", "READ"}, IoWait(r, ev)
      PROVE  TypeOK'
    BY <1>9 DEF IoWait, TypeOK
<1>10. ASSUME NEW r \in Reactors, IoCollect(r) PROVE TypeOK'
  <2>1. events' \in [Reactors -> SUBSET {"ERROR", "WRITE", "READ"}]
      BY <1>10 DEF IoCollect, TypeOK
  <2>2. rpc' \in [Reactors -> {"wait", "collect", "upcalls"}]
      BY <1>10 DEF IoCollect, TypeOK
  <2> QED BY <1>10, <2>1, <2>2 DEF IoCollect, TypeOK
<1>11. ASSUME NEW r \in Reactors, IoDropped(r) PROVE TypeOK'
    BY <1>11, ConsumedType DEF IoDropped, TypeOK
<1>12. ASSUME NEW r \in Reactors, OnInputFd(r) PROVE TypeOK'
  <2>1. 0 \in 0..MaxPackets
      BY SizesAssumption
  <2> QED BY <1>12, <2>1, BeginsType DEF OnInputFd, TypeOK
<1>13. ASSUME NEW r \in Reactors, NEW n \in 1..PoolSize, OnInputData(r, n) PROVE TypeOK'
  <2>1. 0 \in 0..MaxPackets
      BY SizesAssumption
  <2>2. dataSize' \in 0..PoolSize
      BY <1>13, SizesAssumption DEF OnInputData, TypeOK
  <2> QED BY <1>13, <2>1, <2>2, BeginsType DEF OnInputData, TypeOK
<1>14. ASSUME NEW r \in Reactors, OnInputNothing(r) PROVE TypeOK'
    BY <1>14, ConsumedType DEF OnInputNothing, BeginsNot, TypeOK
<1>15. ASSUME NEW r \in Reactors, OnInputClose(r) PROVE TypeOK'
  <2>1. 0 \in 0..MaxPackets
      BY SizesAssumption
  <2> QED BY <1>15, <2>1, BeginsType DEF OnInputClose, TypeOK
<1>16. ASSUME NEW r \in Reactors, NEW n \in 1..PoolSize, Consume(r, n) PROVE TypeOK'
  <2>1. dataSize' \in 0..PoolSize
      BY <1>16, SizesAssumption DEF Consume, TypeOK
  <2> QED BY <1>16, <2>1 DEF Consume, TypeOK
<1>17. ASSUME NEW r \in Reactors, OnError(r) PROVE TypeOK'
  <2>1. 0 \in 0..MaxPackets
      BY SizesAssumption
  <2> QED BY <1>17, <2>1, BeginsType DEF OnError, TypeOK
<1>18. ASSUME NEW r \in Reactors, OnOutputRequested(r) PROVE TypeOK'
  <2>1. 0 \in 0..MaxPackets
      BY SizesAssumption
  <2> QED BY <1>18, <2>1, AnswerType DEF OnOutputRequested, TypeOK
<1>19. ASSUME NEW r \in Reactors, NEW size \in Sizes, NEW n \in 1..size, OnOutputSend(r, n)
       PROVE  TypeOK'
  <2>1. n \in Nat /\ 0 \in 0..MaxPackets
      BY SizesAssumption
  <2>2. Head(m_sendPool).pkt \in 0..MaxPackets
      BY <1>19, HeadType DEF OnOutputSend
  <2>3. (IF n = Head(m_sendPool).left THEN Head(m_sendPool).pkt ELSE 0) \in 0..MaxPackets
      BY <2>1, <2>2
  <2>4. m_actionId' \in 0..MaxPackets
      BY <1>19, <2>1 DEF OnOutputSend, TypeOK
  <2>5. /\ m_requestOnSend' \in BOOLEAN
        /\ call' \in [Reactors -> Calls]
        /\ m_lockUpcall' \in Reactors \cup {"timer", NoReactor}
        /\ m_canUpcall' \in BOOLEAN /\ closed' \in BOOLEAN
        /\ completed' \in Seq(Packets)
        /\ rpc' \in [Reactors -> {"wait", "collect", "upcalls"}]
        /\ events' \in [Reactors -> SUBSET {"ERROR", "WRITE", "READ"}]
      BY <1>19, <2>3, AnswerType DEF OnOutputSend
  <2> QED BY <1>19, <2>1, <2>4, <2>5, SendType DEF OnOutputSend, TypeOK
<1>20. ASSUME NEW r \in Reactors, OnOutputFd(r) PROVE TypeOK'
  <2>1. 0 \in 0..MaxPackets
      BY SizesAssumption
  <2>2. wire' \in Seq(Packets)
      BY <1>20, HeadType, BurstType DEF OnOutputFd, TypeOK
  <2>3. fdsSent' \in Seq(Packets)
      BY <1>20, AppendProperties, SizesAssumption DEF OnOutputFd, TypeOK, Packets
  <2> QED BY <1>20, <2>1, <2>2, <2>3, AnswerType DEF OnOutputFd, TypeOK
<1>21. ASSUME NEW r \in Reactors, OnOutputClose(r) PROVE TypeOK'
  <2>1. 0 \in 0..MaxPackets
      BY SizesAssumption
  <2> QED BY <1>21, <2>1, BeginsType DEF OnOutputClose, TypeOK
<1>22. ASSUME NEW r \in Reactors, IoReturn(r) PROVE TypeOK'
  <2>1. call' \in [Reactors -> Calls]
      BY <1>22, SizesAssumption DEF IoReturn, TypeOK, Calls, NoCall
  <2>2. 0 \in 0..MaxTimers
      BY SizesAssumption
  <2>3. /\ mask' \subseteq {"READ", "WRITE"} /\ reactor' \in Reactors \cup {NoReactor}
        /\ fini' \in BOOLEAN /\ m_timerId' \in 0..MaxTimers /\ m_onWr' \in BOOLEAN
      BY <1>22, <2>2, RegisterType DEF IoReturn, Finished, TypeOK
  <2> QED BY <1>22, <2>1, <2>3, ConsumedType DEF IoReturn, TypeOK
<1>23. CASE TimerFires
    BY <1>23 DEF TimerFires, TypeOK
<1>24. CASE TimerThread
  <2>1. 0 \in 0..MaxTimers
      BY SizesAssumption
  <2>2. CASE OnTimer
    <3>1. /\ tpc' \in {"idle", "upcall"} /\ firing' \in {0, firing}
          /\ m_lockUpcall' \in {"timer", m_lockUpcall}
        BY <2>2 DEF OnTimer
    <3> QED BY <2>1, <2>2, <3>1 DEF OnTimer, TypeOK
  <2>3. CASE TimerReturn
      BY <2>1, <2>3 DEF TimerReturn, TypeOK
  <2> QED BY <1>24, <2>2, <2>3 DEF TimerThread
<1>25. CASE PeerHangsUp
    BY <1>25 DEF PeerHangsUp, TypeOK
<1>26. CASE UNCHANGED vars
    BY <1>26 DEF vars, TypeOK
<1> QED
    BY <1>1, <1>2, <1>3, <1>4, <1>5, <1>6, <1>7, <1>8, <1>9, <1>10, <1>11, <1>12, <1>13, <1>14,
       <1>15, <1>16, <1>17, <1>18, <1>19, <1>20, <1>21, <1>22, <1>23, <1>24, <1>25, <1>26
    DEF Next, Io

\* Every field keeps its type.
THEOREM TypeCorrect == Spec => []TypeOK
<1>1. ASSUME Init PROVE TypeOK
  <2>1. 0 \in 0..MaxPackets /\ 0 \in 0..MaxTimers /\ 1 \in 1..(MaxTimers + 1)
        /\ 0 \in 0..PoolSize
      BY SizesAssumption
  <2>2. call \in [Reactors -> Calls]
      BY <1>1, <2>1 DEF Init, Calls, NoCall
  <2>3. \A S : <<>> \in Seq(S)
      BY EmptySeq
  <2> QED BY <1>1, <2>1, <2>2, <2>3 DEF Init, TypeOK
<1> QED BY <1>1, TypeStep, PTL DEF Spec
-----------------------------------------------------------------------------
(***************************************************************************)
(* Upcalls.                                                                *)
(***************************************************************************)

\* A reactor that gets m_lockUpcall for an event of a transport in use finds
\* nobody in an upcall, and OnClose has not been called.
LEMMA Entering ==
  ASSUME TypeOK, Upcalls, NEW r \in Reactors, NEW ev, Enters(r, ev), ~fini
  PROVE  /\ m_canUpcall /\ ~closed /\ tpc # "upcall"
         /\ \A q \in Reactors : call[q] = NoCall
    BY ReactorsAssumption DEF Upcalls, Enters, TypeOK

LEMMA BeginsEffect ==
  ASSUME TypeOK, Upcalls, NEW r \in Reactors, NEW ev, Enters(r, ev), ~fini,
         NEW fn, NEW id, NEW pkt, Begins(r, fn, id, pkt)
  PROVE  /\ call'[r] = [fn |-> fn, actionId |-> id, pkt |-> pkt]
         /\ \A q \in Reactors \ {r} : call'[q] = NoCall
         /\ m_lockUpcall' = r
         /\ m_canUpcall' <=> fn # "OnClose"
         /\ closed' <=> fn = "OnClose"
         /\ events' = events /\ rpc' = rpc
<1>1. m_canUpcall /\ ~closed /\ \A q \in Reactors : call[q] = NoCall
    BY Entering
<1>2. call' = [call EXCEPT ![r] = [fn |-> fn, actionId |-> id, pkt |-> pkt]]
    BY <1>1 DEF Begins
<1>3. /\ call'[r] = [fn |-> fn, actionId |-> id, pkt |-> pkt]
      /\ \A q \in Reactors \ {r} : call'[q] = call[q]
    BY <1>2 DEF TypeOK
<1>4. m_canUpcall' <=> fn # "OnClose"
    BY <1>1 DEF Begins
<1>5. closed' <=> fn = "OnClose"
    BY <1>1 DEF Begins
<1> QED BY <1>1, <1>3, <1>4, <1>5 DEF Begins

LEMMA BeginsUpcalls ==
  ASSUME TypeOK, Upcalls, NEW r \in Reactors, NEW ev, Enters(r, ev), ~fini,
         NEW fn \in {"OnRecv", "OnSend", "OnClose"}, fn = "OnSend" => ev = "WRITE",
         NEW id, NEW pkt, Begins(r, fn, id, pkt), tpc' = tpc, fini' = fini
  PROVE  Upcalls'
<1>1. /\ call'[r] = [fn |-> fn, actionId |-> id, pkt |-> pkt]
      /\ \A q \in Reactors \ {r} : call'[q] = NoCall
      /\ m_lockUpcall' = r
      /\ m_canUpcall' <=> fn # "OnClose"
      /\ closed' <=> fn = "OnClose"
      /\ events' = events /\ rpc' = rpc
    BY BeginsEffect
<1>2. call'[r] # NoCall /\ NoCall.fn = "none" /\ call'[r].fn = fn
    BY <1>1 DEF NoCall
<1>3. tpc # "upcall" /\ r # "timer" /\ rpc[r] = "upcalls" /\ ev \in events[r]
    BY Entering, ReactorsAssumption DEF Enters
<1> QED BY <1>1, <1>2, <1>3 DEF Upcalls

LEMMA KeepsUpcalls ==
  ASSUME TypeOK, Upcalls, UNCHANGED <<call, m_lockUpcall, m_canUpcall, closed>>,
         tpc' = "upcall" <=> tpc = "upcall", fini => fini',
         \A r \in Reactors : call[r] # NoCall =>
           rpc'[r] = rpc[r] /\ ("WRITE" \in events[r] => "WRITE" \in events'[r])
  PROVE  Upcalls'
<1>1. \A r \in Reactors : call[r].fn = "OnSend" => call[r] # NoCall
    BY DEF NoCall
<1> QED BY <1>1 DEF Upcalls

\* The end of an event without an upcall.
LEMMA EndsUpcalls ==
  ASSUME TypeOK, Upcalls, NEW r \in Reactors, call[r] = NoCall, Consumed(r),
         UNCHANGED <<call, m_lockUpcall, m_canUpcall, closed, tpc, fini>>
  PROVE  Upcalls'
<1>1. \A q \in Reactors \ {r} : events'[q] = events[q] /\ rpc'[q] = rpc[q]
    BY ConsumedType DEF Consumed, TypeOK
<1> QED BY <1>1, KeepsUpcalls

LEMMA AnswerUpcalls ==
  ASSUME TypeOK, Upcalls, NEW r \in Reactors, Enters(r, "WRITE"), ~fini,
         NEW pkt, Answer(r, pkt), tpc' = tpc, fini' = fini
  PROVE  Upcalls'
<1>1. CASE BeginsNot(r)
    BY <1>1, EndsUpcalls DEF BeginsNot, locks, Enters
<1>2. CASE Begins(r, "OnSend", IF pkt # 0 THEN m_actionId ELSE 0, pkt)
    BY <1>2, BeginsUpcalls
<1> QED BY <1>1, <1>2 DEF Answer

LEMMA UpcallsStep ==
  ASSUME TypeOK, Upcalls, [Next]_vars
  PROVE  Upcalls'
<1> USE DEF reg, locks, io, timer, out
<1>1. ASSUME UNCHANGED <<locks, io, closed>>, tpc' = "upcall" <=> tpc = "upcall", fini => fini'
      PROVE  Upcalls'
    BY <1>1, KeepsUpcalls
<1>2. ASSUME NEW size \in Sizes, SendData(size) \/ SendFd(size) PROVE Upcalls'
    BY <1>1, <1>2 DEF SendData, SendFd
<1>3. CASE RequestOnSend \/ SuspendRecv \/ ResumeRecv \/ StartHeartbeat \/ StopHeartbeat
    BY <1>1, <1>3 DEF RequestOnSend, SuspendRecv, ResumeRecv, StartHeartbeat, StopHeartbeat
<1>4. CASE Fini \/ TimerFires \/ PeerHangsUp \/ UNCHANGED vars
    BY <1>1, <1>4 DEF Fini, TimerFires, PeerHangsUp, vars
<1>5. ASSUME NEW r \in Reactors, NEW n \in 1..PoolSize, Consume(r, n) PROVE Upcalls'
    BY <1>1, <1>5 DEF Consume
<1>6. ASSUME NEW r \in Reactors, NEW ev \in SUBSET {"ERROR", "WRITE", "READ"}, IoWait(r, ev)
      PROVE  Upcalls'
  <2>1. \A q \in Reactors : call[q] # NoCall => rpc'[q] = rpc[q] /\ events'[q] = events[q]
      BY <1>6 DEF IoWait, Upcalls, TypeOK
  <2> QED BY <1>6, <2>1, KeepsUpcalls DEF IoWait
<1>7. ASSUME NEW r \in Reactors, IoCollect(r) PROVE Upcalls'
  <2>1. \A q \in Reactors : call[q] # NoCall => rpc'[q] = rpc[q] /\ events'[q] = events[q]
      BY <1>7 DEF IoCollect, Upcalls, TypeOK
  <2> QED BY <1>7, <2>1, KeepsUpcalls DEF IoCollect
<1>8. ASSUME NEW r \in Reactors, IoDropped(r) PROVE Upcalls'
    BY <1>8, EndsUpcalls DEF IoDropped, Enters
<1>9. ASSUME NEW r \in Reactors, OnInputNothing(r) PROVE Upcalls'
    BY <1>9, EndsUpcalls DEF OnInputNothing, BeginsNot, Enters
<1>10. ASSUME NEW r \in Reactors, OnInputFd(r) PROVE Upcalls'
    BY <1>10, BeginsUpcalls DEF OnInputFd
<1>11. ASSUME NEW r \in Reactors, NEW n \in 1..PoolSize, OnInputData(r, n) PROVE Upcalls'
    BY <1>11, BeginsUpcalls DEF OnInputData
<1>12. ASSUME NEW r \in Reactors, OnInputClose(r) PROVE Upcalls'
    BY <1>12, BeginsUpcalls DEF OnInputClose
<1>13. ASSUME NEW r \in Reactors, OnError(r) PROVE Upcalls'
    BY <1>13, BeginsUpcalls DEF OnError
<1>14. ASSUME NEW r \in Reactors, OnOutputClose(r) PROVE Upcalls'
    BY <1>14, BeginsUpcalls DEF OnOutputClose
<1>15. ASSUME NEW r \in Reactors, OnOutputRequested(r) PROVE Upcalls'
    BY <1>15, AnswerUpcalls DEF OnOutputRequested
<1>16. ASSUME NEW r \in Reactors, NEW n, OnOutputSend(r, n) PROVE Upcalls'
    BY <1>16, AnswerUpcalls DEF OnOutputSend
<1>17. ASSUME NEW r \in Reactors, OnOutputFd(r) PROVE Upcalls'
    BY <1>17, AnswerUpcalls DEF OnOutputFd
<1>18. ASSUME NEW r \in Reactors, IoReturn(r) PROVE Upcalls'
  <2>1. /\ m_lockUpcall = r /\ m_lockUpcall' = NoReactor
        /\ \A q \in Reactors : call'[q] = NoCall
        /\ tpc # "upcall" /\ tpc' = tpc /\ closed' = closed /\ m_canUpcall' = m_canUpcall
      BY <1>18, ReactorsAssumption DEF IoReturn, Upcalls, TypeOK
  <2>2. ~m_canUpcall => fini'
      BY <1>18 DEF IoReturn, Finished
  <2>3. NoCall.fn = "none"
      BY DEF NoCall
  <2> QED BY <2>1, <2>2, <2>3, ReactorsAssumption DEF Upcalls
<1>19. CASE OnTimer
    BY <1>19, ReactorsAssumption DEF OnTimer, Upcalls, TypeOK
<1>20. CASE TimerReturn
    BY <1>20, ReactorsAssumption DEF TimerReturn, Upcalls, TypeOK
<1> QED
    BY <1>2, <1>3, <1>4, <1>5, <1>6, <1>7, <1>8, <1>9, <1>10, <1>11, <1>12, <1>13, <1>14,
       <1>15, <1>16, <1>17, <1>18, <1>19, <1>20
    DEF Next, Io, TimerThread

THEOREM UpcallsInvariance == Spec => [](TypeOK /\ Upcalls)
<1>1. Init => Upcalls
    BY ReactorsAssumption DEF Init, Upcalls, NoCall
<1> QED BY <1>1, UpcallsStep, TypeCorrect, PTL DEF Spec

(***************************************************************************)
(* After OnClose or Fini no event and no heartbeat begins an upcall.       *)
(***************************************************************************)
THEOREM CloseCorrect == Spec => NothingAfterClose
<1> DEFINE P == closed \/ fini =>
             /\ \A r \in Reactors : call'[r] \in {call[r], NoCall} \/ call'[r].fn = "skip"
             /\ tpc' = "upcall" => tpc = "upcall"
<1>1. ASSUME TypeOK, Upcalls, [Next]_vars PROVE P
  <2> SUFFICES ASSUME closed \/ fini
               PROVE  /\ \A r \in Reactors :
                           call'[r] \in {call[r], NoCall} \/ call'[r].fn = "skip"
                      /\ tpc' = "upcall" => tpc = "upcall"
      OBVIOUS
  <2>1. closed => ~m_canUpcall
      BY <1>1 DEF Upcalls
  <2>2. \A r \in Reactors : \A ev : Enters(r, ev) => fini
      BY <1>1, <2>1, Entering
  <2>3. ASSUME NEW r \in Reactors, Io(r) PROVE IoCollect(r) \/ IoDropped(r) \/ IoReturn(r)
      BY <2>2, <2>3
      DEF Io, OnError, OnInputNothing, OnInputClose, OnInputFd, OnInputData,
          OnOutputRequested, OnOutputFd, OnOutputClose, OnOutputSend
  <2>4. ASSUME NEW r \in Reactors, IoReturn(r) PROVE \A q \in Reactors : call'[q] \in {call[q], NoCall}
      BY <1>1, <2>4 DEF IoReturn, TypeOK
  <2>5. call' = call \/ \E r \in Reactors : IoReturn(r)
      BY <1>1, <2>3
      DEF Next, TimerThread, SendData, SendFd, RequestOnSend, SuspendRecv, ResumeRecv,
          StartHeartbeat, StopHeartbeat, Fini, IoWait, Consume, TimerFires, OnTimer,
          TimerReturn, PeerHangsUp, IoCollect, IoDropped, vars, io
  <2>6. tpc' = "upcall" => tpc = "upcall" \/ OnTimer
      BY <1>1, <2>3
      DEF Next, TimerThread, SendData, SendFd, RequestOnSend, SuspendRecv, ResumeRecv,
          StartHeartbeat, StopHeartbeat, Fini, IoWait, Consume, TimerFires,
          TimerReturn, PeerHangsUp, IoCollect, IoDropped, IoReturn, vars, timer
  <2>7. OnTimer => tpc' = "idle"
      BY <2>1 DEF OnTimer
  <2> QED BY <2>4, <2>5, <2>6, <2>7
<1> QED BY <1>1, UpcallsInvariance, PTL DEF Spec, NothingAfterClose
-----------------------------------------------------------------------------
(***************************************************************************)
(* WRITE.                                                                  *)
(***************************************************************************)

\* Steps that leave the fields about writing and the registration alone and
\* give no reactor a new event.
LEMMA KeepsWatch ==
  ASSUME Watch, fini' = fini, m_onWr' = m_onWr, m_pendingWr' = m_pendingWr,
         m_requestOnSend' = m_requestOnSend, mask' = mask, reactor' = reactor,
         m_canUpcall' = m_canUpcall, call' = call,
         \A r \in Reactors : events'[r] \subseteq events[r]
  PROVE  Watch'
    BY DEF Watch

\* SendData, SendFd and RequestOnSend.
LEMMA StartWatch ==
  ASSUME TypeOK, Watch, StartWriting, ~fini, fini' = fini,
         m_pendingWr' \/ m_requestOnSend', UNCHANGED <<events, m_canUpcall, call>>
  PROVE  Watch'
<1>1. m_onWr' /\ "WRITE" \in mask'
    BY DEF StartWriting, Watch, AddHandler, reg
<1>2. \A r \in Reactors : "WRITE" \in events[r] => reactor' = r
    BY ReactorsAssumption DEF StartWriting, Watch, AddHandler, reg
<1> QED BY <1>1, <1>2 DEF Watch

\* An event that begins OnRecv or OnClose, or OnSend for a packet or a request.
LEMMA BeginsWatch ==
  ASSUME TypeOK, Upcalls, Watch, NEW r \in Reactors, NEW ev, Enters(r, ev), ~fini,
         NEW fn, NEW id, NEW pkt, Begins(r, fn, id, pkt),
         UNCHANGED <<fini, m_onWr, mask, reactor>>,
         fn \notin {"OnSend", "OnClose"} => UNCHANGED <<m_pendingWr, m_requestOnSend>>,
         m_pendingWr' => m_pendingWr, m_requestOnSend' => m_requestOnSend
  PROVE  Watch'
<1>1. /\ call'[r] = [fn |-> fn, actionId |-> id, pkt |-> pkt]
      /\ m_canUpcall' <=> fn # "OnClose"
      /\ events' = events
    BY BeginsEffect
<1>2. \A q \in Reactors : call[q].fn = "none"
    BY Entering DEF NoCall
<1> QED BY <1>1, <1>2, Entering DEF Watch

\* OnOutput without a failure: what is left in the pool is still pending.
LEMMA AnswerWatch ==
  ASSUME TypeOK, Upcalls, Watch, NEW r \in Reactors, Enters(r, "WRITE"), ~fini,
         NEW pkt, Answer(r, pkt), UNCHANGED <<fini, m_onWr, mask, reactor>>,
         m_pendingWr' => m_pendingWr,
         pkt = 0 /\ ~m_requestOnSend => m_pendingWr' = m_pendingWr
  PROVE  Watch'
<1>1. CASE pkt # 0 \/ m_requestOnSend
    BY <1>1, BeginsWatch DEF Answer
<1>2. CASE ~(pkt # 0 \/ m_requestOnSend)
  <2>1. UNCHANGED <<m_pendingWr, m_requestOnSend, m_canUpcall, call>>
      BY <1>2 DEF Answer, BeginsNot, locks, TypeOK
  <2>2. \A q \in Reactors : events'[q] \subseteq events[q]
      BY <1>2, ConsumedType DEF Answer, BeginsNot
  <2> QED BY <2>1, <2>2, KeepsWatch
<1> QED BY <1>1, <1>2

LEMMA WatchStep ==
  ASSUME TypeOK, Upcalls, Watch, Pool, [Next]_vars
  PROVE  Watch'
<1> USE DEF sends, reg, locks, io
<1>1. ASSUME NEW size \in Sizes, SendData(size) \/ SendFd(size) PROVE Watch'
    BY <1>1, StartWatch DEF SendData, SendFd, Queue
<1>2. CASE RequestOnSend
    BY <1>2, StartWatch DEF RequestOnSend
<1>3. CASE SuspendRecv \/ ResumeRecv
  <2>1. "WRITE" \in mask' <=> "WRITE" \in mask
      BY <1>3 DEF SuspendRecv, ResumeRecv, AddHandler, RemoveHandler
  <2>2. "WRITE" \in mask /\ reactor # NoReactor => reactor' = reactor
      BY <1>3 DEF SuspendRecv, ResumeRecv, AddHandler, RemoveHandler
  <2> QED BY <1>3, <2>1, <2>2, ReactorsAssumption DEF Watch, SuspendRecv, ResumeRecv
<1>4. CASE StartHeartbeat \/ StopHeartbeat \/ TimerFires \/ TimerThread \/ PeerHangsUp
           \/ UNCHANGED vars
    BY <1>4, KeepsWatch
    DEF StartHeartbeat, StopHeartbeat, TimerFires, TimerThread, OnTimer, TimerReturn,
        PeerHangsUp, vars
<1>5. CASE Fini
    BY <1>5 DEF Fini, Finished, Watch
<1>6. ASSUME NEW r \in Reactors, NEW n \in 1..PoolSize, Consume(r, n) PROVE Watch'
    BY <1>6, KeepsWatch DEF Consume
<1>7. ASSUME NEW r \in Reactors, NEW ev \in SUBSET {"ERROR", "WRITE", "READ"}, IoWait(r, ev)
      PROVE  Watch'
  <2>1. \A q \in Reactors \ {r} : events'[q] = events[q]
      BY <1>7 DEF IoWait, TypeOK
  <2>2. reactor = r /\ ("WRITE" \in events'[r] => "WRITE" \in mask)
      BY <1>7 DEF IoWait, TypeOK
  <2> QED BY <1>7, <2>1, <2>2 DEF IoWait, Watch
<1>8. ASSUME NEW r \in Reactors, IoCollect(r) PROVE Watch'
  <2>1. \A q \in Reactors : events'[q] \subseteq events[q]
      BY <1>8 DEF IoCollect, TypeOK
  <2> QED BY <1>8, <2>1, KeepsWatch DEF IoCollect
<1>9. ASSUME NEW r \in Reactors, IoDropped(r) PROVE Watch'
    BY <1>9 DEF IoDropped, Watch
<1>10. ASSUME NEW r \in Reactors, OnInputNothing(r) PROVE Watch'
    BY <1>10, KeepsWatch, ConsumedType DEF OnInputNothing, BeginsNot
<1>11. ASSUME NEW r \in Reactors, OnInputFd(r) PROVE Watch'
    BY <1>11, BeginsWatch DEF OnInputFd
<1>12. ASSUME NEW r \in Reactors, NEW n \in 1..PoolSize, OnInputData(r, n) PROVE Watch'
    BY <1>12, BeginsWatch DEF OnInputData
<1>13. ASSUME NEW r \in Reactors, OnInputClose(r) PROVE Watch'
    BY <1>13, BeginsWatch DEF OnInputClose
<1>14. ASSUME NEW r \in Reactors, OnError(r) PROVE Watch'
    BY <1>14, BeginsWatch DEF OnError
<1>15. ASSUME NEW r \in Reactors, OnOutputClose(r) PROVE Watch'
    BY <1>15, BeginsWatch DEF OnOutputClose
<1>16. ASSUME NEW r \in Reactors, OnOutputRequested(r) PROVE Watch'
  <2>1. m_pendingWr' = m_pendingWr
      BY <1>16 DEF OnOutputRequested, Pool, TypeOK
  <2> QED BY <1>16, <2>1, AnswerWatch DEF OnOutputRequested
<1>17. ASSUME NEW r \in Reactors, NEW n, OnOutputSend(r, n) PROVE Watch'
  <2> DEFINE pkt == IF n = Head(m_sendPool).left THEN Head(m_sendPool).pkt ELSE 0
  <2>1. pkt = 0 => n # Head(m_sendPool).left
      BY <1>17, HeadType, SizesAssumption DEF OnOutputSend
  <2>2. m_pendingWr' => m_pendingWr
      BY <1>17 DEF OnOutputSend
  <2>3. pkt = 0 => m_pendingWr' = m_pendingWr
      BY <1>17, <2>1 DEF OnOutputSend, TypeOK
  <2>4. /\ Enters(r, "WRITE") /\ ~fini /\ UNCHANGED <<fini, m_onWr, mask, reactor>>
        /\ Answer(r, pkt)
      BY <1>17 DEF OnOutputSend
  <2> HIDE DEF pkt
  <2> QED BY <2>2, <2>3, <2>4, AnswerWatch
<1>18. ASSUME NEW r \in Reactors, OnOutputFd(r) PROVE Watch'
    BY <1>18, AnswerWatch DEF OnOutputFd
<1>19. ASSUME NEW r \in Reactors, IoReturn(r) PROVE Watch'
  <2>1. /\ m_lockUpcall = r /\ \A q \in Reactors : q # r => call[q].fn = "none"
        /\ \A q \in Reactors : call'[q].fn = "none"
      BY <1>19 DEF IoReturn, Upcalls, TypeOK, NoCall
  <2>2. /\ \A q \in Reactors : events'[q] \subseteq events[q]
        /\ "WRITE" \notin events'[r]
      BY <1>19, ConsumedType DEF IoReturn
  <2>3. CASE ~m_canUpcall \/ fini
      BY <1>19, <2>3 DEF IoReturn, Finished, Watch
  <2>4. CASE m_canUpcall /\ ~fini /\ call[r].fn = "OnSend"
             /\ m_onWr /\ ~m_pendingWr /\ ~m_requestOnSend
    <3>1. \A q \in Reactors : "WRITE" \notin events'[q]
        BY <2>2, <2>4 DEF Watch, Upcalls
    <3> QED BY <1>19, <2>4, <3>1 DEF IoReturn, RemoveHandler, Watch
  <2>5. CASE /\ m_canUpcall /\ ~fini
             /\ ~(call[r].fn = "OnSend" /\ m_onWr /\ ~m_pendingWr /\ ~m_requestOnSend)
    <3>1. UNCHANGED <<fini, m_onWr, mask, reactor, m_pendingWr, m_requestOnSend, m_canUpcall>>
        BY <1>19, <2>5 DEF IoReturn
    <3>2. m_onWr => m_pendingWr \/ m_requestOnSend
        BY <2>1, <2>5 DEF Watch
    <3> QED BY <2>2, <3>1, <3>2 DEF Watch
  <2> QED BY <2>3, <2>4, <2>5 DEF TypeOK
<1> QED
    BY <1>1, <1>2, <1>3, <1>4, <1>5, <1>6, <1>7, <1>8, <1>9, <1>10, <1>11, <1>12, <1>13, <1>14,
       <1>15, <1>16, <1>17, <1>18, <1>19
    DEF Next, Io
-----------------------------------------------------------------------------
(***************************************************************************)
(* Packets.                                                                *)
(***************************************************************************)
Sends == Pool /\ Completions /\ CompletionsMatch /\ Known /\ WireExact

\* The positions of p among the bytes w.
At(w, p) == {i \in DOMAIN w : w[i] = p}

\* A burst of n bytes of p is n more bytes of p, and no more of any other packet.
LEMMA BurstBytes ==
  ASSUME NEW w \in Seq(Packets), NEW p \in Packets, NEW n \in Nat, NEW q
  PROVE  Cardinality(At(w \o [i \in 1..n |-> p], q))
           = Cardinality(At(w, q)) + IF q = p THEN n ELSE 0
<1> DEFINE v == w \o [i \in 1..n |-> p]
           l == Len(w)
<1>1. /\ v \in Seq(Packets) /\ Len(v) = l + n
      /\ \A i \in 1..(l + n) : v[i] = IF i <= l THEN w[i] ELSE p
    BY BurstType
<1>2. DOMAIN w = 1..l /\ DOMAIN v = 1..(l + n) /\ l \in Nat
    BY <1>1, LenProperties
<1> HIDE DEF v, l
<1>3. IsFiniteSet(At(w, q)) /\ Cardinality(At(w, q)) \in Nat
  <2>1. IsFiniteSet(1..l) /\ At(w, q) \subseteq 1..l
      BY <1>2, FS_Interval DEF At
  <2>2. IsFiniteSet(At(w, q))
      BY <2>1, FS_Subset
  <2> QED BY <2>2, FS_CardinalityType
<1>4. CASE q # p
  <2>1. At(v, q) = At(w, q)
      BY <1>1, <1>2, <1>4 DEF At
  <2> QED BY <1>3, <1>4, <2>1 DEF v
<1>5. CASE q = p
  <2>1. At(v, q) = At(w, q) \cup ((l + 1)..(l + n))
      BY <1>1, <1>2, <1>5 DEF At
  <2>2. At(w, q) \cap ((l + 1)..(l + n)) = {}
      BY <1>2 DEF At
  <2>3. IsFiniteSet((l + 1)..(l + n)) /\ Cardinality((l + 1)..(l + n)) = n
      BY <1>2, FS_Interval
  <2>4. Cardinality(At(v, q)) = Cardinality(At(w, q)) + n - Cardinality({})
      BY <1>3, <2>1, <2>2, <2>3, FS_Union
  <2> QED BY <1>3, <1>5, <2>4, FS_EmptySet DEF v
<1> QED BY <1>4, <1>5

\* Steps that send nothing and begin no upcall for a packet.
LEMMA KeepsSends ==
  ASSUME TypeOK, Sends,
         UNCHANGED <<accepted, m_pendingWr, m_sendPool, m_actionId, m_sendingFd,
                     completed, wire, fdsSent>>,
         m_canUpcall' => m_canUpcall,
         \A r \in Reactors : call'[r] = call[r] \/ (call'[r].pkt = 0 /\ call'[r].actionId = 0)
  PROVE  Sends'
<1>1. Pool'
    BY DEF Sends, Pool, Passed
<1>2. Completions'
  <2>1. \A r \in Reactors : call'[r].pkt <= Len(accepted)
    <3>1. Len(accepted) \in Nat
        BY LenProperties DEF TypeOK
    <3> QED BY <3>1 DEF Sends, Completions
  <2> QED BY <2>1 DEF Sends, Completions
<1>3. CompletionsMatch'
    BY DEF Sends, CompletionsMatch, Passed
<1>4. Known' /\ WireExact'
    BY DEF Sends, Known, WireExact, Bytes, Left, Passed
<1> QED BY <1>1, <1>2, <1>3, <1>4 DEF Sends

\* A history only grows.
LEMMA Grows ==
  ASSUME NEW S, NEW s \in Seq(S), NEW x \in S
  PROVE  /\ Append(s, x) \in Seq(S) /\ Len(Append(s, x)) = Len(s) + 1
         /\ Len(s) \in Nat /\ DOMAIN s = 1..Len(s)
         /\ DOMAIN Append(s, x) = 1..(Len(s) + 1)
         /\ \A i \in 1..Len(s) : Append(s, x)[i] = s[i]
         /\ Append(s, x)[Len(s) + 1] = x
    BY AppendProperties, LenProperties

LEMMA Elements ==
  ASSUME NEW S, NEW s \in Seq(S)
  PROVE  \A i \in DOMAIN s : s[i] \in S
    BY LenProperties

LEMMA AcceptedType ==
  ASSUME TypeOK, NEW p \in 1..Len(accepted)
  PROVE  accepted[p] \in [fd : BOOLEAN, size : Sizes] /\ accepted[p].size \in Nat
<1>1. p \in DOMAIN accepted
    BY LenProperties DEF TypeOK
<1>2. accepted[p] \in [fd : BOOLEAN, size : Sizes]
    BY <1>1, Elements DEF TypeOK
<1> QED BY <1>2, SizesAssumption

\* SendData and SendFd.
LEMMA QueueSends ==
  ASSUME TypeOK, Sends, NEW fd \in BOOLEAN, NEW size \in Sizes, Queue(fd, size),
         UNCHANGED <<wire, fdsSent, completed, call, m_canUpcall>>
  PROVE  Sends'
<1>0. PICK n : n = Len(accepted)
    OBVIOUS
<1>1. /\ n \in Nat /\ Len(accepted') = n + 1
      /\ \A i \in 1..n : accepted'[i] = accepted[i]
      /\ accepted'[n + 1] = [fd |-> fd, size |-> size]
    BY <1>0, Grows DEF Queue, TypeOK
<1>2. n < MaxPackets /\ size \in Nat \ {0} /\ n <= MaxPackets
    BY <1>0, SizesAssumption DEF Queue, Sends, Pool
<1>3. m_sendPool = <<>> /\ m_actionId = 0 /\ m_sendingFd = 0 /\ Len(completed) = n
    BY <1>0 DEF Queue, Sends, Pool, Completions
<1>4. m_sendPool' = <<[pkt |-> n + 1, left |-> size]>>
    BY <1>1, <1>3 DEF Queue
<1>5. /\ m_pendingWr' /\ m_actionId' = IF fd THEN 0 ELSE n + 1
      /\ m_sendingFd' = IF fd THEN n + 1 ELSE 0
    BY <1>1, <1>3 DEF Queue
<1>6. DOMAIN completed = 1..n
    BY <1>3, LenProperties DEF TypeOK
<1>7. \A i \in DOMAIN wire : wire[i] <= n
    BY <1>0 DEF Sends, Known
<1>8. \A i \in DOMAIN fdsSent : fdsSent[i] <= n
    BY <1>0 DEF Sends, Known
<1>9. \A i \in DOMAIN fdsSent : fdsSent[i] \in 1..n
  <2>1. \A i \in DOMAIN fdsSent : fdsSent[i] \in Packets
      BY Elements DEF TypeOK
  <2> QED BY <1>1, <1>8, <2>1 DEF Packets
<1>10. ~Passed(n + 1)
    BY <1>1, <1>8 DEF Passed
<1>11. \A p : Passed(p)' <=> Passed(p)
    BY DEF Passed
<1>12. Pool'
  <2>1. Len(m_sendPool') = 1 /\ m_sendPool'[1] = [pkt |-> n + 1, left |-> size]
      BY <1>4
  <2>2. ~Passed(n + 1)'
      BY <1>10, <1>11
  <2>3. size \in 1..size /\ n + 1 <= MaxPackets /\ n + 1 > 0
      BY <1>1, <1>2, SizesAssumption
  <2>4. /\ accepted'[Len(accepted')].fd = fd /\ accepted'[Len(accepted')].size = size
        /\ m_sendPool'[1].pkt = n + 1 /\ m_sendPool'[1].left = size
      BY <1>1, <2>1
  <2> QED BY <1>1, <1>5, <2>1, <2>2, <2>3, <2>4 DEF Pool
<1>13. Completions'
  <2>1. \A r \in Reactors : call[r].pkt \in Nat /\ call[r].pkt <= n
      BY <1>0 DEF Sends, Completions, TypeOK, Calls
  <2> QED BY <1>1, <1>3, <1>5, <2>1 DEF Completions
<1>14. CompletionsMatch'
  <2>1. \A r \in Reactors : call[r].pkt = 0 \/ call[r].pkt \in 1..n
      BY <1>0, <1>1 DEF Sends, Completions, TypeOK, Calls
  <2> QED BY <1>1, <1>6, <1>11, <2>1 DEF Sends, CompletionsMatch
<1>15. Known'
  <2>1. \A i \in DOMAIN wire : wire[i] <= n + 1
    <3>1. \A i \in DOMAIN wire : wire[i] \in Packets
        BY Elements DEF TypeOK
    <3> QED BY <1>1, <1>7, <3>1 DEF Packets
  <2> QED BY <1>1, <1>9, <2>1 DEF Sends, Known
<1>16. WireExact'
  <2>1. \A p : Bytes(p)' = Bytes(p)
      BY DEF Bytes
  <2> m_sendPool' # <<>> /\ Head(m_sendPool') = [pkt |-> n + 1, left |-> size]
      BY <1>4
  <2>2. \A p \in 1..n : Left(p) = 0 /\ Left(p)' = 0
      BY <1>1, <1>3 DEF Left
  <2>3. Left(n + 1)' = size
      BY DEF Left
  <2>4. Bytes(n + 1) = 0
    <3>1. {i \in DOMAIN wire : wire[i] = n + 1} = {}
        BY <1>1, <1>7
    <3> QED BY <3>1, FS_EmptySet DEF Bytes
  <2>5. ASSUME NEW p \in 1..Len(accepted')
        PROVE  Bytes(p)' = (accepted'[p].size - Left(p)')
                           + (IF Passed(p)' THEN accepted'[p].size ELSE 0)
    <3>1. CASE p \in 1..n
        BY <1>0, <1>1, <1>11, <2>1, <2>2, <3>1 DEF Sends, WireExact
    <3>2. CASE p = n + 1
      <4>1. accepted'[p].size = size /\ ~Passed(p)' /\ Bytes(p)' = 0 /\ Left(p)' = size
          BY <1>1, <1>10, <1>11, <2>1, <2>3, <2>4, <3>2
      <4> QED BY <1>2, <4>1
    <3> QED BY <1>1, <2>5, <3>1, <3>2
  <2> QED BY <2>5 DEF Sends, WireExact
<1> QED BY <1>12, <1>13, <1>14, <1>15, <1>16 DEF Sends

\* What an event that finds a packet in the pool knows of it.
LEMMA Sending ==
  ASSUME TypeOK, Sends, m_sendPool # <<>>
  PROVE  LET n == Len(accepted)
         IN  /\ m_pendingWr /\ n \in Packets
             /\ Len(completed) = n - 1
             /\ Head(m_sendPool).pkt = n
             /\ accepted[n].size \in Nat /\ Head(m_sendPool).left \in 1..accepted[n].size
             /\ Tail(m_sendPool) = <<>>
             /\ m_actionId = IF accepted[n].fd THEN 0 ELSE n
             /\ \A p : Left(p) = IF p = n THEN Head(m_sendPool).left ELSE 0
<1> DEFINE n == Len(accepted)
<1>1. m_pendingWr
    BY DEF Sends, Pool
<1>2. n \in Nat /\ n \in Packets
    BY <1>1, LenProperties, SizesAssumption DEF Sends, Pool, TypeOK, Packets
<1>3. Head(m_sendPool) = m_sendPool[1]
    BY HeadType
<1>4. accepted[n].size \in Nat
  <2>1. n \in DOMAIN accepted
      BY <1>2, LenProperties DEF TypeOK, Packets
  <2>2. accepted[n] \in [fd : BOOLEAN, size : Sizes]
      BY <2>1, Elements DEF TypeOK
  <2> QED BY <2>2, SizesAssumption
<1>5. Tail(m_sendPool) = <<>>
  <2>1. Len(m_sendPool) = 1
      BY <1>1 DEF Sends, Pool
  <2>2. Len(Tail(m_sendPool)) = 0 /\ Tail(m_sendPool) \in Seq([pkt : Packets, left : Nat])
      BY <2>1, HeadTailProperties DEF TypeOK
  <2> QED BY <2>2, EmptySeq
<1> QED BY <1>1, <1>2, <1>3, <1>4, <1>5 DEF Sends, Pool, Completions, Left

\* n bytes of the packet in the pool go out: order and count.
LEMMA BurstSends ==
  ASSUME TypeOK, Sends, m_sendPool # <<>>, NEW k \in Nat,
         wire' = wire \o [i \in 1..k |-> Len(accepted)]
  PROVE  /\ \A i \in DOMAIN wire' : wire'[i] <= Len(accepted)
         /\ \A i, j \in DOMAIN wire' : i <= j => wire'[i] <= wire'[j]
         /\ \A p : Bytes(p)' = Bytes(p) + IF p = Len(accepted) THEN k ELSE 0
<1> DEFINE n == Len(accepted)
<1>1. n \in Packets /\ wire \in Seq(Packets) /\ n \in Nat
    BY Sending DEF TypeOK, Packets
<1>2. /\ \A i \in DOMAIN wire : wire[i] <= n
      /\ \A i, j \in DOMAIN wire : i <= j => wire[i] <= wire[j]
    BY DEF Sends, Known, WireExact
<1>3. wire' = wire \o [i \in 1..k |-> n]
    OBVIOUS
<1> HIDE DEF n
<1>4. /\ wire' \in Seq(Packets) /\ Len(wire') = Len(wire) + k
      /\ \A i \in 1..(Len(wire) + k) : wire'[i] = IF i <= Len(wire) THEN wire[i] ELSE n
    BY <1>1, <1>3, BurstType
<1>5. DOMAIN wire = 1..Len(wire) /\ DOMAIN wire' = 1..(Len(wire) + k) /\ Len(wire) \in Nat
    BY <1>1, <1>4, LenProperties
<1>6. \A i \in DOMAIN wire' : wire'[i] <= n
    BY <1>1, <1>2, <1>4, <1>5
<1>7. ASSUME NEW i \in DOMAIN wire', NEW j \in DOMAIN wire', i <= j PROVE wire'[i] <= wire'[j]
  <2>1. CASE j <= Len(wire)
      BY <1>2, <1>4, <1>5, <1>7, <2>1
  <2>2. CASE ~(j <= Len(wire))
      BY <1>4, <1>5, <1>6, <1>7, <2>2
  <2> QED BY <2>1, <2>2
<1>8. ASSUME NEW p PROVE Bytes(p)' = Bytes(p) + IF p = n THEN k ELSE 0
  <2>1. Bytes(p) = Cardinality(At(wire, p)) /\ Bytes(p)' = Cardinality(At(wire', p))
      BY DEF Bytes, At
  <2> QED BY <1>1, <1>3, <2>1, BurstBytes
<1> QED BY <1>6, <1>7, <1>8 DEF n

\* OnOutput without a failure calls OnSend for the packet that is complete.
LEMMA AnswerEffect ==
  ASSUME TypeOK, Upcalls, NEW r \in Reactors, Enters(r, "WRITE"), ~fini,
         NEW pkt, Answer(r, pkt)
  PROVE  /\ m_canUpcall /\ m_canUpcall'
         /\ completed' = IF pkt # 0 THEN Append(completed, pkt) ELSE completed
         /\ \A q \in Reactors :
              \/ call'[q] = call[q]
              \/ call'[q] = [fn |-> "OnSend", actionId |-> IF pkt # 0 THEN m_actionId ELSE 0,
                             pkt |-> pkt]
<1>1. m_canUpcall /\ \A q \in Reactors : call[q] = NoCall
    BY Entering
<1>2. CASE pkt # 0 \/ m_requestOnSend
  <2> DEFINE id == IF pkt # 0 THEN m_actionId ELSE 0
  <2>1. Begins(r, "OnSend", id, pkt)
      BY <1>2 DEF Answer
  <2> HIDE DEF id
  <2>2. /\ call'[r] = [fn |-> "OnSend", actionId |-> id, pkt |-> pkt]
        /\ \A q \in Reactors \ {r} : call'[q] = NoCall
        /\ m_canUpcall'
      BY <2>1, BeginsEffect
  <2>3. completed' = IF pkt # 0 THEN Append(completed, pkt) ELSE completed
      BY <2>1 DEF Begins
  <2> QED BY <1>1, <2>2, <2>3 DEF id
<1>3. CASE ~(pkt # 0 \/ m_requestOnSend)
    BY <1>1, <1>3 DEF Answer, BeginsNot, locks
<1> QED BY <1>2, <1>3

\* send(): the last byte completes the packet.
LEMMA OutputSends ==
  ASSUME TypeOK, Upcalls, Sends, NEW r \in Reactors, NEW k \in Nat \ {0}, OnOutputSend(r, k)
  PROVE  Sends'
<1>0. PICK n, left, fd, size :
        n = Len(accepted) /\ left = Head(m_sendPool).left
        /\ fd = accepted[n].fd /\ size = accepted[n].size
    OBVIOUS
<1>1. /\ m_pendingWr /\ n \in Packets /\ Len(completed) = n - 1
      /\ Head(m_sendPool).pkt = n /\ Tail(m_sendPool) = <<>>
      /\ size \in Nat /\ left \in 1..size
      /\ m_actionId = IF fd THEN 0 ELSE n
      /\ \A p : Left(p) = IF p = n THEN left ELSE 0
    BY <1>0, Sending DEF OnOutputSend
<1>2. /\ k <= left /\ m_sendingFd = 0 /\ ~fini /\ Enters(r, "WRITE")
      /\ wire' = wire \o [i \in 1..k |-> n]
      /\ UNCHANGED <<accepted, fdsSent, m_sendingFd>>
      /\ m_pendingWr' = (m_pendingWr /\ k # left)
      /\ m_actionId' = IF k = left THEN 0 ELSE m_actionId
      /\ Answer(r, IF k = left THEN n ELSE 0)
    BY <1>0, <1>1 DEF OnOutputSend
<1>3. m_sendPool' = IF k = left THEN <<>> ELSE <<[pkt |-> n, left |-> left - k]>>
  <2>1. Head(m_sendPool) \in [pkt : Packets, left : Nat]
      BY HeadType DEF OnOutputSend
  <2>2. [Head(m_sendPool) EXCEPT !.left = @ - k] = [pkt |-> n, left |-> left - k]
      BY <1>0, <1>1, <2>1
  <2>3. \A x : <<x>> \o <<>> = <<x>>
      BY ConcatEmptySeq, EmptySeq
  <2> QED BY <1>0, <1>1, <2>2, <2>3 DEF OnOutputSend
<1>4. n \in Nat \ {0} /\ n <= MaxPackets
    BY <1>1, SizesAssumption DEF Packets
<1>5. \A p : Passed(p)' <=> Passed(p)
    BY <1>2 DEF Passed
<1>6. fd /\ m_canUpcall => Passed(n)
    BY <1>0, <1>1, <1>2 DEF Sends, Pool
<1>7. /\ m_canUpcall /\ m_canUpcall'
      /\ completed' = IF k = left THEN Append(completed, n) ELSE completed
      /\ \A q \in Reactors :
           \/ call'[q] = call[q]
           \/ call'[q] = [fn |-> "OnSend", actionId |-> IF k = left THEN m_actionId ELSE 0,
                          pkt |-> IF k = left THEN n ELSE 0]
    BY <1>2, <1>4, AnswerEffect
<1>8. /\ m_sendPool' # <<>> <=> k # left
      /\ k # left => /\ Len(m_sendPool') = 1 /\ m_sendPool'[1].pkt = n
                     /\ m_sendPool'[1].left = left - k
                     /\ Head(m_sendPool').pkt = n /\ Head(m_sendPool').left = left - k
    BY <1>3
<1>9. /\ Len(completed') = IF k = left THEN n ELSE n - 1
      /\ \A i \in DOMAIN completed' :
           (i \in DOMAIN completed /\ completed'[i] = completed[i]) \/ (i = n /\ completed'[i] = n)
    BY <1>1, <1>4, <1>7, Grows DEF TypeOK
<1>10. Pool'
  <2>1. k # left => left - k \in 1..size
      BY <1>1, <1>2
  <2>2. Len(accepted') = n /\ n <= MaxPackets /\ n > 0 /\ accepted'[n].fd = fd
        /\ accepted'[n].size = size /\ m_sendingFd' = 0
      BY <1>0, <1>2, <1>4
  <2>3. CASE k = left
    <3>1. ~m_pendingWr' /\ m_sendPool' = <<>> /\ m_actionId' = 0
        BY <1>2, <1>3, <2>3
    <3> QED BY <2>2, <3>1 DEF Pool
  <2>4. CASE k # left
    <3>1. m_pendingWr' /\ m_actionId' = IF fd THEN 0 ELSE n
        BY <1>1, <1>2, <2>4
    <3>2. fd => Passed(n)'
        BY <1>5, <1>6, <1>7
    <3> QED BY <1>8, <2>1, <2>2, <2>4, <3>1, <3>2 DEF Pool
  <2> QED BY <2>3, <2>4
<1>11. Completions'
  <2>1. \A q \in Reactors : call[q].pkt <= n
      BY <1>0 DEF Sends, Completions
  <2>2. \A q \in Reactors : call'[q].pkt <= n
      BY <1>4, <1>7, <2>1
  <2> QED BY <1>0, <1>1, <1>2, <1>9, <2>2 DEF Completions
<1>12. CompletionsMatch'
  <2>1. ASSUME NEW i \in DOMAIN completed'
        PROVE  completed'[i] = i /\ (accepted'[i].fd => Passed(i)')
    <3>1. CASE i \in DOMAIN completed /\ completed'[i] = completed[i]
        BY <1>2, <1>5, <3>1 DEF Sends, CompletionsMatch
    <3>2. CASE i = n /\ completed'[i] = n
        BY <1>0, <1>2, <1>5, <1>6, <1>7, <3>2
    <3> QED BY <1>9, <3>1, <3>2
  <2>2. ASSUME NEW q \in Reactors, call'[q].fn = "OnSend"
        PROVE  call'[q].actionId = IF call'[q].pkt = 0 \/ accepted'[call'[q].pkt].fd
                                     THEN 0 ELSE call'[q].pkt
    <3>1. CASE call'[q] = call[q]
        BY <1>2, <2>2, <3>1 DEF Sends, CompletionsMatch
    <3>2. CASE k = left /\ call'[q] = [fn |-> "OnSend", actionId |-> m_actionId, pkt |-> n]
        BY <1>0, <1>1, <1>2, <1>4, <3>2
    <3>3. CASE call'[q] = [fn |-> "OnSend", actionId |-> 0, pkt |-> 0]
        BY <3>3
    <3> QED BY <1>7, <3>1, <3>2, <3>3
  <2> QED BY <2>1, <2>2 DEF CompletionsMatch
<1>13. /\ \A i \in DOMAIN wire' : wire'[i] <= n
       /\ \A i, j \in DOMAIN wire' : i <= j => wire'[i] <= wire'[j]
       /\ \A p : Bytes(p)' = Bytes(p) + IF p = n THEN k ELSE 0
    BY <1>0, <1>2, BurstSends DEF OnOutputSend
<1>14. Known'
    BY <1>0, <1>2, <1>13 DEF Sends, Known
<1>15. WireExact'
  <2>1. \A p : Left(p)' = IF p = n THEN left - k ELSE 0
      BY <1>1, <1>2, <1>8 DEF Left
  <2>2. ASSUME NEW p \in 1..Len(accepted)
        PROVE  Bytes(p)' = (accepted[p].size - Left(p)')
                           + (IF Passed(p)' THEN accepted[p].size ELSE 0)
    <3>1. Bytes(p) = (accepted[p].size - Left(p)) + (IF Passed(p) THEN accepted[p].size ELSE 0)
        BY DEF Sends, WireExact
    <3>2. accepted[p].size \in Nat
        BY AcceptedType
    <3>3. CASE p = n
      <4>1. PICK extra : extra = (IF Passed(p) THEN size ELSE 0) /\ extra \in Nat
          BY <1>1
      <4>2. Bytes(p) = (size - left) + extra /\ Bytes(p)' = Bytes(p) + k /\ Left(p)' = left - k
          BY <1>0, <1>1, <1>13, <2>1, <3>1, <3>3, <4>1
      <4>3. Bytes(p)' = (size - (left - k)) + extra
          BY <1>1, <4>1, <4>2
      <4> QED BY <1>0, <1>5, <3>3, <4>1, <4>2, <4>3
    <3>4. CASE p # n
        BY <1>1, <1>5, <1>13, <2>1, <3>1, <3>2, <3>4
    <3> QED BY <3>3, <3>4
  <2> QED BY <1>2, <1>13, <2>2 DEF Sends, WireExact
<1> QED BY <1>10, <1>11, <1>12, <1>14, <1>15 DEF Sends

\* sendmsg(): the packet goes with its descriptor and stays in the pool.
LEMMA FdSends ==
  ASSUME TypeOK, Upcalls, Sends, NEW r \in Reactors, OnOutputFd(r)
  PROVE  Sends'
<1>0. PICK n, size : n = Len(accepted) /\ size = accepted[n].size
    OBVIOUS
<1>1. /\ m_pendingWr /\ n \in Packets /\ Len(completed) = n - 1
      /\ Head(m_sendPool).pkt = n /\ size \in Nat
    BY <1>0, Sending DEF OnOutputFd
<1>2. /\ m_sendingFd = n /\ accepted[n].fd /\ ~Passed(n)
      /\ Head(m_sendPool).left = size
    BY <1>0, HeadType DEF OnOutputFd, Sends, Pool
<1>3. /\ ~fini /\ Enters(r, "WRITE") /\ Answer(r, 0)
      /\ wire' = wire \o [i \in 1..size |-> n]
      /\ fdsSent' = Append(fdsSent, n) /\ m_sendingFd' = 0
      /\ UNCHANGED <<accepted, m_pendingWr, m_sendPool, m_actionId>>
    BY <1>1, <1>2 DEF OnOutputFd
<1>4. n \in Nat \ {0} /\ n <= MaxPackets
    BY <1>1, SizesAssumption DEF Packets
<1>5. /\ m_canUpcall /\ m_canUpcall' /\ completed' = completed
      /\ \A q \in Reactors :
           \/ call'[q] = call[q]
           \/ call'[q] = [fn |-> "OnSend", actionId |-> 0, pkt |-> 0]
    BY <1>3, AnswerEffect
<1> DEFINE l == Len(fdsSent)
<1>6. /\ DOMAIN fdsSent = 1..l /\ DOMAIN fdsSent' = 1..(l + 1) /\ l \in Nat
      /\ \A i \in 1..l : fdsSent'[i] = fdsSent[i]
      /\ fdsSent'[l + 1] = n
    BY <1>1, <1>3, Grows DEF TypeOK
<1> HIDE DEF l
<1>7. \A p : Passed(p)' <=> Passed(p) \/ p = n
    BY <1>6 DEF Passed
<1>8. Pool'
    BY <1>0, <1>3, <1>4, <1>7 DEF Sends, Pool
<1>9. Completions'
  <2>1. \A q \in Reactors : call'[q].pkt <= n
      BY <1>0, <1>4, <1>5 DEF Sends, Completions
  <2> QED BY <1>0, <1>3, <1>5, <2>1 DEF Sends, Completions
<1>10. CompletionsMatch'
    BY <1>3, <1>5, <1>7 DEF Sends, CompletionsMatch
<1>11. /\ \A i \in DOMAIN wire' : wire'[i] <= n
       /\ \A i, j \in DOMAIN wire' : i <= j => wire'[i] <= wire'[j]
       /\ \A p : Bytes(p)' = Bytes(p) + IF p = n THEN size ELSE 0
    BY <1>0, <1>1, <1>3, BurstSends DEF OnOutputFd
<1>12. Known'
  <2>1. ASSUME NEW i \in DOMAIN fdsSent'
        PROVE  fdsSent'[i] <= n /\ accepted[fdsSent'[i]].fd
    <3>1. CASE i \in 1..l
        BY <1>0, <1>6, <3>1 DEF Sends, Known
    <3>2. CASE i = l + 1
        BY <1>2, <1>4, <1>6, <3>2
    <3> QED BY <1>6, <3>1, <3>2
  <2> QED BY <1>0, <1>3, <1>11, <2>1 DEF Known
<1>13. WireExact'
  <2>1. \A p : Left(p)' = Left(p)
      BY <1>3 DEF Left
  <2>2. ASSUME NEW p \in 1..Len(accepted)
        PROVE  Bytes(p)' = (accepted[p].size - Left(p)')
                           + (IF Passed(p)' THEN accepted[p].size ELSE 0)
    <3>1. Bytes(p) = (accepted[p].size - Left(p)) + (IF Passed(p) THEN accepted[p].size ELSE 0)
        BY DEF Sends, WireExact
    <3>2. accepted[p].size \in Nat
        BY AcceptedType
    <3>3. \A q : Left(q) = IF q = n THEN size ELSE 0
        BY <1>0, <1>2, Sending DEF OnOutputFd
    <3>4. CASE p = n
        BY <1>0, <1>2, <1>7, <1>11, <2>1, <3>1, <3>2, <3>3, <3>4
    <3>5. CASE p # n
        BY <1>7, <1>11, <2>1, <3>1, <3>2, <3>3, <3>5
    <3> QED BY <3>4, <3>5
  <2>3. \A i, j \in DOMAIN fdsSent' : fdsSent'[i] = fdsSent'[j] => i = j
      BY <1>2, <1>6 DEF Sends, WireExact, Passed
  <2> QED BY <1>3, <1>11, <2>2, <2>3 DEF WireExact
<1> QED BY <1>8, <1>9, <1>10, <1>12, <1>13 DEF Sends

\* send() or sendmsg() fails.
LEMMA CloseSends ==
  ASSUME TypeOK, Upcalls, Sends, NEW r \in Reactors, OnOutputClose(r)
  PROVE  Sends'
<1>1. /\ Enters(r, "WRITE") /\ ~fini /\ Begins(r, "OnClose", 0, 0) /\ m_sendingFd' = 0
      /\ UNCHANGED <<m_pendingWr, m_actionId, m_sendPool, accepted, wire, fdsSent>>
    BY DEF OnOutputClose
<1>2. /\ call'[r] = [fn |-> "OnClose", actionId |-> 0, pkt |-> 0]
      /\ \A q \in Reactors \ {r} : call'[q] = NoCall
      /\ ~m_canUpcall'
    BY <1>1, BeginsEffect
<1>3. completed' = completed /\ \A q \in Reactors : call[q] = NoCall
    BY <1>1, Entering DEF Begins
<1>4. Pool'
    BY <1>1, <1>2 DEF Sends, Pool, Passed
<1>5. \A q \in Reactors : call'[q].pkt = 0 /\ call'[q].fn # "OnSend"
    BY <1>2 DEF NoCall
<1>6. Completions'
  <2>1. Len(accepted) \in Nat
      BY LenProperties DEF TypeOK
  <2> QED BY <1>1, <1>3, <1>5, <2>1 DEF Sends, Completions
<1>7. CompletionsMatch'
    BY <1>1, <1>3, <1>5 DEF Sends, CompletionsMatch, Passed
<1>8. Known' /\ WireExact'
    BY <1>1 DEF Sends, Known, WireExact, Bytes, Left, Passed
<1> QED BY <1>4, <1>6, <1>7, <1>8 DEF Sends

\* OnRecv and OnClose of an event that sends nothing.
LEMMA BeginsSends ==
  ASSUME TypeOK, Upcalls, Sends, NEW r \in Reactors, NEW ev, Enters(r, ev), ~fini,
         NEW fn, Begins(r, fn, 0, 0), UNCHANGED <<sends, accepted, wire, fdsSent>>
  PROVE  Sends'
<1>1. /\ call'[r] = [fn |-> fn, actionId |-> 0, pkt |-> 0]
      /\ \A q \in Reactors \ {r} : call'[q] = NoCall
      /\ completed' = completed
    BY BeginsEffect DEF Begins
<1>2. \A q \in Reactors : call'[q].pkt = 0 /\ call'[q].actionId = 0
    BY <1>1 DEF NoCall
<1> QED BY <1>1, <1>2, Entering, KeepsSends DEF sends

LEMMA SendsStep ==
  ASSUME TypeOK, Upcalls, Sends, [Next]_vars
  PROVE  Sends'
<1> USE DEF sends, locks, io, out
<1>1. ASSUME UNCHANGED <<sends, m_canUpcall, call, out>> PROVE Sends'
    BY <1>1, KeepsSends
<1>2. ASSUME NEW size \in Sizes, SendData(size) \/ SendFd(size) PROVE Sends'
    BY <1>2, QueueSends DEF SendData, SendFd
<1>3. CASE RequestOnSend
    BY <1>3, KeepsSends DEF RequestOnSend
<1>4. CASE SuspendRecv \/ ResumeRecv \/ StartHeartbeat \/ StopHeartbeat \/ Fini
           \/ TimerFires \/ TimerThread \/ PeerHangsUp \/ UNCHANGED vars
    BY <1>1, <1>4
    DEF SuspendRecv, ResumeRecv, StartHeartbeat, StopHeartbeat, Fini, TimerFires,
        TimerThread, OnTimer, TimerReturn, PeerHangsUp, vars
<1>5. ASSUME NEW r \in Reactors, NEW n \in 1..PoolSize, Consume(r, n) PROVE Sends'
    BY <1>1, <1>5 DEF Consume
<1>6. ASSUME NEW r \in Reactors, NEW ev \in SUBSET {"ERROR", "WRITE", "READ"}, IoWait(r, ev)
      PROVE  Sends'
    BY <1>1, <1>6 DEF IoWait
<1>7. ASSUME NEW r \in Reactors, IoCollect(r) \/ IoDropped(r) \/ OnInputNothing(r)
      PROVE  Sends'
    BY <1>1, <1>7 DEF IoCollect, IoDropped, OnInputNothing, BeginsNot
<1>8. ASSUME NEW r \in Reactors, OnInputFd(r) \/ OnInputClose(r) \/ OnError(r) PROVE Sends'
    BY <1>8, BeginsSends DEF OnInputFd, OnInputClose, OnError
<1>9. ASSUME NEW r \in Reactors, NEW n \in 1..PoolSize, OnInputData(r, n) PROVE Sends'
    BY <1>9, BeginsSends DEF OnInputData
<1>10. ASSUME NEW r \in Reactors, OnOutputRequested(r) PROVE Sends'
  <2>1. m_pendingWr' = m_pendingWr
      BY <1>10 DEF OnOutputRequested, Sends, Pool, TypeOK
  <2>2. /\ m_canUpcall /\ m_canUpcall' /\ completed' = completed
        /\ \A q \in Reactors :
             \/ call'[q] = call[q]
             \/ call'[q] = [fn |-> "OnSend", actionId |-> 0, pkt |-> 0]
      BY <1>10, AnswerEffect DEF OnOutputRequested
  <2> QED BY <1>10, <2>1, <2>2, KeepsSends DEF OnOutputRequested
<1>11. ASSUME NEW r \in Reactors, NEW size \in Sizes, NEW n \in 1..size, OnOutputSend(r, n)
       PROVE  Sends'
  <2>1. n \in Nat \ {0}
      BY SizesAssumption
  <2> QED BY <1>11, <2>1, OutputSends
<1>12. ASSUME NEW r \in Reactors, OnOutputFd(r) PROVE Sends'
    BY <1>12, FdSends
<1>13. ASSUME NEW r \in Reactors, OnOutputClose(r) PROVE Sends'
    BY <1>13, CloseSends
<1>14. ASSUME NEW r \in Reactors, IoReturn(r) PROVE Sends'
  <2>1. \A q \in Reactors : call'[q] = call[q] \/ (call'[q].pkt = 0 /\ call'[q].actionId = 0)
      BY <1>14 DEF IoReturn, TypeOK, NoCall
  <2> QED BY <1>14, <2>1, KeepsSends DEF IoReturn
<1> QED
    BY <1>2, <1>3, <1>4, <1>5, <1>6, <1>7, <1>8, <1>9, <1>10, <1>11, <1>12, <1>13, <1>14
    DEF Next, Io
-----------------------------------------------------------------------------
\* The inductive invariant holds in every reachable state.
THEOREM Invariance == Spec => []IInv
<1>1. ASSUME Init PROVE Watch /\ Sends
  <2>1. Watch
      BY <1>1 DEF Init, Watch
  <2>2. /\ accepted = <<>> /\ wire = <<>> /\ fdsSent = <<>> /\ completed = <<>>
        /\ m_sendPool = <<>> /\ ~m_pendingWr /\ m_actionId = 0 /\ m_sendingFd = 0
        /\ \A r \in Reactors : call[r] = NoCall
      BY <1>1 DEF Init
  <2>3. Pool /\ Completions
      BY <2>2, SizesAssumption DEF Pool, Completions, NoCall
  <2>4. CompletionsMatch /\ Known /\ WireExact
      BY <2>2 DEF CompletionsMatch, Known, WireExact, NoCall
  <2> QED BY <2>1, <2>3, <2>4 DEF Sends
<1>2. TypeOK /\ Upcalls /\ Watch /\ Sends /\ [Next]_vars => Watch' /\ Sends'
    BY WatchStep, SendsStep DEF Sends
<1>3. TypeOK /\ Upcalls /\ Watch /\ Sends => IInv
    BY DEF IInv, Sends
<1> QED BY <1>1, <1>2, <1>3, UpcallsInvariance, PTL DEF Spec

(***************************************************************************)
(* WRITE is registered whenever a packet or a request waits, and a reactor *)
(* that delivers WRITE finds one, however late it comes.                   *)
(***************************************************************************)
THEOREM WatchCorrect == Spec => []WriteWatched
<1>1. ASSUME IInv PROVE WriteWatched
  <2> SUFFICES ASSUME ~fini, NEW r \in Reactors, Enters(r, "WRITE")
               PROVE  m_sendPool # <<>> \/ m_requestOnSend
      BY <1>1 DEF IInv, Watch, WriteWatched
  <2>1. m_canUpcall /\ \A q \in Reactors : call[q].fn # "OnSend"
      BY <1>1, Entering DEF IInv, NoCall
  <2>2. m_onWr
      BY <1>1 DEF IInv, Watch, Enters
  <2>3. m_pendingWr \/ m_requestOnSend
      BY <1>1, <2>1, <2>2 DEF IInv, Watch
  <2> QED BY <1>1, <2>3 DEF IInv, Pool
<1> QED BY <1>1, Invariance, PTL

\* The socket gets every packet whole, in order and once, and a descriptor's
\* packet a second time.
THEOREM WireCorrect == Spec => []WireExact
    BY Invariance, PTL DEF IInv

\* OnSend answers every packet once, in order, with its own actionId.
THEOREM CompletionsCorrect == Spec => []CompletionsMatch
    BY Invariance, PTL DEF IInv
=============================================================================
