-------------------------- MODULE ConnectorProofs --------------------------
(***************************************************************************)
(* Proofs about a connection attempt, for any number of reactors and any   *)
(* size of the handshake.                                                  *)
(***************************************************************************)
EXTENDS Connector, FiniteSetTheorems, TLAPS

(***************************************************************************)
(* Type correctness.                                                       *)
(***************************************************************************)
Answer == {"ok", "error", "timeout"}

LEMMA AddedType ==
  ASSUME NEW h \in Handlers, NEW bits \in SUBSET Bits,
         NEW m \in [Handlers -> SUBSET Bits],
         NEW at \in [Handlers -> Reactors \cup {None}], Added(h, bits, m, at)
  PROVE  /\ mask' \in [Handlers -> SUBSET Bits]
         /\ reactor' \in [Handlers -> Reactors \cup {None}]
BY DEF Added

LEMMA ClearedType ==
  ASSUME NEW h \in Handlers, NEW bits,
         mask \in [Handlers -> SUBSET Bits],
         reactor \in [Handlers -> Reactors \cup {None}]
  PROVE  /\ Cleared(h, bits).m \in [Handlers -> SUBSET Bits]
         /\ Cleared(h, bits).at \in [Handlers -> Reactors \cup {None}]
BY DEF Cleared

LEMMA ReturnsType ==
  ASSUME TypeOK, NEW t \in Threads, Returns(t)
  PROVE  /\ rest' \in [Threads -> {"none", "upcall", "delete", "ok", "error", "timeout"}]
         /\ events' \in [Reactors -> SUBSET (Bits \cup {"ERROR"})]
         /\ target' \in [Reactors -> Handlers \cup {None}]
         /\ batch' \subseteq Timers /\ userRef' \in BOOLEAN
<1>1. events' \in [Reactors -> SUBSET (Bits \cup {"ERROR"})]
    BY DEF TypeOK, Returns
<1>2. userRef' \in BOOLEAN
    BY DEF TypeOK, Returns
<1> QED BY <1>1, <1>2 DEF TypeOK, Returns

LEMMA ThenType ==
  ASSUME TypeOK, NEW t \in Threads,
         NEW what \in {"none", "upcall", "delete", "ok", "error", "timeout"}, Then(t, what)
  PROVE  /\ rest' \in [Threads -> {"none", "upcall", "delete", "ok", "error", "timeout"}]
         /\ events' \in [Reactors -> SUBSET (Bits \cup {"ERROR"})]
         /\ target' \in [Reactors -> Handlers \cup {None}]
         /\ batch' \subseteq Timers /\ userRef' \in BOOLEAN
BY DEF TypeOK, Then

LEMMA AnswersType ==
  ASSUME TypeOK, NEW a \in Answer, Answers(a)
  PROVE  m_observer' \in BOOLEAN /\ timers' \subseteq Timers
         /\ answers' \in Seq({"ok", "error", "timeout"})
<1>1. answers' \in Seq({"ok", "error", "timeout"})
    BY DEF TypeOK, Answers, Answer
<1>2. m_observer' \in BOOLEAN /\ timers' \subseteq Timers
    BY DEF TypeOK, Answers
<1> QED BY <1>1, <1>2

LEMMA InitType == Init => TypeOK
<1> SUFFICES ASSUME Init PROVE TypeOK
    OBVIOUS
<1>1. /\ mask \in [Handlers -> SUBSET Bits] /\ reactor \in [Handlers -> Reactors \cup {None}]
      /\ timers \subseteq Timers /\ batch \subseteq Timers
      /\ events \in [Reactors -> SUBSET (Bits \cup {"ERROR"})]
      /\ target \in [Reactors -> Handlers \cup {None}]
      /\ rest \in [Threads -> {"none", "upcall", "delete", "ok", "error", "timeout"}]
      /\ answers \in Seq({"ok", "error", "timeout"})
    BY DEF Init, Timers
<1>2. hs \in [made : BOOLEAN, m_observer : BOOLEAN, m_sockId : BOOLEAN,
             ref : BOOLEAN, toSend : 0..SendSize, toRecv : 0..RecvSize]
    BY SizesAssumption DEF Init
<1> QED BY <1>1, <1>2 DEF Init, TypeOK

LEMMA FinishesType ==
  ASSUME TypeOK, NEW t \in Threads, Finishes(t)
  PROVE  TypeOK'
<1>1. CASE OnHandshakeOk(t)
    BY <1>1, AnswersType, ThenType, ReturnsType DEF OnHandshakeOk, TypeOK, Answer, reg
<1>2. CASE OnHandshakeError(t)
  <2> rest[t] \in Answer
      BY <1>2 DEF OnHandshakeError, Answer
  <2>1. CASE m_observer /\ m_handshaker
      BY <1>2, <2>1, AnswersType, ThenType DEF OnHandshakeError, TypeOK, reg
  <2>2. CASE ~(m_observer /\ m_handshaker)
      BY <1>2, <2>2, ReturnsType DEF OnHandshakeError, TypeOK, reg
  <2> QED BY <2>1, <2>2
<1>3. CASE UpcallReturns(t)
    BY <1>3, ReturnsType DEF UpcallReturns, TypeOK, reg, conn
<1>4. CASE DeleteHandshaker(t)
  <2>1. hs' \in [made : BOOLEAN, m_observer : BOOLEAN, m_sockId : BOOLEAN,
             ref : BOOLEAN, toSend : 0..SendSize, toRecv : 0..RecvSize]
      BY <1>4 DEF DeleteHandshaker, TypeOK
  <2>2. /\ mask' \in [Handlers -> SUBSET Bits]
        /\ reactor' \in [Handlers -> Reactors \cup {None}]
      BY <1>4, ClearedType DEF DeleteHandshaker, RemoveHandler, TypeOK, reg, Handlers
  <2> QED
      BY <1>4, <2>1, <2>2, ReturnsType DEF DeleteHandshaker, TypeOK, conn
<1> QED BY <1>1, <1>2, <1>3, <1>4 DEF Finishes

LEMMA HandshakeFailsType ==
  ASSUME TypeOK, NEW t \in Threads, NEW why \in Answer, HandshakeFails(t, why),
         UNCHANGED <<conn, sock, answers>>
  PROVE  TypeOK'
BY ThenType, ClearedType DEF HandshakeFails, RemoveHandler, TypeOK, Handlers, Answer, conn

LEMMA WorkerType ==
  ASSUME TypeOK, NEW r \in Reactors, Worker(r)
  PROVE  TypeOK'
<1> r \in Threads
    BY DEF Threads
<1>1. CASE IoCollect(r)
    BY <1>1 DEF IoCollect, TypeOK, reg, conn
<1>2. CASE IoStale(r)
    BY <1>2, ReturnsType DEF IoStale, TypeOK, reg, conn
<1>3. CASE Finishes(r)
    BY <1>3, FinishesType
<1>4. CASE OnOutput(r)
    BY <1>4, AnswersType, ThenType, ClearedType
    DEF OnOutput, RemoveHandler, TypeOK, Handlers, Answer
<1>5. CASE OnOutputHandshake(r)
  <2>1. hs' \in [made : BOOLEAN, m_observer : BOOLEAN, m_sockId : BOOLEAN,
             ref : BOOLEAN, toSend : 0..SendSize, toRecv : 0..RecvSize]
      BY <1>5, SizesAssumption DEF OnOutputHandshake
  <2> QED
      BY <1>5, <2>1, ReturnsType, ClearedType, AddedType
      DEF OnOutputHandshake, TypeOK, Handlers, Bits, Timers
<1>6. CASE OnOutputFails(r)
    BY <1>6, AnswersType, ThenType, ClearedType
    DEF OnOutputFails, RemoveHandler, TypeOK, Handlers, Answer
<1>7. CASE OnError(r)
    BY <1>7, AnswersType, ThenType, ClearedType
    DEF OnError, RemoveHandler, TypeOK, Handlers, Answer
<1>8. ASSUME NEW n \in 1..RecvSize, HsInput(r, n) PROVE TypeOK'
  <2>1. hs' \in [made : BOOLEAN, m_observer : BOOLEAN, m_sockId : BOOLEAN,
             ref : BOOLEAN, toSend : 0..SendSize, toRecv : 0..RecvSize]
      BY <1>8, SizesAssumption DEF HsInput, TypeOK
  <2>2. /\ mask' \in [Handlers -> SUBSET Bits]
        /\ reactor' \in [Handlers -> Reactors \cup {None}]
      BY <1>8, ClearedType, AddedType DEF HsInput, TypeOK, reg, Handlers, Bits
  <2> QED
      BY <1>8, <2>1, <2>2, ReturnsType DEF HsInput, TypeOK, conn
<1>9. CASE HsInputNothing(r)
    BY <1>9, ReturnsType, ClearedType
    DEF HsInputNothing, RemoveHandler, TypeOK, Handlers, conn, reg
<1>10. CASE HsInputFails(r)
    BY <1>10, HandshakeFailsType DEF HsInputFails, Answer
<1>11. ASSUME NEW n \in 0..SendSize, HsOutput(r, n) PROVE TypeOK'
  <2>1. hs' \in [made : BOOLEAN, m_observer : BOOLEAN, m_sockId : BOOLEAN,
             ref : BOOLEAN, toSend : 0..SendSize, toRecv : 0..RecvSize]
    <3>1. CASE n = hs.toSend /\ hs.toRecv = 0
      <4>1. 0 \in 0..SendSize
          BY SizesAssumption
      <4>2. hs' = [hs EXCEPT !.toSend = 0, !.m_observer = FALSE, !.m_sockId = FALSE]
          BY <1>11, <3>1 DEF HsOutput
      <4> QED BY <4>1, <4>2 DEF TypeOK
    <3>2. CASE ~(n = hs.toSend /\ hs.toRecv = 0)
      <4>1. hs.toSend \in 0..SendSize /\ n <= hs.toSend /\ hs' = [hs EXCEPT !.toSend = @ - n]
          BY <1>11, <3>2 DEF HsOutput, TypeOK
      <4>2. hs.toSend - n \in 0..SendSize
          BY <4>1, SizesAssumption
      <4> QED BY <4>1, <4>2 DEF TypeOK
    <3> QED BY <3>1, <3>2
  <2>2. /\ mask' \in [Handlers -> SUBSET Bits]
        /\ reactor' \in [Handlers -> Reactors \cup {None}]
      BY <1>11, ClearedType DEF HsOutput, RemoveHandler, TypeOK, reg, Handlers
  <2> QED
      BY <1>11, <2>1, <2>2, ReturnsType, ThenType DEF HsOutput, TypeOK, conn
<1>12. CASE HsOutputFails(r)
    BY <1>12, HandshakeFailsType DEF HsOutputFails, Answer
<1>13. CASE HsError(r)
    BY <1>13, HandshakeFailsType DEF HsError, Answer
<1> QED BY <1>1, <1>2, <1>3, <1>4, <1>5, <1>6, <1>7, <1>8, <1>9, <1>10, <1>11, <1>12, <1>13
        DEF Worker

LEMMA TimerType ==
  ASSUME TypeOK, TimerThread
  PROVE  TypeOK'
<1> "timer" \in Threads
    BY DEF Threads
<1>1. ASSUME NEW due \in SUBSET Timers, TimerCollect(due) PROVE TypeOK'
    BY <1>1 DEF TimerCollect, TypeOK, reg, conn
<1>2. CASE OnTimerStart
    BY <1>2, ReturnsType, AddedType DEF OnTimerStart, TypeOK, Handlers
<1>3. ASSUME NEW opened \in BOOLEAN, OnTimerStartFails(opened) PROVE TypeOK'
    BY <1>3, AnswersType, ThenType DEF OnTimerStartFails, TypeOK, Answer, reg
<1>4. CASE OnTimerTimeout
    BY <1>4, AnswersType, ThenType, ClearedType
    DEF OnTimerTimeout, RemoveHandler, TypeOK, Handlers, Answer
<1>5. CASE OnTimerStale
    BY <1>5, ReturnsType DEF OnTimerStale, TypeOK, reg, conn
<1>6. CASE HsTimer
    BY <1>6, HandshakeFailsType DEF HsTimer, Answer
<1>7. CASE Finishes("timer")
    BY <1>7, FinishesType
<1> QED BY <1>1, <1>2, <1>3, <1>4, <1>5, <1>6, <1>7 DEF TimerThread

\* Type correctness of a connection attempt.
THEOREM TypeCorrect == Spec => []TypeOK
<1>1. TypeOK /\ [Next]_vars => TypeOK'
  <2> SUFFICES ASSUME TypeOK, [Next]_vars PROVE TypeOK'
      OBVIOUS
  <2> "user" \in Threads
      BY DEF Threads
  <2>1. CASE UNCHANGED vars
      BY <2>1 DEF vars, conn, reg, thr, TypeOK
  <2>2. ASSUME NEW r \in Reactors, Worker(r) PROVE TypeOK'
      BY <2>2, WorkerType
  <2>3. ASSUME NEW r \in Reactors, NEW h \in Handlers,
               NEW ev \in SUBSET (Bits \cup {"ERROR"}), IoWait(r, h, ev)
        PROVE  TypeOK'
      BY <2>3 DEF IoWait, TypeOK, reg, conn
  <2>4. CASE TimerThread
      BY <2>4, TimerType
  <2>5. CASE DeleteConnector
    <3>1. CASE m_observer
      <4>1. /\ mask' \in [Handlers -> SUBSET Bits]
            /\ reactor' \in [Handlers -> Reactors \cup {None}]
          BY <2>5, <3>1, ClearedType DEF DeleteConnector, RemoveHandler, TypeOK, Handlers
      <4>2. m_observer' = FALSE /\ m_handshaker' = FALSE /\ timers' \subseteq Timers
          BY <2>5, <3>1 DEF DeleteConnector, TypeOK
      <4> QED BY <4>2, <2>5, <3>1, <4>1, ReturnsType, ThenType DEF DeleteConnector, TypeOK
    <3>2. CASE ~m_observer
        BY <2>5, <3>2, ReturnsType DEF DeleteConnector, TypeOK, reg
    <3> QED BY <3>1, <3>2
  <2>6. CASE Finishes("user")
      BY <2>6, FinishesType
  <2> QED BY <2>1, <2>2, <2>3, <2>4, <2>5, <2>6 DEF Next
<1> QED BY <1>1, InitType, PTL DEF Spec
-----------------------------------------------------------------------------
(***************************************************************************)
(* Who owns the socket.  The inductive invariant follows it from the       *)
(* connector to the handshaker, the thread that reports its success, and   *)
(* the user.                                                               *)
(***************************************************************************)

\* A handler is registered somewhere iff it is registered for something.
Registered == \A h \in Handlers : mask[h] # {} <=> reactor[h] # None

\* The start timer fires once, and while it may, there is no socket.
StartOnce ==
  /\ ~("start" \in timers /\ "start" \in batch)
  /\ m_observer /\ "start" \in timers \cup batch => sock = "none"

\* The connector has the socket before there is a handshaker.
WithConnector ==
  /\ m_sockId => sock = "open" /\ ~hs.made /\ ~Delivered
  /\ ~hs.made => ~hs.m_sockId /\ ~hs.m_observer /\ InHand = {}

\* The handshaker has it until its handshake is complete.
WithHandshaker ==
  /\ hs.made => m_enableServiceExt /\ sock # "none"
  /\ hs.m_observer => hs.m_sockId
  /\ hs.m_sockId => sock = "open" /\ InHand = {} /\ ~Delivered

\* One thread carries it to the connector.
WithThread ==
  \A t \in InHand : /\ sock = "open" /\ ~Delivered /\ InHand = {t}
                    /\ hs.toSend = 0 /\ hs.toRecv = 0

\* The user has it, from a connector that has ended.
WithUser ==
  /\ m_observer => answers = <<>>
  /\ Len(answers) <= 1
  /\ Delivered => sock = "open"
  /\ m_enableServiceExt /\ Delivered => hs.toSend = 0 /\ hs.toRecv = 0

NotLeaked == sock = "open" => m_sockId \/ hs.m_sockId \/ InHand # {} \/ Delivered

OwnInv ==
  /\ Registered /\ StartOnce /\ WithConnector /\ WithHandshaker /\ WithThread
  /\ WithUser /\ NotLeaked
-----------------------------------------------------------------------------
(***************************************************************************)
(* What the building blocks of the actions do to the invariant.            *)
(***************************************************************************)
LEMMA ReturnsHand ==
  ASSUME TypeOK, NEW t \in Threads, Returns(t)
  PROVE  InHand' = InHand \ {t} /\ batch' \subseteq batch
BY DEF TypeOK, Returns, InHand

LEMMA ThenHand ==
  ASSUME TypeOK, NEW t \in Threads, NEW what, Then(t, what)
  PROVE  /\ InHand' = IF what = "ok" THEN InHand \cup {t} ELSE InHand \ {t}
         /\ batch' = batch
BY DEF TypeOK, Then, InHand

LEMMA FirstAnswer ==
  ASSUME answers = <<>>, NEW a \in Answer, Answers(a)
  PROVE  /\ ~m_observer' /\ Len(answers') = 1
         /\ Delivered' <=> a = "ok"
<1>1. answers' = <<a>>
    BY DEF Answers
<1> QED BY <1>1 DEF Delivered, Answers

LEMMA AddedRegistered ==
  ASSUME NEW h \in Handlers, NEW bits, bits # {},
         NEW m \in [Handlers -> SUBSET Bits],
         NEW at \in [Handlers -> Reactors \cup {None}],
         \A g \in Handlers : m[g] # {} <=> at[g] # None,
         Added(h, bits, m, at)
  PROVE  Registered'
BY ReactorsAssumption DEF Added, Registered

LEMMA ClearedRegistered ==
  ASSUME TypeOK, Registered, NEW h \in Handlers, NEW bits
  PROVE  \A g \in Handlers : Cleared(h, bits).m[g] # {} <=> Cleared(h, bits).at[g] # None
BY DEF TypeOK, Registered, Cleared

LEMMA RemovedRegistered ==
  ASSUME TypeOK, Registered, NEW h \in Handlers, NEW bits, RemoveHandler(h, bits)
  PROVE  Registered'
BY ClearedRegistered DEF RemoveHandler, Registered

LEMMA MovedRegistered ==
  ASSUME TypeOK, Registered, NEW h \in Handlers, NEW bits,
         NEW g \in Handlers, NEW more, more # {},
         Added(g, more, Cleared(h, bits).m, Cleared(h, bits).at)
  PROVE  Registered'
<1>1. /\ Cleared(h, bits).m \in [Handlers -> SUBSET Bits]
      /\ Cleared(h, bits).at \in [Handlers -> Reactors \cup {None}]
    BY ClearedType DEF TypeOK
<1> QED BY <1>1, AddedRegistered, ClearedRegistered

LEMMA RegisteredStays ==
  ASSUME Registered, UNCHANGED reg
  PROVE  Registered'
BY DEF Registered, reg

LEMMA InitOwn == Init => OwnInv
<1> SUFFICES ASSUME Init PROVE OwnInv
    OBVIOUS
<1>1. InHand = {} /\ ~Delivered /\ answers = <<>>
    BY DEF Init, InHand, Delivered
<1>2. Registered
    BY DEF Init, Registered
<1>3. StartOnce /\ WithConnector /\ WithHandshaker /\ WithThread /\ WithUser /\ NotLeaked
    BY <1>1 DEF Init, StartOnce, WithConnector, WithHandshaker, WithThread, WithUser, NotLeaked
<1> QED BY <1>2, <1>3 DEF OwnInv

\* A step that leaves the ownership of the socket alone.
LEMMA OwnStays ==
  ASSUME OwnInv, Registered', UNCHANGED <<sock, answers, m_enableServiceExt, m_sockId>>,
         m_observer' => m_observer,
         timers' \cup batch' \subseteq timers \cup batch,
         ~("start" \in timers' /\ "start" \in batch'),
         InHand' = InHand, hs'.made = hs.made, hs'.m_sockId = hs.m_sockId,
         hs'.m_observer => hs.m_observer,
         hs.m_observer \/ (hs'.toSend = hs.toSend /\ hs'.toRecv = hs.toRecv)
  PROVE  OwnInv'
<1>1. Delivered' = Delivered
    BY DEF Delivered
<1>2. hs.m_observer => InHand = {} /\ ~Delivered
    BY DEF OwnInv, WithHandshaker
<1>3. StartOnce' /\ WithConnector' /\ WithHandshaker'
    BY <1>1 DEF OwnInv, StartOnce, WithConnector, WithHandshaker
<1>4. WithThread' /\ WithUser' /\ NotLeaked'
    BY <1>1, <1>2 DEF OwnInv, WithThread, WithUser, NotLeaked
<1> QED BY <1>3, <1>4 DEF OwnInv

\* A step that ends the attempt without a socket for the user.
LEMMA OwnEnds ==
  ASSUME OwnInv, Registered', m_observer, NEW a \in Answer, a # "ok", Answers(a),
         UNCHANGED <<m_enableServiceExt, m_sockId, hs>>, InHand' = InHand,
         batch' \subseteq batch,
         \/ UNCHANGED sock
         \/ sock = "none" /\ sock' \in {"none", "closed"}
  PROVE  OwnInv'
<1>1. /\ answers = <<>> /\ ~Delivered
      /\ ~m_observer' /\ Len(answers') = 1 /\ ~Delivered'
    BY FirstAnswer DEF OwnInv, WithUser, Delivered
<1>2. timers' \subseteq timers /\ "start" \notin timers'
    BY DEF Answers
<1>3. sock = "none" => ~m_sockId /\ ~hs.made /\ ~hs.m_sockId /\ InHand = {}
    BY DEF OwnInv, WithConnector, WithHandshaker
<1>4. StartOnce' /\ WithConnector' /\ WithHandshaker'
    BY <1>1, <1>2, <1>3 DEF OwnInv, StartOnce, WithConnector, WithHandshaker
<1>5. WithThread' /\ WithUser' /\ NotLeaked'
    BY <1>1, <1>3 DEF OwnInv, WithThread, WithUser, NotLeaked
<1> QED BY <1>4, <1>5 DEF OwnInv

-----------------------------------------------------------------------------
(***************************************************************************)
(* The actions.                                                            *)
(***************************************************************************)
LEMMA NotCarrying ==
  ASSUME NEW t \in Threads, rest[t] # "ok"
  PROVE  InHand \ {t} = InHand
BY DEF InHand

LEMMA FinishesOwn ==
  ASSUME TypeOK, OwnInv, NEW t \in Threads, Finishes(t)
  PROVE  OwnInv'
<1>1. CASE OnHandshakeOk(t)
  <2>1. /\ t \in InHand /\ InHand = {t} /\ sock = "open" /\ ~Delivered
        /\ hs.toSend = 0 /\ hs.toRecv = 0 /\ hs.made /\ ~hs.m_sockId
        /\ m_enableServiceExt /\ ~m_sockId /\ ~hs.m_observer
      BY <1>1 DEF OnHandshakeOk, InHand, OwnInv, WithThread, WithConnector, WithHandshaker
  <2>2. Registered'
      BY <1>1, RegisteredStays DEF OnHandshakeOk, OwnInv
  <2>3. CASE m_observer /\ m_handshaker
    <3>1. InHand' = {} /\ batch' = batch
        BY <1>1, <2>1, <2>3, ThenHand DEF OnHandshakeOk
    <3>2. ~m_observer' /\ Len(answers') = 1 /\ Delivered'
        BY <1>1, <2>3, FirstAnswer DEF OnHandshakeOk, OwnInv, WithUser, Answer
    <3>3. "start" \notin timers'
        BY <1>1, <2>3 DEF OnHandshakeOk, Answers
    <3> QED
        BY <1>1, <2>1, <2>2, <2>3, <3>1, <3>2, <3>3
        DEF OnHandshakeOk, OwnInv, StartOnce, WithConnector, WithHandshaker, WithThread,
            WithUser, NotLeaked
  <2>4. CASE ~(m_observer /\ m_handshaker)
    <3>1. InHand' = {} /\ batch' \subseteq batch
        BY <1>1, <2>1, <2>4, ReturnsHand DEF OnHandshakeOk
    <3>2. Delivered' = Delivered
        BY <1>1, <2>4 DEF OnHandshakeOk, Delivered
    <3>3. ~("start" \in timers \cup batch /\ m_observer)
        BY <2>1 DEF OwnInv, StartOnce
    <3> QED
        BY <1>1, <2>1, <2>2, <2>4, <3>1, <3>2, <3>3
        DEF OnHandshakeOk, OwnInv, StartOnce, WithConnector, WithHandshaker, WithThread,
            WithUser, NotLeaked
  <2> QED BY <2>3, <2>4
<1>2. CASE OnHandshakeError(t)
  <2>1. Registered'
      BY <1>2, RegisteredStays DEF OnHandshakeError, OwnInv
  <2>2. InHand \ {t} = InHand
      BY <1>2, NotCarrying DEF OnHandshakeError
  <2>3. CASE m_observer /\ m_handshaker
    <3>1. InHand' = InHand /\ batch' = batch
        BY <1>2, <2>2, <2>3, ThenHand DEF OnHandshakeError
    <3> QED
        BY <1>2, <2>1, <2>3, <3>1, OwnEnds DEF OnHandshakeError, Answer
  <2>4. CASE ~(m_observer /\ m_handshaker)
    <3>1. InHand' = InHand /\ batch' \subseteq batch
        BY <1>2, <2>2, <2>4, ReturnsHand DEF OnHandshakeError
    <3>2. ~("start" \in timers' /\ "start" \in batch')
        BY <1>2, <2>4, <3>1 DEF OnHandshakeError, OwnInv, StartOnce
    <3> QED
        BY <1>2, <2>1, <2>4, <3>1, <3>2, OwnStays DEF OnHandshakeError
  <2> QED BY <2>3, <2>4
<1>3. CASE UpcallReturns(t)
  <2>1. InHand' = InHand /\ batch' \subseteq batch
      BY <1>3, NotCarrying, ReturnsHand DEF UpcallReturns
  <2>2. Registered'
      BY <1>3, RegisteredStays DEF UpcallReturns, OwnInv
  <2> QED
      BY <1>3, <2>1, <2>2, OwnStays DEF UpcallReturns, conn, OwnInv, StartOnce
<1>4. CASE DeleteHandshaker(t)
  <2>1. InHand' = InHand /\ batch' \subseteq batch
      BY <1>4, NotCarrying, ReturnsHand DEF DeleteHandshaker
  <2>2. Registered'
      BY <1>4, RegisteredStays, RemovedRegistered DEF DeleteHandshaker, OwnInv, Handlers
  <2>3. /\ hs'.made = hs.made /\ hs'.m_sockId = hs.m_sockId /\ ~hs'.m_observer
        /\ hs'.toSend = hs.toSend /\ hs'.toRecv = hs.toRecv
      BY <1>4 DEF DeleteHandshaker, TypeOK
  <2> QED
      BY <1>4, <2>1, <2>2, <2>3, OwnStays DEF DeleteHandshaker, conn, OwnInv, StartOnce
<1> QED BY <1>1, <1>2, <1>3, <1>4 DEF Finishes

LEMMA HandshakeFailsOwn ==
  ASSUME TypeOK, OwnInv, NEW t \in Threads, rest[t] # "ok", NEW why \in Answer \ {"ok"},
         HandshakeFails(t, why), UNCHANGED <<conn, sock, answers>>
  PROVE  OwnInv'
<1>1. InHand' = InHand /\ batch' = batch
    BY NotCarrying, ThenHand DEF HandshakeFails
<1>2. Registered'
    BY RemovedRegistered DEF HandshakeFails, OwnInv, Handlers
<1>3. /\ hs'.made = hs.made /\ hs'.m_sockId = hs.m_sockId /\ ~hs'.m_observer
      /\ hs'.toSend = hs.toSend /\ hs'.toRecv = hs.toRecv
    BY DEF HandshakeFails, TypeOK
<1>4. timers' \subseteq timers
    BY DEF HandshakeFails
<1> QED
    BY <1>1, <1>2, <1>3, <1>4, OwnStays DEF conn, OwnInv, StartOnce

LEMMA WorkerOwn ==
  ASSUME TypeOK, OwnInv, NEW r \in Reactors, Worker(r)
  PROVE  OwnInv'
<1> r \in Threads
    BY DEF Threads
<1>1. CASE IoCollect(r)
  <2>1. InHand' = InHand /\ Registered'
      BY <1>1, RegisteredStays DEF IoCollect, InHand, OwnInv
  <2> QED BY <1>1, <2>1, OwnStays DEF IoCollect, conn, OwnInv, StartOnce
<1>2. CASE IoStale(r)
  <2>1. InHand' = InHand /\ batch' \subseteq batch /\ Registered'
      BY <1>2, NotCarrying, ReturnsHand, RegisteredStays DEF IoStale, OwnInv
  <2> QED BY <1>2, <2>1, OwnStays DEF IoStale, conn, OwnInv, StartOnce
<1>3. CASE Finishes(r)
    BY <1>3, FinishesOwn
<1>4. CASE OnOutput(r)
  <2>1. /\ m_observer /\ m_sockId /\ ~m_enableServiceExt /\ sock = "open" /\ answers = <<>>
        /\ ~hs.made /\ ~hs.m_sockId /\ ~hs.m_observer /\ InHand = {}
      BY <1>4 DEF OnOutput, OwnInv, WithConnector, WithUser
  <2>2. InHand' = {} /\ batch' = batch
      BY <1>4, <2>1, ThenHand DEF OnOutput
  <2>3. ~m_observer' /\ Len(answers') = 1 /\ Delivered'
      BY <1>4, <2>1, FirstAnswer DEF OnOutput, Answer
  <2>4. Registered'
      BY <1>4, RemovedRegistered DEF OnOutput, OwnInv, Handlers
  <2>5. "start" \notin timers'
      BY <1>4 DEF OnOutput, Answers
  <2> QED
      BY <1>4, <2>1, <2>2, <2>3, <2>4, <2>5
      DEF OnOutput, OwnInv, StartOnce, WithConnector, WithHandshaker, WithThread, WithUser,
          NotLeaked
<1>5. CASE OnOutputHandshake(r)
  <2>1. /\ m_observer /\ m_sockId /\ m_enableServiceExt /\ sock = "open" /\ answers = <<>>
        /\ ~Delivered /\ InHand = {}
      BY <1>5 DEF OnOutputHandshake, OwnInv, WithConnector, WithUser
  <2>2. InHand' = {} /\ batch' \subseteq batch
      BY <1>5, <2>1, ReturnsHand DEF OnOutputHandshake
  <2>3. Delivered' = Delivered
      BY <1>5 DEF OnOutputHandshake, Delivered
  <2>4. Registered'
      BY <1>5, MovedRegistered DEF OnOutputHandshake, OwnInv, Handlers
  <2>5. "start" \notin timers' \cup batch'
      BY <1>5, <2>1, <2>2 DEF OnOutputHandshake, OwnInv, StartOnce
  <2> QED
      BY <1>5, <2>1, <2>2, <2>3, <2>4, <2>5
      DEF OnOutputHandshake, OwnInv, StartOnce, WithConnector, WithHandshaker, WithThread,
          WithUser, NotLeaked
<1>6. CASE OnOutputFails(r)
  <2>1. InHand' = InHand /\ batch' = batch
      BY <1>6, NotCarrying, ThenHand DEF OnOutputFails, Enters
  <2>2. Registered'
      BY <1>6, RemovedRegistered DEF OnOutputFails, OwnInv, Handlers
  <2> QED BY <1>6, <2>1, <2>2, OwnEnds DEF OnOutputFails, Answer
<1>7. CASE OnError(r)
  <2>1. InHand' = InHand /\ batch' = batch
      BY <1>7, NotCarrying, ThenHand DEF OnError, Enters
  <2>2. Registered'
      BY <1>7, RemovedRegistered DEF OnError, OwnInv, Handlers
  <2> QED BY <1>7, <2>1, <2>2, OwnEnds DEF OnError, Answer
<1>8. ASSUME NEW n \in 1..RecvSize, HsInput(r, n) PROVE OwnInv'
  <2>1. InHand' = InHand /\ batch' \subseteq batch
      BY <1>8, NotCarrying, ReturnsHand DEF HsInput, Enters
  <2>2. Registered'
      BY <1>8, RegisteredStays, MovedRegistered DEF HsInput, OwnInv, Handlers
  <2>3. hs'.made = hs.made /\ hs'.m_sockId = hs.m_sockId /\ hs'.m_observer = hs.m_observer
      BY <1>8 DEF HsInput, TypeOK
  <2> QED BY <1>8, <2>1, <2>2, <2>3, OwnStays DEF HsInput, conn, OwnInv, StartOnce
<1>9. CASE HsInputNothing(r)
  <2>1. InHand' = InHand /\ batch' \subseteq batch
      BY <1>9, NotCarrying, ReturnsHand DEF HsInputNothing, Enters
  <2>2. Registered'
      BY <1>9, RegisteredStays, RemovedRegistered DEF HsInputNothing, OwnInv, Handlers
  <2> QED BY <1>9, <2>1, <2>2, OwnStays DEF HsInputNothing, conn, OwnInv, StartOnce
<1>10. CASE HsInputFails(r)
    BY <1>10, HandshakeFailsOwn DEF HsInputFails, Enters, Answer
<1>11. ASSUME NEW n \in 0..SendSize, HsOutput(r, n) PROVE OwnInv'
  <2>1. CASE n = hs.toSend /\ hs.toRecv = 0
    <3>1. /\ hs.m_observer /\ hs.m_sockId /\ hs.made /\ sock = "open" /\ InHand = {}
          /\ ~Delivered /\ ~m_sockId
        BY <1>11 DEF HsOutput, OwnInv, WithHandshaker, WithConnector
    <3>2. InHand' = {r} /\ batch' = batch
        BY <1>11, <2>1, <3>1, ThenHand DEF HsOutput
    <3>3. /\ hs'.made /\ ~hs'.m_sockId /\ ~hs'.m_observer
          /\ hs'.toSend = 0 /\ hs'.toRecv = 0
        BY <1>11, <2>1, <3>1 DEF HsOutput, TypeOK
    <3>4. Delivered' = Delivered
        BY <1>11 DEF HsOutput, Delivered
    <3>5. Registered'
        BY <1>11, <2>1, RemovedRegistered DEF HsOutput, OwnInv, Handlers
    <3> QED
        BY <1>11, <2>1, <3>1, <3>2, <3>3, <3>4, <3>5
        DEF HsOutput, OwnInv, StartOnce, WithConnector, WithHandshaker, WithThread,
            WithUser, NotLeaked, conn
  <2>2. CASE ~(n = hs.toSend /\ hs.toRecv = 0)
    <3>1. InHand' = InHand /\ batch' \subseteq batch
        BY <1>11, <2>2, NotCarrying, ReturnsHand DEF HsOutput, Enters
    <3>2. Registered'
        BY <1>11, <2>2, RegisteredStays, RemovedRegistered DEF HsOutput, OwnInv, Handlers
    <3>3. hs'.made = hs.made /\ hs'.m_sockId = hs.m_sockId /\ hs'.m_observer = hs.m_observer
        BY <1>11, <2>2 DEF HsOutput, TypeOK
    <3> QED BY <1>11, <2>2, <3>1, <3>2, <3>3, OwnStays DEF HsOutput, conn, OwnInv, StartOnce
  <2> QED BY <2>1, <2>2
<1>12. CASE HsOutputFails(r)
    BY <1>12, HandshakeFailsOwn DEF HsOutputFails, Enters, Answer
<1>13. CASE HsError(r)
    BY <1>13, HandshakeFailsOwn DEF HsError, Enters, Answer
<1> QED BY <1>1, <1>2, <1>3, <1>4, <1>5, <1>6, <1>7, <1>8, <1>9, <1>10, <1>11, <1>12, <1>13
        DEF Worker

LEMMA TimerOwn ==
  ASSUME TypeOK, OwnInv, TimerThread
  PROVE  OwnInv'
<1> "timer" \in Threads
    BY DEF Threads
<1>1. ASSUME NEW due \in SUBSET Timers, TimerCollect(due) PROVE OwnInv'
  <2>1. InHand' = InHand /\ Registered'
      BY <1>1, RegisteredStays DEF TimerCollect, InHand, OwnInv
  <2> QED BY <1>1, <2>1, OwnStays DEF TimerCollect, conn, OwnInv
<1>2. CASE OnTimerStart
  <2>1. "start" \in batch
      BY <1>2 DEF OnTimerStart, Fires, Firing
  <2>2. sock = "none" /\ "start" \notin timers
      BY <1>2, <2>1 DEF OnTimerStart, OwnInv, StartOnce
  <2>3. ~m_sockId /\ ~hs.made /\ ~hs.m_sockId /\ ~hs.m_observer /\ InHand = {} /\ ~Delivered
      BY <2>2 DEF OwnInv, WithConnector, WithHandshaker, WithUser
  <2>4. InHand' = {} /\ "start" \notin batch'
    <3>1. InHand' = {}
        BY <1>2, <2>3, ReturnsHand DEF OnTimerStart
    <3>2. "start" \notin batch'
        BY <1>2 DEF OnTimerStart, Returns, Fires
    <3> QED BY <3>1, <3>2
  <2>5. Registered'
      BY <1>2, AddedRegistered DEF OnTimerStart, OwnInv, Registered, TypeOK, Handlers, Bits
  <2>6. Delivered' = Delivered
      BY <1>2 DEF OnTimerStart, Delivered
  <2> QED
      BY <1>2, <2>2, <2>3, <2>4, <2>5, <2>6
      DEF OnTimerStart, OwnInv, StartOnce, WithConnector, WithHandshaker, WithThread,
          WithUser, NotLeaked
<1>3. ASSUME NEW opened \in BOOLEAN, OnTimerStartFails(opened) PROVE OwnInv'
  <2>1. "start" \in batch
      BY <1>3 DEF OnTimerStartFails, Fires, Firing
  <2>2. sock = "none" /\ sock' \in {"none", "closed"}
      BY <1>3, <2>1 DEF OnTimerStartFails, OwnInv, StartOnce
  <2>3. InHand' = InHand /\ batch' = batch /\ Registered'
      BY <1>3, NotCarrying, ThenHand, RegisteredStays DEF OnTimerStartFails, Fires, OwnInv
  <2> QED BY <1>3, <2>2, <2>3, OwnEnds DEF OnTimerStartFails, Answer
<1>4. CASE OnTimerTimeout
  <2>1. InHand' = InHand /\ batch' = batch
      BY <1>4, NotCarrying, ThenHand DEF OnTimerTimeout, Fires
  <2>2. Registered'
      BY <1>4, RemovedRegistered DEF OnTimerTimeout, OwnInv, Handlers
  <2> QED BY <1>4, <2>1, <2>2, OwnEnds DEF OnTimerTimeout, Answer
<1>5. CASE OnTimerStale
  <2>1. InHand' = InHand /\ batch' \subseteq batch /\ Registered'
      BY <1>5, NotCarrying, ReturnsHand, RegisteredStays DEF OnTimerStale, Fires, OwnInv
  <2> QED BY <1>5, <2>1, OwnStays DEF OnTimerStale, conn, OwnInv, StartOnce
<1>6. CASE HsTimer
    BY <1>6, HandshakeFailsOwn DEF HsTimer, Fires, Answer
<1>7. CASE Finishes("timer")
    BY <1>7, FinishesOwn
<1> QED BY <1>1, <1>2, <1>3, <1>4, <1>5, <1>6, <1>7 DEF TimerThread

LEMMA DeleteOwn ==
  ASSUME TypeOK, OwnInv, DeleteConnector
  PROVE  OwnInv'
<1> "user" \in Threads
    BY DEF Threads
<1>1. InHand' = InHand /\ batch' \subseteq batch
    BY NotCarrying, ReturnsHand, ThenHand DEF DeleteConnector
<1>2. Registered'
    BY RegisteredStays, RemovedRegistered DEF DeleteConnector, OwnInv, Handlers
<1>3. timers' \subseteq timers /\ (m_observer' => m_observer)
    BY DEF DeleteConnector
<1> QED BY <1>1, <1>2, <1>3, OwnStays DEF DeleteConnector, OwnInv, StartOnce

LEMMA OwnInvariance == Spec => []OwnInv
<1>1. TypeOK /\ OwnInv /\ [Next]_vars => OwnInv'
  <2> SUFFICES ASSUME TypeOK, OwnInv, [Next]_vars PROVE OwnInv'
      OBVIOUS
  <2> "user" \in Threads
      BY DEF Threads
  <2>1. CASE UNCHANGED vars
    <3>1. InHand' = InHand /\ Registered'
        BY <2>1, RegisteredStays DEF vars, thr, InHand, OwnInv
    <3> QED BY <2>1, <3>1, OwnStays DEF vars, conn, thr, OwnInv, StartOnce
  <2>2. ASSUME NEW r \in Reactors, Worker(r) PROVE OwnInv'
      BY <2>2, WorkerOwn
  <2>3. ASSUME NEW r \in Reactors, NEW h \in Handlers,
               NEW ev \in SUBSET (Bits \cup {"ERROR"}), IoWait(r, h, ev)
        PROVE  OwnInv'
    <3>1. InHand' = InHand /\ Registered'
        BY <2>3, RegisteredStays DEF IoWait, InHand, OwnInv
    <3> QED BY <2>3, <3>1, OwnStays DEF IoWait, conn, OwnInv, StartOnce
  <2>4. CASE TimerThread
      BY <2>4, TimerOwn
  <2>5. CASE DeleteConnector
      BY <2>5, DeleteOwn
  <2>6. CASE Finishes("user")
      BY <2>6, FinishesOwn
  <2> QED BY <2>1, <2>2, <2>3, <2>4, <2>5, <2>6 DEF Next
<1> QED BY <1>1, InitOwn, TypeCorrect, PTL DEF Spec

(***************************************************************************)
(* An open socket has exactly one owner, a closed one none: nothing leaks  *)
(* and nothing is closed twice, whatever meets the end of the handshake    *)
(* (OnHandshakeOk, OnTimer, ProDeleteConnector).                           *)
(***************************************************************************)
THEOREM OwnerCorrect == Spec => []OneOwner
<1>1. OwnInv => OneOwner
  <2> SUFFICES ASSUME OwnInv PROVE OneOwner
      OBVIOUS
  <2>1. CASE sock # "open"
    <3>1. Owners = {}
        BY <2>1 DEF OwnInv, WithConnector, WithHandshaker, WithThread, WithUser, Owners
    <3> QED BY <2>1, <3>1, FS_EmptySet DEF OneOwner
  <2>2. CASE sock = "open" /\ m_sockId
    <3>1. Owners = {"connector"}
        BY <2>2 DEF OwnInv, WithConnector, Owners
    <3> QED BY <2>2, <3>1, FS_Singleton DEF OneOwner
  <2>3. CASE sock = "open" /\ hs.m_sockId
    <3>1. Owners = {"handshaker"}
        BY <2>3 DEF OwnInv, WithConnector, WithHandshaker, Owners
    <3> QED BY <2>3, <3>1, FS_Singleton DEF OneOwner
  <2>4. ASSUME sock = "open", NEW t \in InHand PROVE OneOwner
    <3>1. Owners = {t}
        BY <2>4 DEF OwnInv, WithConnector, WithHandshaker, WithThread, Owners
    <3> QED BY <2>4, <3>1, FS_Singleton DEF OneOwner
  <2>5. CASE sock = "open" /\ Delivered
    <3>1. Owners = {"user of the socket"}
        BY <2>5 DEF OwnInv, WithConnector, WithHandshaker, WithThread, Owners
    <3> QED BY <2>5, <3>1, FS_Singleton DEF OneOwner
  <2> QED BY <2>1, <2>2, <2>3, <2>4, <2>5 DEF OwnInv, NotLeaked
<1> QED BY <1>1, OwnInvariance, PTL

(***************************************************************************)
(* The attempt is answered at most once, and with the service extension    *)
(* OnConnectOk comes only after a complete handshake.                      *)
(***************************************************************************)
THEOREM AnswerCorrect == Spec => []AnsweredOnce
<1>1. OwnInv => AnsweredOnce
    BY DEF OwnInv, WithUser, AnsweredOnce
<1> QED BY <1>1, OwnInvariance, PTL
-----------------------------------------------------------------------------
(***************************************************************************)
(* Lifetimes.                                                              *)
(***************************************************************************)

\* A thread that is done lets go of its target, its timer and, the user, of its
\* reference, and takes nothing up.
LEMMA ReturnsRelease ==
  ASSUME TypeOK, NEW t \in Threads, Returns(t)
  PROVE  /\ \A r \in Reactors, h \in Handlers : target[r] # h => target'[r] # h
         /\ batch' \subseteq batch
         /\ ~userRef => ~userRef'
         /\ \A u \in Threads : rest'[u] \in {rest[u], "none"}
<1>1. ASSUME NEW r \in Reactors, NEW h \in Handlers, target[r] # h PROVE target'[r] # h
  <2>1. target'[r] = target[r] \/ target'[r] = None
      BY DEF Returns
  <2> QED BY <1>1, <2>1, ReactorsAssumption DEF Handlers
<1>2. batch' \subseteq batch /\ (~userRef => ~userRef')
    BY DEF Returns
<1>3. \A u \in Threads : rest'[u] \in {rest[u], "none"}
    BY DEF Returns, TypeOK
<1> QED BY <1>1, <1>2, <1>3

LEMMA RemoveShrinks ==
  ASSUME TypeOK, NEW h \in Handlers, NEW bits \in SUBSET Bits, RemoveHandler(h, bits)
  PROVE  \A g \in Handlers : mask'[g] \subseteq mask[g]
    BY DEF RemoveHandler, Cleared, TypeOK

\* Who does not hold an object does not start to: a step without a target, a
\* timer or a pending answer of the connector makes none.
LEMMA ConnectorStaysGone ==
  ASSUME TypeOK, OwnInv, ~ConnectorHeld, Next
  PROVE  ~ConnectorHeld'
<1> USE DEF ConnectorHeld
<1>1. /\ ~userRef /\ mask["connector"] = {} /\ ~hs.m_observer
      /\ \A r \in Reactors : target[r] # "connector" /\ reactor["connector"] # r
      /\ (timers \cup batch) \cap {"start", "timeout"} = {}
      /\ \A t \in Threads : rest[t] \notin {"ok", "error", "timeout"}
    BY ReactorsAssumption DEF OwnInv, Registered, Handlers
<1>2. ASSUME NEW t \in Threads, Finishes(t) PROVE ~ConnectorHeld'
  <2>1. CASE UpcallReturns(t)
      BY <1>1, <2>1, ReturnsRelease DEF UpcallReturns, reg, Handlers
  <2>2. CASE DeleteHandshaker(t)
      BY <1>1, <2>2, ReturnsRelease, RemoveShrinks
      DEF DeleteHandshaker, reg, Handlers, TypeOK
  <2> QED BY <1>1, <1>2, <2>1, <2>2 DEF Finishes, OnHandshakeOk, OnHandshakeError
<1>3. ASSUME NEW r \in Reactors, Worker(r) PROVE ~ConnectorHeld'
  <2> r \in Threads
      BY DEF Threads
  <2>1. CASE IoCollect(r)
      BY <1>1, <2>1 DEF IoCollect, TypeOK, reg, conn
  <2>2. CASE IoStale(r)
      BY <1>1, <2>2, ReturnsRelease DEF IoStale, reg, Handlers
  <2> QED
      BY <1>1, <1>2, <1>3, <2>1, <2>2
      DEF Worker, OnOutput, OnOutputHandshake, OnOutputFails, OnError, HsInput, HsInputNothing,
          HsInputFails, HsOutput, HsOutputFails, HsError, Enters
<1>4. CASE TimerThread
  <2>1. ASSUME NEW due \in SUBSET Timers, TimerCollect(due) PROVE ~ConnectorHeld'
      BY <1>1, <2>1 DEF TimerCollect, reg
  <2>2. CASE OnTimerStale
      BY <1>1, <2>2, ReturnsRelease DEF OnTimerStale, reg, Handlers, Threads
  <2>3. ~Fires("start") /\ ~Fires("timeout")
      BY <1>1 DEF Fires, Firing
  <2> QED
      BY <1>1, <1>2, <1>4, <2>1, <2>2, <2>3
      DEF TimerThread, OnTimerStart, OnTimerStartFails, OnTimerTimeout, HsTimer, Threads
<1>5. ASSUME NEW r \in Reactors, NEW h \in Handlers,
             NEW ev \in SUBSET (Bits \cup {"ERROR"}), IoWait(r, h, ev)
      PROVE  ~ConnectorHeld'
    BY <1>1, <1>5 DEF IoWait, reg
<1> QED BY <1>1, <1>2, <1>3, <1>4, <1>5 DEF Next, DeleteConnector, Threads

LEMMA HandshakerStaysGone ==
  ASSUME TypeOK, OwnInv, hs.made, ~HandshakerHeld, Next
  PROVE  ~HandshakerHeld'
<1> USE DEF HandshakerHeld
<1>1. /\ ~hs.ref /\ mask["handshaker"] = {} /\ ~m_sockId
      /\ \A r \in Reactors : target[r] # "handshaker" /\ reactor["handshaker"] # r
      /\ "handshake" \notin timers \cup batch
    BY ReactorsAssumption DEF OwnInv, Registered, Handlers, WithConnector
<1>2. ASSUME NEW t \in Threads, Finishes(t) PROVE ~HandshakerHeld'
  <2>1. CASE UpcallReturns(t)
      BY <1>1, <2>1, ReturnsRelease DEF UpcallReturns, reg, Handlers
  <2>2. CASE DeleteHandshaker(t)
      BY <1>1, <2>2, ReturnsRelease, RemoveShrinks
      DEF DeleteHandshaker, reg, Handlers, TypeOK
  <2>3. CASE OnHandshakeOk(t)
      BY <1>1, <2>3, ReturnsRelease DEF OnHandshakeOk, Answers, Then, reg, Handlers
  <2>4. CASE OnHandshakeError(t)
      BY <1>1, <2>4, ReturnsRelease DEF OnHandshakeError, Answers, Then, reg, Handlers
  <2> QED BY <1>2, <2>1, <2>2, <2>3, <2>4 DEF Finishes
<1>3. ASSUME NEW r \in Reactors, Worker(r) PROVE ~HandshakerHeld'
  <2> r \in Threads
      BY DEF Threads
  <2>1. CASE IoCollect(r)
      BY <1>1, <2>1 DEF IoCollect, TypeOK, reg, conn
  <2>2. CASE IoStale(r)
      BY <1>1, <2>2, ReturnsRelease DEF IoStale, reg, Handlers
  <2>3. CASE OnError(r)
      BY <1>1, <2>3 DEF OnError, Answers, RemoveHandler, Cleared, Then, TypeOK, Handlers
  <2> QED
      BY <1>1, <1>2, <1>3, <2>1, <2>2, <2>3
      DEF Worker, OnOutput, OnOutputHandshake, OnOutputFails, HsInput, HsInputNothing,
          HsInputFails, HsOutput, HsOutputFails, HsError, Enters
<1>4. CASE TimerThread
  <2>1. ASSUME NEW due \in SUBSET Timers, TimerCollect(due) PROVE ~HandshakerHeld'
      BY <1>1, <2>1 DEF TimerCollect, reg
  <2>2. CASE OnTimerStale
      BY <1>1, <2>2, ReturnsRelease DEF OnTimerStale, reg, Handlers, Threads
  <2>3. CASE OnTimerStart
      BY <1>1, <2>3, ReturnsRelease DEF OnTimerStart, Added, TypeOK, Handlers, Threads
  <2>4. ASSUME NEW opened \in BOOLEAN, OnTimerStartFails(opened) PROVE ~HandshakerHeld'
      BY <1>1, <2>4 DEF OnTimerStartFails, Answers, Then, reg
  <2>5. CASE OnTimerTimeout
      BY <1>1, <2>5 DEF OnTimerTimeout, Answers, RemoveHandler, Cleared, Then, TypeOK, Handlers
  <2>6. ~HsTimer
      BY <1>1 DEF HsTimer, Fires, Firing, TypeOK, Timers
  <2> QED
      BY <1>2, <1>4, <2>1, <2>2, <2>3, <2>4, <2>5, <2>6 DEF TimerThread, Threads
<1>5. ASSUME NEW r \in Reactors, NEW h \in Handlers,
             NEW ev \in SUBSET (Bits \cup {"ERROR"}), IoWait(r, h, ev)
      PROVE  ~HandshakerHeld'
    BY <1>1, <1>5 DEF IoWait, reg
<1>6. CASE DeleteConnector
    BY <1>1, <1>6, ReturnsRelease, RemoveShrinks
    DEF DeleteConnector, Then, Handlers, Threads, reg
<1> QED BY <1>2, <1>3, <1>4, <1>5, <1>6 DEF Next, Threads

(***************************************************************************)
(* A destroyed connector or handshaker is not referred to again by an      *)
(* event, a timer or a report that another thread still holds.             *)
(***************************************************************************)
THEOREM LifetimeCorrect == Spec => NoUseAfterFree
<1>1. TypeOK /\ OwnInv /\ [Next]_vars
      => [/\ ~ConnectorHeld => ~ConnectorHeld'
          /\ hs.made /\ ~HandshakerHeld => ~HandshakerHeld']_vars
    BY ConnectorStaysGone, HandshakerStaysGone
<1> QED BY <1>1, TypeCorrect, OwnInvariance, PTL DEF Spec, NoUseAfterFree
=============================================================================
