----------------------------- MODULE Connector -----------------------------
(***************************************************************************)
(* CProConnector (pro_net/pro_connector.cpp) with the CProTcpHandshaker it *)
(* creates when the service extension is on (pro_net/pro_tcp_handshaker.   *)
(* cpp): one connection attempt, its socket and its answer.                *)
(*                                                                         *)
(* Threads: the reactors' workers deliver socket events, the timer thread  *)
(* delivers timers, and the user deletes the connector at any time.  Each  *)
(* object has its own m_lock; an upcall is made after the lock is left.  A *)
(* step is a critical section; what the thread still has to do after it is *)
(* kept in `rest'.  Both objects are reference counted: the references are *)
(* not counted here but known by their holders (ConnectorHeld,             *)
(* HandshakerHeld), and an object nobody holds is destroyed and has closed *)
(* the socket it owned.                                                    *)
(***************************************************************************)
EXTENDS Naturals, FiniteSets, Sequences

CONSTANTS
  Reactors,    \* I/O reactors (one thread each)
  None,
  SendSize, RecvSize    \* bytes of the handshake: service data, nonce

ASSUME ReactorsAssumption == None \notin Reactors \cup {"connector", "handshaker"}
ASSUME SizesAssumption == SendSize \in Nat \ {0} /\ RecvSize \in Nat \ {0}

VARIABLES
  m_enableServiceExt,
  m_observer,         \* m_observer and m_reactorTask are set
  m_sockId,           \* the connector has the socket
  m_handshaker,       \* # NULL
  hs,                 \* the handshaker
  mask, reactor,      \* per handler: its registration
  timers,             \* timers in the factory
  batch,              \* timers the timer thread has collected
  events, target,     \* per reactor: events it holds, and of which handler
  rest,               \* per thread: what is left to do after a critical section
  userRef,            \* the user has not given up its reference
  sock,               \* the socket, as far as closed explicitly
  answers             \* history: the upcalls OnConnectOk, OnConnectError

conn == <<m_enableServiceExt, m_observer, m_sockId, m_handshaker>>
reg  == <<mask, reactor>>
thr  == <<events, target, rest, batch, userRef>>
vars == <<conn, hs, reg, timers, thr, sock, answers>>

Handlers == {"connector", "handshaker"}
Bits     == {"WRITE", "READ", "EXCEPTION"}     \* PRO_MASK_CONNECT
Timers   == {"start", "timeout", "handshake"}  \* m_timerId0, m_timerId1, m_timerId
Threads  == Reactors \cup {"timer", "user"}

TypeOK ==
  /\ m_enableServiceExt \in BOOLEAN /\ m_observer \in BOOLEAN
  /\ m_sockId \in BOOLEAN /\ m_handshaker \in BOOLEAN
  /\ hs \in [made : BOOLEAN, m_observer : BOOLEAN, m_sockId : BOOLEAN,
             ref : BOOLEAN, toSend : 0..SendSize, toRecv : 0..RecvSize]
  /\ mask \in [Handlers -> SUBSET Bits]
  /\ reactor \in [Handlers -> Reactors \cup {None}]
  /\ timers \subseteq Timers /\ batch \subseteq Timers
  /\ events \in [Reactors -> SUBSET (Bits \cup {"ERROR"})]
  /\ target \in [Reactors -> Handlers \cup {None}]
  /\ rest \in [Threads -> {"none", "upcall", "delete", "ok", "error", "timeout"}]
  /\ userRef \in BOOLEAN
  /\ sock \in {"none", "open", "closed"}
  /\ answers \in Seq({"ok", "error", "timeout"})

\* The state Init leaves: both timers are armed.
Init ==
  /\ m_enableServiceExt \in BOOLEAN
  /\ m_observer = TRUE /\ m_sockId = FALSE /\ m_handshaker = FALSE
  /\ hs = [made |-> FALSE, m_observer |-> FALSE, m_sockId |-> FALSE,
           ref |-> FALSE, toSend |-> 0, toRecv |-> 0]
  /\ mask = [h \in Handlers |-> {}] /\ reactor = [h \in Handlers |-> None]
  /\ timers = {"start", "timeout"} /\ batch = {}
  /\ events = [r \in Reactors |-> {}] /\ target = [r \in Reactors |-> None]
  /\ rest = [t \in Threads |-> "none"]
  /\ userRef = TRUE
  /\ sock = "none"
  /\ answers = <<>>
-----------------------------------------------------------------------------
(***************************************************************************)
(* CProTpReactorTask.                                                      *)
(***************************************************************************)
Added(h, bits, m, at) ==
  /\ mask' = [m EXCEPT ![h] = @ \cup bits]
  /\ reactor' \in IF at[h] # None THEN {at} ELSE {[at EXCEPT ![h] = r] : r \in Reactors}

Cleared(h, bits) ==
  [m  |-> [mask EXCEPT ![h] = @ \ bits],
   at |-> IF mask[h] \subseteq bits THEN [reactor EXCEPT ![h] = None] ELSE reactor]

RemoveHandler(h, bits) ==
  mask' = Cleared(h, bits).m /\ reactor' = Cleared(h, bits).at
-----------------------------------------------------------------------------
(***************************************************************************)
(* Threads.                                                                *)
(***************************************************************************)

\* The event a worker handles: OnError alone, or OnOutput, OnInput, OnException.
Current(r) ==
  CASE "ERROR" \in events[r] -> "ERROR"
    [] "WRITE" \in events[r] -> "WRITE"
    [] "READ" \in events[r]  -> "READ"
    [] OTHER                 -> "EXCEPTION"

Firing ==
  CASE "start" \in batch   -> "start"
    [] "timeout" \in batch -> "timeout"
    [] OTHER               -> "handshake"

\* What thread t was doing is over.
Returns(t) ==
  /\ rest' = [rest EXCEPT ![t] = "none"]
  /\ events' = [r \in Reactors |-> IF r = t THEN events[r] \ {Current(r)} ELSE events[r]]
  /\ target' = [r \in Reactors |->
                  IF r = t /\ events[r] = {Current(r)} THEN None ELSE target[r]]
  /\ batch' = IF t = "timer" THEN batch \ {Firing} ELSE batch
  /\ userRef' = (userRef /\ t # "user")

\* Thread t has left the critical section and goes on with `what'.
Then(t, what) ==
  /\ rest' = [rest EXCEPT ![t] = what]
  /\ UNCHANGED <<events, target, batch, userRef>>

\* epoll_wait: the socket is registered with r.  A hang-up counts as READ.
IoWait(r, h, ev) ==
  /\ events[r] = {}
  /\ reactor[h] = r
  /\ ev # {} /\ (ev \subseteq mask[h] \cup {"READ"} \/ ev = {"ERROR"})
  /\ events' = [events EXCEPT ![r] = ev]
  /\ UNCHANGED <<conn, hs, reg, timers, target, rest, batch, userRef, sock, answers>>

\* Mutant of IoCollect: the worker takes the handler it has registered.
IoCollectAny(r) ==
  /\ events[r] # {} /\ target[r] = None
  /\ \E h \in Handlers : target' = [target EXCEPT ![r] = h]
  /\ UNCHANGED <<conn, hs, reg, timers, events, rest, batch, userRef, sock, answers>>

\* The worker looks the handler up.
IoCollect(r) ==
  LET found == {h \in Handlers : reactor[h] = r}
  IN
  /\ events[r] # {} /\ target[r] = None
  /\ IF found = {}
       THEN events' = [events EXCEPT ![r] = {}] /\ UNCHANGED target
       ELSE \E h \in found : target' = [target EXCEPT ![r] = h] /\ UNCHANGED events
  /\ UNCHANGED <<conn, hs, reg, timers, rest, batch, userRef, sock, answers>>

Enters(r, h, evs) ==
  /\ target[r] = h /\ Current(r) \in evs
  /\ rest[r] = "none"

\* The timer thread collects what is due, in the order of expiry.
TimerCollect(due) ==
  /\ batch = {} /\ due # {} /\ due \subseteq timers
  /\ "start" \in timers => "start" \in due
  /\ {"timeout", "handshake"} \subseteq timers /\ "handshake" \in due => "timeout" \in due
  /\ batch' = due
  /\ timers' = timers \ due
  /\ UNCHANGED <<conn, hs, reg, events, target, rest, userRef, sock, answers>>

Fires(timer) == batch # {} /\ Firing = timer /\ rest["timer"] = "none"
-----------------------------------------------------------------------------
(***************************************************************************)
(* The connector.                                                          *)
(***************************************************************************)

\* The end of the attempt: the observer and the timers are given up, and the
\* answer is given.
Answers(answer) ==
  /\ m_observer' = FALSE
  /\ timers' = timers \ {"start", "timeout"}
  /\ answers' = Append(answers, answer)

\* OnTimer(m_timerId0): the socket is opened and registered ...
OnTimerStart ==
  /\ Fires("start") /\ m_observer
  /\ m_sockId' = TRUE /\ sock' = "open"
  /\ Added("connector", Bits, mask, reactor)
  /\ Returns("timer")
  /\ UNCHANGED <<m_enableServiceExt, m_observer, m_handshaker, hs, timers, answers>>

\* ... or one of the calls fails, and the socket, if there is one, is closed.
OnTimerStartFails(opened) ==
  /\ Fires("start") /\ m_observer
  /\ sock' = IF opened THEN "closed" ELSE "none"
  /\ Answers("error")
  /\ Then("timer", "upcall")
  /\ UNCHANGED <<m_enableServiceExt, m_sockId, m_handshaker, hs, reg>>

\* Mutant of OnTimerTimeout: the handshaker is left alone.
TimeoutForgets ==
  /\ Fires("timeout") /\ m_observer
  /\ Answers("timeout")
  /\ RemoveHandler("connector", Bits)
  /\ m_handshaker' = FALSE
  /\ Then("timer", "upcall")
  /\ UNCHANGED <<m_enableServiceExt, m_sockId, hs, sock>>

\* OnTimer(m_timerId1).
OnTimerTimeout ==
  /\ Fires("timeout") /\ m_observer
  /\ Answers("timeout")
  /\ RemoveHandler("connector", Bits)
  /\ m_handshaker' = FALSE
  /\ Then("timer", IF m_handshaker THEN "delete" ELSE "upcall")
  /\ UNCHANGED <<m_enableServiceExt, m_sockId, hs, sock>>

\* OnTimer of an attempt that has ended.
OnTimerStale ==
  /\ \/ (Fires("start") \/ Fires("timeout")) /\ ~m_observer
     \/ Fires("handshake") /\ ~hs.m_observer
  /\ Returns("timer")
  /\ UNCHANGED <<conn, hs, reg, timers, sock, answers>>

\* OnOutput without the service extension: connected.
OnOutput(r) ==
  /\ Enters(r, "connector", {"WRITE"}) /\ m_observer /\ m_sockId
  /\ ~m_enableServiceExt
  /\ RemoveHandler("connector", Bits)
  /\ m_sockId' = FALSE
  /\ Answers("ok")
  /\ Then(r, "upcall")
  /\ UNCHANGED <<m_enableServiceExt, m_handshaker, hs, sock>>

\* Mutant of OnOutputHandshake: the timers go with the socket, and the
\* handshaker's own is not armed.
HandshakeStopsTimer(r) ==
  LET cleared == Cleared("connector", Bits)
  IN
  /\ Enters(r, "connector", {"WRITE"}) /\ m_observer /\ m_sockId
  /\ m_enableServiceExt
  /\ Added("handshaker", {"READ"}, cleared.m, cleared.at)
  /\ hs' = [made |-> TRUE, m_observer |-> TRUE, m_sockId |-> TRUE,
            ref |-> TRUE, toSend |-> SendSize, toRecv |-> RecvSize]
  /\ timers' = {}
  /\ m_handshaker' = TRUE
  /\ m_sockId' = FALSE
  /\ Returns(r)
  /\ UNCHANGED <<m_enableServiceExt, m_observer, sock, answers>>

\* OnOutput with it: the socket goes to a handshaker, which reads first
\* (CProTcpHandshaker::Init).
OnOutputHandshake(r) ==
  LET cleared == Cleared("connector", Bits)
  IN
  /\ Enters(r, "connector", {"WRITE"}) /\ m_observer /\ m_sockId
  /\ m_enableServiceExt
  /\ Added("handshaker", {"READ"}, cleared.m, cleared.at)
  /\ hs' = [made |-> TRUE, m_observer |-> TRUE, m_sockId |-> TRUE,
            ref |-> TRUE, toSend |-> SendSize, toRecv |-> RecvSize]
  /\ timers' = timers \cup {"handshake"}
  /\ m_handshaker' = TRUE
  /\ m_sockId' = FALSE
  /\ Returns(r)
  /\ UNCHANGED <<m_enableServiceExt, m_observer, sock, answers>>

\* The handshaker cannot be created: its Init fails.
OnOutputFails(r) ==
  /\ Enters(r, "connector", {"WRITE"}) /\ m_observer /\ m_sockId
  /\ m_enableServiceExt
  /\ RemoveHandler("connector", Bits)
  /\ Answers("error")
  /\ Then(r, "upcall")
  /\ UNCHANGED <<m_enableServiceExt, m_sockId, m_handshaker, hs, sock>>

\* OnInput, OnException and OnError.
OnError(r) ==
  /\ Enters(r, "connector", {"READ", "EXCEPTION", "ERROR"}) /\ m_observer /\ m_sockId
  /\ Answers("error")
  /\ RemoveHandler("connector", Bits)
  /\ Then(r, "upcall")
  /\ UNCHANGED <<m_enableServiceExt, m_sockId, m_handshaker, hs, sock>>

\* An event that comes too late for its handler.
IoStale(r) ==
  /\ rest[r] = "none"
  /\ \/ target[r] = "connector" /\ ~(m_observer /\ m_sockId)
     \/ target[r] = "handshaker" /\ ~hs.m_observer
  /\ Returns(r)
  /\ UNCHANGED <<conn, hs, reg, timers, sock, answers>>

\* Mutant of OnHandshakeOk: a late socket is not closed.
HandshakeOkLeaks(t) ==
  /\ rest[t] = "ok"
  /\ IF m_observer /\ m_handshaker
       THEN /\ Answers("ok")
            /\ m_handshaker' = FALSE
            /\ Then(t, "delete")
       ELSE /\ Returns(t)
            /\ UNCHANGED <<m_observer, m_handshaker, timers, answers>>
  /\ UNCHANGED <<m_enableServiceExt, m_sockId, hs, reg, sock>>

\* The handshaker hands the socket over; the connector may have ended since.
OnHandshakeOk(t) ==
  /\ rest[t] = "ok"
  /\ IF m_observer /\ m_handshaker
       THEN /\ Answers("ok")
            /\ m_handshaker' = FALSE
            /\ Then(t, "delete")
            /\ UNCHANGED sock
       ELSE /\ sock' = "closed"
            /\ Returns(t)
            /\ UNCHANGED <<m_observer, m_handshaker, timers, answers>>
  /\ UNCHANGED <<m_enableServiceExt, m_sockId, hs, reg>>

\* Mutant of OnHandshakeError: whether the attempt has ended is not asked.
HandshakeErrorLate(t) ==
  /\ rest[t] \in {"error", "timeout"}
  /\ Answers(rest[t])
  /\ m_handshaker' = FALSE
  /\ Then(t, IF m_handshaker THEN "delete" ELSE "upcall")
  /\ UNCHANGED <<m_enableServiceExt, m_sockId, hs, reg, sock>>

OnHandshakeError(t) ==
  /\ rest[t] \in {"error", "timeout"}
  /\ IF m_observer /\ m_handshaker
       THEN /\ Answers(rest[t])
            /\ m_handshaker' = FALSE
            /\ Then(t, "delete")
       ELSE /\ Returns(t)
            /\ UNCHANGED <<m_observer, m_handshaker, timers, answers>>
  /\ UNCHANGED <<m_enableServiceExt, m_sockId, hs, reg, sock>>

\* The observer's upcall returns ...
UpcallReturns(t) ==
  /\ rest[t] = "upcall"
  /\ Returns(t)
  /\ UNCHANGED <<conn, hs, reg, timers, sock, answers>>

\* ... and the handshaker the connector has forgotten is deleted: its Fini, if
\* it is not over yet, and the release of the creator's reference.
DeleteHandshaker(t) ==
  /\ rest[t] = "delete"
  /\ hs' = [hs EXCEPT !.m_observer = FALSE, !.ref = FALSE]
  /\ timers' = timers \ {"handshake"}
  /\ IF hs.m_observer THEN RemoveHandler("handshaker", Bits) ELSE UNCHANGED reg
  /\ Returns(t)
  /\ UNCHANGED <<conn, sock, answers>>

\* ProDeleteConnector: Fini and the release of the user's reference.
DeleteConnector ==
  /\ userRef /\ rest["user"] = "none"
  /\ IF m_observer
       THEN /\ m_observer' = FALSE
            /\ timers' = timers \ {"start", "timeout"}
            /\ RemoveHandler("connector", Bits)
            /\ m_handshaker' = FALSE
       ELSE UNCHANGED <<m_observer, timers, reg, m_handshaker>>
  /\ IF m_observer /\ m_handshaker THEN Then("user", "delete") ELSE Returns("user")
  /\ UNCHANGED <<m_enableServiceExt, m_sockId, hs, sock, answers>>
-----------------------------------------------------------------------------
(***************************************************************************)
(* The handshaker.                                                         *)
(***************************************************************************)

\* It gives up; what is reported to the connector is `why'.
HandshakeFails(t, why) ==
  /\ hs' = [hs EXCEPT !.m_observer = FALSE]
  /\ timers' = timers \ {"handshake"}
  /\ RemoveHandler("handshaker", Bits)
  /\ Then(t, why)

\* OnInput: n bytes of the nonce; with the last one the handshaker turns to
\* writing.
HsInput(r, n) ==
  LET cleared == Cleared("handshaker", {"READ"})
  IN
  /\ Enters(r, "handshaker", {"READ"}) /\ hs.m_observer
  /\ n \in 1..hs.toRecv
  /\ hs' = [hs EXCEPT !.toRecv = @ - n]
  /\ IF n < hs.toRecv THEN UNCHANGED reg
     ELSE Added("handshaker", {"WRITE"}, cleared.m, cleared.at)
  /\ Returns(r)
  /\ UNCHANGED <<conn, timers, sock, answers>>

\* OnInput: nothing to receive any more, or nothing there (EWOULDBLOCK).
HsInputNothing(r) ==
  /\ Enters(r, "handshaker", {"READ"}) /\ hs.m_observer
  /\ IF hs.toRecv = 0 THEN RemoveHandler("handshaker", {"READ"}) ELSE UNCHANGED reg
  /\ Returns(r)
  /\ UNCHANGED <<conn, hs, timers, sock, answers>>

\* OnInput: end of stream or an error; AddHandler failing after the last byte is
\* the same.
HsInputFails(r) ==
  /\ Enters(r, "handshaker", {"READ"}) /\ hs.m_observer
  /\ hs.toRecv > 0
  /\ HandshakeFails(r, "error")
  /\ UNCHANGED <<conn, sock, answers>>

\* OnOutput: n bytes of the service data; when all are sent the handshake is
\* over if everything has been received, too.
HsOutput(r, n) ==
  /\ Enters(r, "handshaker", {"WRITE"}) /\ hs.m_observer
  /\ n <= hs.toSend
  /\ IF n = hs.toSend /\ hs.toRecv = 0
       THEN /\ hs' = [hs EXCEPT !.toSend = 0, !.m_observer = FALSE, !.m_sockId = FALSE]
            /\ timers' = timers \ {"handshake"}
            /\ RemoveHandler("handshaker", Bits)
            /\ Then(r, "ok")
       ELSE /\ hs' = [hs EXCEPT !.toSend = @ - n]
            /\ IF n = hs.toSend THEN RemoveHandler("handshaker", {"WRITE"})
               ELSE UNCHANGED reg
            /\ Returns(r)
            /\ UNCHANGED timers
  /\ UNCHANGED <<conn, sock, answers>>

HsOutputFails(r) ==
  /\ Enters(r, "handshaker", {"WRITE"}) /\ hs.m_observer
  /\ hs.toSend > 0
  /\ HandshakeFails(r, "error")
  /\ UNCHANGED <<conn, sock, answers>>

HsError(r) ==
  /\ Enters(r, "handshaker", {"ERROR"}) /\ hs.m_observer
  /\ HandshakeFails(r, "error")
  /\ UNCHANGED <<conn, sock, answers>>

HsTimer ==
  /\ Fires("handshake") /\ hs.m_observer
  /\ HandshakeFails("timer", "timeout")
  /\ UNCHANGED <<conn, sock, answers>>

Finishes(t) ==
  OnHandshakeOk(t) \/ OnHandshakeError(t) \/ UpcallReturns(t) \/ DeleteHandshaker(t)

Worker(r) ==
  \/ IoCollect(r) \/ IoStale(r) \/ Finishes(r)
  \/ OnOutput(r) \/ OnOutputHandshake(r) \/ OnOutputFails(r) \/ OnError(r)
  \/ \E n \in 1..RecvSize : HsInput(r, n)
  \/ HsInputNothing(r) \/ HsInputFails(r)
  \/ \E n \in 0..SendSize : HsOutput(r, n)
  \/ HsOutputFails(r) \/ HsError(r)

TimerThread ==
  \/ \E due \in SUBSET Timers : TimerCollect(due)
  \/ OnTimerStart \/ (\E opened \in BOOLEAN : OnTimerStartFails(opened))
  \/ OnTimerTimeout \/ OnTimerStale \/ HsTimer
  \/ Finishes("timer")

Next ==
  \/ \E r \in Reactors :
       \/ Worker(r)
       \/ \E h \in Handlers, ev \in SUBSET (Bits \cup {"ERROR"}) : IoWait(r, h, ev)
  \/ TimerThread
  \/ DeleteConnector \/ Finishes("user")

Spec == Init /\ [][Next]_vars

\* Threads are scheduled, timers expire and upcalls return.  Nothing is assumed
\* of the network or of the user.
FairSpec ==
  /\ Spec
  /\ WF_vars(TimerThread)
  /\ WF_vars(Finishes("user"))
  /\ \A r \in Reactors : WF_vars(Worker(r))
-----------------------------------------------------------------------------
(***************************************************************************)
(* Properties.                                                             *)
(***************************************************************************)

\* Who holds a reference to the connector and to the handshaker.
ConnectorHeld ==
  \/ userRef
  \/ mask["connector"] # {}
  \/ \E r \in Reactors : target[r] = "connector"
  \/ (timers \cup batch) \cap {"start", "timeout"} # {}
  \/ hs.m_observer
  \/ \E t \in Threads : rest[t] \in {"ok", "error", "timeout"}

HandshakerHeld ==
  \/ hs.ref
  \/ mask["handshaker"] # {}
  \/ \E r \in Reactors : target[r] = "handshaker"
  \/ "handshake" \in timers \cup batch

InHand    == {t \in Threads : rest[t] = "ok"}
Delivered == \E i \in DOMAIN answers : answers[i] = "ok"

Owners == (IF m_sockId THEN {"connector"} ELSE {})
          \cup (IF hs.m_sockId THEN {"handshaker"} ELSE {})
          \cup InHand
          \cup (IF Delivered THEN {"user of the socket"} ELSE {})

\* An open socket has exactly one owner among the connector, the handshaker, a
\* thread that carries it from one to the other, and the user it was delivered
\* to; a socket closed explicitly has none.  So it is neither leaked nor closed
\* twice, in particular when the timeout or ProDeleteConnector meets a handshake
\* that is just complete.
OneOwner == Cardinality(Owners) = IF sock = "open" THEN 1 ELSE 0

\* The attempt is answered at most once, and OnConnectOk with the service
\* extension means that both directions of the handshake are complete.
AnsweredOnce ==
  /\ Len(answers) <= 1
  /\ m_enableServiceExt /\ Delivered => hs.toSend = 0 /\ hs.toRecv = 0

\* Once an object is destroyed nobody refers to it again, whatever events and
\* timers of it other threads have collected.
NoUseAfterFree ==
  [][/\ ~ConnectorHeld => ~ConnectorHeld'
     /\ hs.made /\ ~HandshakerHeld => ~HandshakerHeld']_vars

\* Every attempt ends: with an answer, or because the user deletes it.
Ends == m_observer ~> ~m_observer

\* After ProDeleteConnector both objects are destroyed, and with them a socket
\* that was not delivered is closed.
Destroyed == ~userRef ~> (~ConnectorHeld /\ ~HandshakerHeld)
=============================================================================
