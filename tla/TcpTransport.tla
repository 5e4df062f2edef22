---------------------------- MODULE TcpTransport ----------------------------
(***************************************************************************)
(* CProTcpTransport (pro_net/pro_tcp_transport.cpp) with its send pool     *)
(* (pro_send_pool.h), between its observer and the reactors.               *)
(*                                                                         *)
(* Threads: any thread calls the transport; reactor threads deliver socket *)
(* events; a timer thread delivers heartbeats.  m_lock guards the fields,  *)
(* m_lockUpcall is held by an event from beginning to end, upcall included.*)
(* A step is a critical section of m_lock; an event that makes an upcall   *)
(* is two steps, before and after it.  What the observer does inside an    *)
(* upcall (send, suspend, delete ...) are the free calls below.            *)
(*                                                                         *)
(* CProTpReactorTask::AddHandler gives a transport to some I/O reactor and *)
(* RemoveHandler forgets it when no event is left, so a transport can move *)
(* to a second reactor while the first still holds events of it.           *)
(*                                                                         *)
(* Packets are numbered in the order they are accepted and a packet's      *)
(* number is its actionId; SendFd packets carry no actionId.               *)
(***************************************************************************)
EXTENDS Naturals, Sequences, FiniteSets

CONSTANTS
  Reactors,     \* I/O reactors (one thread each)
  NoReactor,
  Sizes,        \* sizes of packets
  PoolSize,     \* size of the receive pool
  MaxPackets,   \* bound: packets accepted
  MaxTimers     \* bound: heartbeats started

ASSUME ReactorsAssumption ==
  NoReactor \notin Reactors /\ "timer" \notin Reactors \cup {NoReactor}
ASSUME SizesAssumption ==
  Sizes \subseteq Nat \ {0} /\ PoolSize \in Nat \ {0}
  /\ MaxPackets \in Nat /\ MaxTimers \in Nat

VARIABLES
  m_recvFdMode,     \* OnInput receives descriptors, not data
  fini,             \* m_observer = NULL, m_reactorTask = NULL
  m_onWr, m_pendingWr, m_requestOnSend, m_actionId,
  m_sendPool,       \* sequence of buffers [pkt, left]
  m_sendingFd,      \* the packet whose descriptor is to be passed; 0 for -1
  m_timerId,
  m_canUpcall,
  m_lockUpcall,     \* its holder: a reactor, "timer" or NoReactor
  dataSize,         \* bytes in the receive pool
  mask, reactor,    \* where and for what the transport is registered
  peerHup,          \* the peer has hung up
  rpc, events,      \* per reactor: where its worker is and what it holds
  call,             \* per reactor: the upcall in progress
  tpc, firing,      \* timer thread: where it is, and the timer it fires
  nextTimer,
  accepted,         \* history: packets accepted, as [fd, size]
  wire,             \* history: the bytes sent, each as its packet's number
  fdsSent,          \* history: packets whose descriptor was passed, in order
  completed,        \* history: packets OnSend was called for, in order
  closed            \* history: OnClose was called

sends   == <<m_onWr, m_pendingWr, m_requestOnSend, m_actionId, m_sendPool,
             m_sendingFd>>
reg     == <<mask, reactor>>
peer    == <<m_recvFdMode, peerHup>>
locks   == <<m_lockUpcall, m_canUpcall>>
io      == <<rpc, events, call>>
timer   == <<m_timerId, tpc, firing, nextTimer>>
out     == <<accepted, wire, fdsSent, completed>>
vars    == <<fini, sends, reg, locks, dataSize, peer, io, timer, out, closed>>

Packets == 1..MaxPackets
NoCall  == [fn |-> "none", actionId |-> 0, pkt |-> 0]
Calls   == [fn : {"none", "skip", "OnRecv", "OnSend", "OnClose"},
            actionId : 0..MaxPackets, pkt : 0..MaxPackets]

TypeOK ==
  /\ m_recvFdMode \in BOOLEAN /\ fini \in BOOLEAN
  /\ m_onWr \in BOOLEAN /\ m_pendingWr \in BOOLEAN /\ m_requestOnSend \in BOOLEAN
  /\ m_actionId \in 0..MaxPackets
  /\ m_sendPool \in Seq([pkt : Packets, left : Nat])
  /\ m_sendingFd \in 0..MaxPackets
  /\ m_timerId \in 0..MaxTimers
  /\ m_canUpcall \in BOOLEAN
  /\ m_lockUpcall \in Reactors \cup {"timer", NoReactor}
  /\ dataSize \in 0..PoolSize
  /\ mask \subseteq {"READ", "WRITE"}
  /\ reactor \in Reactors \cup {NoReactor}
  /\ peerHup \in BOOLEAN
  /\ rpc \in [Reactors -> {"wait", "collect", "upcalls"}]
  /\ events \in [Reactors -> SUBSET {"ERROR", "WRITE", "READ"}]
  /\ call \in [Reactors -> Calls]
  /\ tpc \in {"idle", "fire", "upcall"}
  /\ firing \in 0..MaxTimers
  /\ nextTimer \in 1..(MaxTimers + 1)
  /\ accepted \in Seq([fd : BOOLEAN, size : Sizes])
  /\ wire \in Seq(Packets) /\ fdsSent \in Seq(Packets)
  /\ completed \in Seq(Packets)
  /\ closed \in BOOLEAN

\* The state Init leaves: registered for READ with some reactor.
Init ==
  /\ m_recvFdMode \in BOOLEAN
  /\ fini = FALSE
  /\ m_onWr = FALSE /\ m_pendingWr = FALSE /\ m_requestOnSend = FALSE
  /\ m_actionId = 0
  /\ m_sendPool = <<>> /\ m_sendingFd = 0
  /\ m_canUpcall = TRUE /\ m_lockUpcall = NoReactor
  /\ dataSize = 0
  /\ mask = {"READ"} /\ reactor \in Reactors
  /\ peerHup = FALSE
  /\ rpc = [r \in Reactors |-> "wait"]
  /\ events = [r \in Reactors |-> {}]
  /\ call = [r \in Reactors |-> NoCall]
  /\ m_timerId = 0 /\ tpc = "idle" /\ firing = 0 /\ nextTimer = 1
  /\ accepted = <<>> /\ wire = <<>> /\ fdsSent = <<>> /\ completed = <<>>
  /\ closed = FALSE
-----------------------------------------------------------------------------
(***************************************************************************)
(* CProTpReactorTask.  The least loaded I/O reactor is taken: any of them. *)
(***************************************************************************)
AddHandler(bit) ==
  /\ mask' = mask \cup {bit}
  /\ reactor' \in IF reactor = NoReactor THEN Reactors ELSE {reactor}

RemoveHandler(bits) ==
  /\ mask' = mask \ bits
  /\ reactor' = IF mask \subseteq bits THEN NoReactor ELSE reactor
-----------------------------------------------------------------------------
(***************************************************************************)
(* Calls from any thread.                                                  *)
(***************************************************************************)
StartWriting ==
  /\ m_onWr' = TRUE
  /\ IF m_onWr THEN UNCHANGED reg ELSE AddHandler("WRITE")

\* The part SendData and SendFd have in common.
Queue(fd, size) ==
  /\ ~fini /\ ~m_pendingWr
  /\ Len(accepted) < MaxPackets
  /\ StartWriting
  /\ accepted' = Append(accepted, [fd |-> fd, size |-> size])
  /\ m_sendPool' = Append(m_sendPool, [pkt |-> Len(accepted'), left |-> size])
  /\ m_pendingWr' = TRUE
  /\ m_actionId' = IF fd THEN m_actionId ELSE Len(accepted')
  /\ m_sendingFd' = IF fd THEN Len(accepted') ELSE m_sendingFd

SendData(size) ==
  /\ Queue(FALSE, size)
  /\ UNCHANGED <<fini, m_requestOnSend, locks, dataSize, peer, io, timer, wire,
                 fdsSent, completed, closed>>

SendFd(size) ==
  /\ Queue(TRUE, size)
  /\ UNCHANGED <<fini, m_requestOnSend, locks, dataSize, peer, io, timer, wire,
                 fdsSent, completed, closed>>

RequestOnSend ==
  /\ ~fini /\ ~m_requestOnSend
  /\ StartWriting
  /\ m_requestOnSend' = TRUE
  /\ UNCHANGED <<fini, m_pendingWr, m_actionId, m_sendPool, m_sendingFd, locks,
                 dataSize, peer, io, timer, out, closed>>

SuspendRecv ==
  /\ ~fini
  /\ RemoveHandler({"READ"})
  /\ UNCHANGED <<fini, sends, locks, dataSize, peer, io, timer, out, closed>>

ResumeRecv ==
  /\ ~fini
  /\ AddHandler("READ")
  /\ UNCHANGED <<fini, sends, locks, dataSize, peer, io, timer, out, closed>>

StartHeartbeat ==
  /\ ~fini
  /\ m_timerId = 0
  /\ nextTimer <= MaxTimers
  /\ m_timerId' = nextTimer
  /\ nextTimer' = nextTimer + 1
  /\ UNCHANGED <<fini, sends, reg, locks, dataSize, peer, io, tpc, firing, out,
                 closed>>

StopHeartbeat ==
  /\ ~fini
  /\ m_timerId' = 0
  /\ UNCHANGED <<fini, sends, reg, locks, dataSize, peer, io, tpc, firing,
                 nextTimer, out, closed>>

\* What Fini does, once.
Finished ==
  /\ fini' = TRUE
  /\ m_timerId' = 0
  /\ RemoveHandler({"READ", "WRITE"})

\* ProDeleteTransport calls Fini from any thread.
Fini ==
  /\ ~fini
  /\ Finished
  /\ UNCHANGED <<sends, locks, dataSize, peer, io, tpc, firing, nextTimer, out,
                 closed>>
-----------------------------------------------------------------------------
(***************************************************************************)
(* Reactor threads.                                                        *)
(***************************************************************************)

\* select/epoll_wait reports events of the socket ...
IoWait(r, ev) ==
  /\ rpc[r] = "wait"
  /\ reactor = r
  /\ ev # {} /\ ev \subseteq mask \cup {"ERROR"} \cup (IF peerHup THEN {"READ"} ELSE {})
  /\ "ERROR" \in ev => ev = {"ERROR"}
  /\ events' = [events EXCEPT ![r] = ev]
  /\ rpc' = [rpc EXCEPT ![r] = "collect"]
  /\ UNCHANGED <<fini, sends, reg, locks, dataSize, peer, call, timer, out,
                 closed>>

\* ... and the worker looks the handler up; it is not asked what it wants now.
IoCollect(r) ==
  /\ rpc[r] = "collect"
  /\ events' = [events EXCEPT ![r] = IF reactor = r THEN @ ELSE {}]
  /\ rpc' = [rpc EXCEPT ![r] = IF reactor = r THEN "upcalls" ELSE "wait"]
  /\ UNCHANGED <<fini, sends, reg, locks, dataSize, peer, call, timer, out,
                 closed>>

\* r is to deliver ev next (OnError, or OnOutput and then OnInput) and gets
\* m_lockUpcall.
Enters(r, ev) ==
  /\ rpc[r] = "upcalls" /\ call[r] = NoCall
  /\ ev \in events[r]
  /\ ev = "READ" => "WRITE" \notin events[r]
  /\ m_lockUpcall = NoReactor

\* The event is over.
Consumed(r) ==
  LET ev == IF "WRITE" \in events[r] THEN "WRITE" ELSE CHOOSE e \in events[r] : TRUE
  IN
  /\ events' = [events EXCEPT ![r] = @ \ {ev}]
  /\ rpc' = [rpc EXCEPT ![r] = IF events[r] = {ev} THEN "wait" ELSE "upcalls"]

\* An event of a finished transport is dropped.
IoDropped(r) ==
  /\ \E ev \in events[r] : Enters(r, ev)
  /\ fini
  /\ Consumed(r)
  /\ UNCHANGED <<fini, sends, reg, locks, dataSize, peer, call, timer, out,
                 closed>>

\* Mutant of Begins: OnClose leaves m_canUpcall set.
BeginsKeepsUpcall(r, fn, actionId, pkt) ==
  /\ call' = [call EXCEPT ![r] = [fn |-> IF m_canUpcall THEN fn ELSE "skip",
                                  actionId |-> actionId, pkt |-> pkt]]
  /\ m_lockUpcall' = r
  /\ closed' = (closed \/ (m_canUpcall /\ fn = "OnClose"))
  /\ completed' = IF pkt # 0 THEN Append(completed, pkt) ELSE completed
  /\ UNCHANGED <<rpc, events, m_canUpcall>>

\* if (m_canUpcall) ...: r begins an upcall and keeps m_lockUpcall.
Begins(r, fn, actionId, pkt) ==
  /\ call' = [call EXCEPT ![r] = [fn |-> IF m_canUpcall THEN fn ELSE "skip",
                                  actionId |-> actionId, pkt |-> pkt]]
  /\ m_lockUpcall' = r
  /\ m_canUpcall' = (m_canUpcall /\ fn # "OnClose")
  /\ closed' = (closed \/ (m_canUpcall /\ fn = "OnClose"))
  /\ completed' = IF pkt # 0 THEN Append(completed, pkt) ELSE completed
  /\ UNCHANGED <<rpc, events>>

\* The event ends without an upcall.
BeginsNot(r) ==
  /\ Consumed(r)
  /\ UNCHANGED <<call, locks, closed, completed>>

\* OnInputFd: a descriptor came in.
OnInputFd(r) ==
  /\ Enters(r, "READ") /\ ~fini /\ m_recvFdMode
  /\ Begins(r, "OnRecv", 0, 0)
  /\ UNCHANGED <<fini, sends, reg, dataSize, peer, timer, accepted, wire, fdsSent>>

\* OnInputData: n bytes came in.
OnInputData(r, n) ==
  /\ Enters(r, "READ") /\ ~fini /\ ~m_recvFdMode
  /\ n <= PoolSize - dataSize
  /\ dataSize' = dataSize + n
  /\ Begins(r, "OnRecv", 0, 0)
  /\ UNCHANGED <<fini, sends, reg, peer, timer, accepted, wire, fdsSent>>

\* recv: EWOULDBLOCK; recvmsg: a packet without a descriptor.
OnInputNothing(r) ==
  /\ Enters(r, "READ") /\ ~fini
  /\ dataSize < PoolSize
  /\ BeginsNot(r)
  /\ UNCHANGED <<fini, sends, reg, dataSize, peer, timer, accepted, wire,
                 fdsSent>>

\* recv: end of stream, an error, or no room left in the pool.
OnInputClose(r) ==
  /\ Enters(r, "READ") /\ ~fini
  /\ Begins(r, "OnClose", 0, 0)
  /\ UNCHANGED <<fini, sends, reg, dataSize, peer, timer, accepted, wire,
                 fdsSent>>

\* In OnRecv the observer takes bytes out of the pool.
Consume(r, n) ==
  /\ call[r].fn = "OnRecv"
  /\ n <= dataSize
  /\ dataSize' = dataSize - n
  /\ UNCHANGED <<fini, sends, reg, locks, peer, io, timer, out, closed>>

OnError(r) ==
  /\ Enters(r, "ERROR") /\ ~fini
  /\ Begins(r, "OnClose", 0, 0)
  /\ UNCHANGED <<fini, sends, reg, dataSize, peer, timer, accepted, wire,
                 fdsSent>>

\* The end of the critical section of OnOutput when nothing has failed:
\* pkt is the packet that is now complete, or 0.
Answer(r, pkt) ==
  /\ m_requestOnSend' = FALSE
  /\ IF pkt # 0 \/ m_requestOnSend
       THEN Begins(r, "OnSend", IF pkt # 0 THEN m_actionId ELSE 0, pkt)
       ELSE BeginsNot(r)

\* Nothing was sent: the pool is empty, or the socket is full.  OnOutput returns
\* early when the pool is empty and nobody has asked for OnSend; WriteWatched
\* says that it never finds that.
OnOutputRequested(r) ==
  /\ Enters(r, "WRITE") /\ ~fini
  /\ m_sendPool = <<>> => m_requestOnSend
  /\ m_sendPool # <<>> => m_sendingFd = 0
  /\ m_pendingWr' = (m_sendPool # <<>> /\ m_pendingWr)
  /\ Answer(r, 0)
  /\ UNCHANGED <<fini, m_onWr, m_actionId, m_sendPool, m_sendingFd, reg, dataSize,
                 peer, timer, accepted, wire, fdsSent>>

\* Mutants of OnOutputSend: the actionId stays; a partly sent packet starts again.
SendKeepsActionId(r, n) ==
  LET buf  == Head(m_sendPool)
      done == n = buf.left
  IN
  /\ Enters(r, "WRITE") /\ ~fini /\ m_sendPool # <<>> /\ m_sendingFd = 0
  /\ n <= buf.left
  /\ wire' = wire \o [i \in 1..n |-> buf.pkt]
  /\ m_sendPool' = IF done THEN Tail(m_sendPool)
                   ELSE <<[buf EXCEPT !.left = @ - n]>> \o Tail(m_sendPool)
  /\ m_pendingWr' = (m_pendingWr /\ ~done)
  /\ Answer(r, IF done THEN buf.pkt ELSE 0)
  /\ UNCHANGED <<fini, m_onWr, m_actionId, m_sendingFd, reg, dataSize, peer,
                 timer, accepted, fdsSent>>

SendRestarts(r, n) ==
  LET buf  == Head(m_sendPool)
      done == n = buf.left
  IN
  /\ Enters(r, "WRITE") /\ ~fini /\ m_sendPool # <<>> /\ m_sendingFd = 0
  /\ n <= buf.left
  /\ wire' = wire \o [i \in 1..n |-> buf.pkt]
  /\ m_sendPool' = IF done THEN Tail(m_sendPool) ELSE m_sendPool
  /\ m_pendingWr' = (m_pendingWr /\ ~done)
  /\ m_actionId' = IF done THEN 0 ELSE m_actionId
  /\ Answer(r, IF done THEN buf.pkt ELSE 0)
  /\ UNCHANGED <<fini, m_onWr, m_sendingFd, reg, dataSize, peer, timer, accepted,
                 fdsSent>>

\* send() takes n bytes; a packet that is complete leaves the pool.
OnOutputSend(r, n) ==
  LET buf  == Head(m_sendPool)
      done == n = buf.left
  IN
  /\ Enters(r, "WRITE") /\ ~fini
  /\ m_sendPool # <<>> /\ m_sendingFd = 0
  /\ n <= buf.left
  /\ wire' = wire \o [i \in 1..n |-> buf.pkt]
  /\ m_sendPool' = IF done THEN Tail(m_sendPool)
                   ELSE <<[buf EXCEPT !.left = @ - n]>> \o Tail(m_sendPool)
  /\ m_pendingWr' = (m_pendingWr /\ ~done)
  /\ m_actionId' = IF done THEN 0 ELSE m_actionId
  /\ Answer(r, IF done THEN buf.pkt ELSE 0)
  /\ UNCHANGED <<fini, m_onWr, m_sendingFd, reg, dataSize, peer, timer, accepted,
                 fdsSent>>

\* sendmsg() passes the descriptor with the packet, but leaves the packet in
\* the pool: it goes out a second time, without the descriptor.
OnOutputFd(r) ==
  LET buf == Head(m_sendPool)
  IN
  /\ Enters(r, "WRITE") /\ ~fini
  /\ m_sendPool # <<>> /\ m_sendingFd # 0
  /\ wire' = wire \o [i \in 1..buf.left |-> buf.pkt]
  /\ fdsSent' = Append(fdsSent, m_sendingFd)
  /\ m_sendingFd' = 0
  /\ Answer(r, 0)
  /\ UNCHANGED <<fini, m_onWr, m_pendingWr, m_actionId, m_sendPool, reg, dataSize,
                 peer, timer, accepted>>

\* send() or sendmsg() fails (a sendmsg that would block is a failure, too).
OnOutputClose(r) ==
  /\ Enters(r, "WRITE") /\ ~fini
  /\ m_sendPool # <<>>
  /\ m_sendingFd' = 0
  /\ m_requestOnSend' = FALSE
  /\ Begins(r, "OnClose", 0, 0)
  /\ UNCHANGED <<fini, m_onWr, m_pendingWr, m_actionId, m_sendPool, reg, dataSize,
                 peer, timer, accepted, wire, fdsSent>>

\* Mutant of IoReturn: WRITE is dropped whatever came in during OnSend.
ReturnStopsWriting(r) ==
  /\ call[r] # NoCall
  /\ call' = [call EXCEPT ![r] = NoCall]
  /\ m_lockUpcall' = NoReactor
  /\ Consumed(r)
  /\ IF ~m_canUpcall /\ ~fini
       THEN Finished /\ UNCHANGED m_onWr
       ELSE /\ UNCHANGED <<fini, m_timerId>>
            /\ IF call[r].fn = "OnSend" /\ ~fini /\ m_onWr
                 THEN m_onWr' = FALSE /\ RemoveHandler({"WRITE"})
                 ELSE UNCHANGED <<m_onWr, reg>>
  /\ UNCHANGED <<m_pendingWr, m_requestOnSend, m_actionId, m_sendPool, m_sendingFd,
                 m_canUpcall, dataSize, peer, tpc, firing, nextTimer, out,
                 closed>>

\* The upcall returns.  After OnSend, WRITE is dropped if nobody needs it any
\* more; after OnClose, Fini.
IoReturn(r) ==
  /\ call[r] # NoCall
  /\ call' = [call EXCEPT ![r] = NoCall]
  /\ m_lockUpcall' = NoReactor
  /\ Consumed(r)
  /\ IF ~m_canUpcall /\ ~fini
       THEN Finished /\ UNCHANGED m_onWr
       ELSE /\ UNCHANGED <<fini, m_timerId>>
            /\ IF call[r].fn = "OnSend" /\ ~fini
                  /\ m_onWr /\ ~m_pendingWr /\ ~m_requestOnSend
                 THEN m_onWr' = FALSE /\ RemoveHandler({"WRITE"})
                 ELSE UNCHANGED <<m_onWr, reg>>
  /\ UNCHANGED <<m_pendingWr, m_requestOnSend, m_actionId, m_sendPool, m_sendingFd,
                 m_canUpcall, dataSize, peer, tpc, firing, nextTimer, out,
                 closed>>
-----------------------------------------------------------------------------
(***************************************************************************)
(* The timer thread.                                                       *)
(***************************************************************************)

\* The timer factory collects the timer; it may be cancelled after that.
TimerFires ==
  /\ tpc = "idle"
  /\ m_timerId # 0
  /\ firing' = m_timerId
  /\ tpc' = "fire"
  /\ UNCHANGED <<fini, sends, reg, locks, dataSize, peer, io, m_timerId,
                 nextTimer, out, closed>>

\* OnTimer: a stale timer is dropped, otherwise OnHeartbeat is called.
OnTimer ==
  /\ tpc = "fire"
  /\ m_lockUpcall = NoReactor
  /\ IF fini \/ firing # m_timerId \/ ~m_canUpcall
       THEN tpc' = "idle" /\ firing' = 0 /\ UNCHANGED m_lockUpcall
       ELSE tpc' = "upcall" /\ m_lockUpcall' = "timer" /\ UNCHANGED firing
  /\ UNCHANGED <<fini, sends, reg, m_canUpcall, dataSize, peer, io, m_timerId,
                 nextTimer, out, closed>>

TimerReturn ==
  /\ tpc = "upcall"
  /\ tpc' = "idle" /\ firing' = 0
  /\ m_lockUpcall' = NoReactor
  /\ UNCHANGED <<fini, sends, reg, m_canUpcall, dataSize, peer, io, m_timerId,
                 nextTimer, out, closed>>

PeerHangsUp ==
  /\ ~peerHup
  /\ peerHup' = TRUE
  /\ UNCHANGED <<m_recvFdMode, fini, sends, reg, locks, dataSize, io, timer, out, closed>>

Io(r) ==
  \/ IoCollect(r) \/ IoDropped(r) \/ IoReturn(r)
  \/ OnError(r) \/ OnInputNothing(r) \/ OnInputClose(r)
  \/ OnInputFd(r) \/ \E n \in 1..PoolSize : OnInputData(r, n)
  \/ OnOutputRequested(r) \/ OnOutputFd(r) \/ OnOutputClose(r)
  \/ \E size \in Sizes : \E n \in 1..size : OnOutputSend(r, n)

TimerThread == OnTimer \/ TimerReturn

Next ==
  \/ \E size \in Sizes : SendData(size) \/ SendFd(size)
  \/ RequestOnSend \/ SuspendRecv \/ ResumeRecv
  \/ StartHeartbeat \/ StopHeartbeat \/ Fini
  \/ \E r \in Reactors :
       \/ Io(r)
       \/ \E ev \in SUBSET {"ERROR", "WRITE", "READ"} : IoWait(r, ev)
       \/ \E n \in 1..PoolSize : Consume(r, n)
  \/ TimerFires \/ TimerThread \/ PeerHangsUp

Spec == Init /\ [][Next]_vars
-----------------------------------------------------------------------------
(***************************************************************************)
(* Properties.                                                             *)
(***************************************************************************)

\* As long as the transport is in use, WRITE is registered exactly when m_onWr
\* says so, and it is whenever a packet or a request for OnSend waits: a call
\* made while OnSend is running is not forgotten when OnSend returns.  And a
\* reactor that delivers WRITE finds a packet or a request, even if the transport
\* has been with another reactor since it collected the event.
WriteWatched ==
  ~fini => /\ m_onWr <=> "WRITE" \in mask
           /\ m_pendingWr \/ m_requestOnSend => m_onWr
           /\ \A r \in Reactors :
                Enters(r, "WRITE") => m_sendPool # <<>> \/ m_requestOnSend

Bytes(p) == Cardinality({i \in DOMAIN wire : wire[i] = p})
Left(p)  == IF m_sendPool # <<>> /\ Head(m_sendPool).pkt = p
              THEN Head(m_sendPool).left ELSE 0
Passed(p) == \E i \in DOMAIN fdsSent : fdsSent[i] = p

\* The socket got the accepted packets, whole, one after the other and without
\* a byte repeated, however send() cut them; only a packet with a descriptor
\* is sent twice, first with the descriptor, which goes once.
WireExact ==
  /\ \A i, j \in DOMAIN wire : i <= j => wire[i] <= wire[j]
  /\ \A p \in 1..Len(accepted) :
       Bytes(p) = (accepted[p].size - Left(p))
                  + (IF Passed(p) THEN accepted[p].size ELSE 0)
  /\ \A i, j \in DOMAIN fdsSent : fdsSent[i] = fdsSent[j] => i = j

\* OnSend is called once for each packet, in the order of SendData and SendFd,
\* with the packet's own actionId, although the next SendData may come before
\* the upcall; a descriptor has been passed by then.
CompletionsMatch ==
  /\ \A i \in DOMAIN completed :
       completed[i] = i /\ (accepted[i].fd => Passed(i))
  /\ \A r \in Reactors :
       call[r].fn = "OnSend" =>
         call[r].actionId = IF call[r].pkt = 0 \/ accepted[call[r].pkt].fd
                              THEN 0 ELSE call[r].pkt

\* An event or a heartbeat that looks at the transport after OnClose was called
\* or after Fini does not lead to an upcall, although reactors and the timer
\* thread still hold events of the transport; so OnClose is the last upcall and
\* comes once.  An event that looked before Fini may still be on its way.
NothingAfterClose ==
  [][closed \/ fini =>
       /\ \A r \in Reactors : call'[r] \in {call[r], NoCall} \/ call'[r].fn = "skip"
       /\ tpc' = "upcall" => tpc = "upcall"]_vars
=============================================================================
