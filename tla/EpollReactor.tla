---------------------------- MODULE EpollReactor ----------------------------
(***************************************************************************)
(* CProEpollReactor and CProHandlerMgr (pro_net/pro_epoll_reactor.cpp,     *)
(* pro_handler_mgr.cpp): which handler is told about the events of which   *)
(* socket.                                                                 *)
(*                                                                         *)
(* Any thread may add and remove handlers; one worker waits for events,    *)
(* looks their handlers up under m_lock, takes a reference per upcall and  *)
(* makes the upcalls without the lock.  A handler closes its socket in its *)
(* destructor, which runs when its last reference goes; the number of the  *)
(* socket may then be used again while the worker still holds old events.  *)
(*                                                                         *)
(* Every critical section of m_lock is one step.  Upcalls call back into   *)
(* AddHandler, RemoveHandler and so on; those calls are the free actions   *)
(* below, which may happen at any time while the upcall's reference is     *)
(* held.  Waking the worker is the subject of module NotifyPipe.           *)
(***************************************************************************)
EXTENDS Naturals, FiniteSets

CONSTANTS
  Handlers,   \* event handlers that own a socket: transports, connectors, ...
  Reactor,    \* the reactor itself, handler of its notify pipe
  Sockets,    \* socket numbers
  None,       \* no handler, no socket
  Requests,   \* the masks passed to AddHandler and RemoveHandler
  Reports     \* what epoll_wait may report of one socket

ASSUME NamesAssumption ==
  /\ Sockets \subseteq Nat /\ IsFiniteSet(Sockets)
  /\ None \notin Handlers \cup Sockets \cup {Reactor}
  /\ Reactor \notin Handlers
ASSUME RequestsAssumption ==
  Requests \subseteq
    (SUBSET {"ACCEPT", "CONNECT", "WRITE", "READ", "EXCEPTION"}) \ {{}}
ASSUME ReportsAssumption ==
  Reports \subseteq SUBSET {"WRITE", "READ", "EXCEPTION", "HUP", "ERR"}

VARIABLES
  m_epfd,         \* TRUE iff Init has succeeded and ~CProEpollReactor not run
  m_wantExit,
  m_notifyPipe,   \* the reader socket of the pipe
  handler, mask,  \* m_handlerMgr: PRO_HANDLER_INFO of each socket
  interest,       \* the kernel's epoll set
  sock,           \* handler -> the socket it owns
  owned,          \* handlers their creator has not released
  refs,           \* reference counts
  events,         \* worker: what epoll_wait returned
  handlers,       \* worker: the upcalls to make
  wpc             \* worker: where it is in WorkerRun

mgr   == <<handler, mask>>
life  == <<m_epfd, m_wantExit, m_notifyPipe>>
objs  == <<sock, owned, refs>>
work  == <<events, handlers, wpc>>
vars  == <<mgr, life, interest, objs, work>>

Bits     == {"WRITE", "READ", "EXCEPTION"}
Everyone == Handlers \cup {Reactor}

\* An upcall the worker owes: the socket, the handler found for it, the event.
Upcalls == Sockets \X Everyone \X (Bits \cup {"ERROR"})

TypeOK ==
  /\ m_epfd \in BOOLEAN /\ m_wantExit \in BOOLEAN
  /\ m_notifyPipe \in Sockets \cup {None}
  /\ handler \in [Sockets -> Everyone \cup {None}]
  /\ mask \in [Sockets -> SUBSET Bits]
  /\ interest \in [Sockets -> SUBSET Bits]
  /\ sock \in [Handlers -> Sockets \cup {None}]
  /\ owned \subseteq Handlers
  /\ refs \in [Everyone -> Nat]
  /\ events \in [Sockets -> SUBSET (Bits \cup {"HUP", "ERR"})]
  /\ handlers \subseteq Upcalls
  /\ wpc \in {"off", "loop", "wait", "collect", "upcall"}

Init ==
  /\ m_epfd = FALSE /\ m_wantExit = FALSE
  /\ m_notifyPipe = None
  /\ handler = [s \in Sockets |-> None]
  /\ mask = [s \in Sockets |-> {}]
  /\ interest = [s \in Sockets |-> {}]
  /\ sock = [h \in Handlers |-> None]
  /\ owned = {}
  /\ refs = [h \in Everyone |-> IF h = Reactor THEN 1 ELSE 0]
  /\ events = [s \in Sockets |-> {}]
  /\ handlers = {}
  /\ wpc = "off"
-----------------------------------------------------------------------------
Free(s) == s # m_notifyPipe /\ \A h \in Handlers : sock[h] # s

\* ACCEPT is READ; CONNECT is all three.
Expanded(m) ==
  (m \cap Bits) \cup (IF "ACCEPT" \in m THEN {"READ"} ELSE {})
                \cup (IF "CONNECT" \in m THEN Bits ELSE {})

\* Release of n references of h.  The last one destroys h, and its destructor
\* closes the socket it owns, which also takes it out of the epoll set.
Release(h, n) ==
  /\ refs' = [refs EXCEPT ![h] = @ - n]
  /\ sock' = [g \in Handlers |-> IF g = h /\ refs[h] = n THEN None ELSE sock[g]]

Closed(h, n, int) ==
  [s \in Sockets |-> IF h \in Handlers /\ sock[h] = s /\ refs[h] = n THEN {}
                     ELSE int[s]]
-----------------------------------------------------------------------------
(***************************************************************************)
(* The reactor's life.                                                     *)
(***************************************************************************)

\* CProEpollReactor::Init; on any failure it leaves m_epfd at -1.  The thread
\* of the reactor task then enters WorkerRun.
InitReactor(s) ==
  /\ ~m_epfd /\ ~m_wantExit
  /\ Free(s)
  /\ m_epfd' = TRUE
  /\ m_notifyPipe' = s
  /\ interest' = [interest EXCEPT ![s] = {"READ"}]
  /\ handler' = [handler EXCEPT ![s] = Reactor]
  /\ mask' = [mask EXCEPT ![s] = {"READ"}]
  /\ refs' = [refs EXCEPT ![Reactor] = @ + 1]
  /\ wpc' = "loop"
  /\ UNCHANGED <<m_wantExit, sock, owned, events, handlers>>

Fini ==
  /\ m_epfd
  /\ m_wantExit' = TRUE
  /\ UNCHANGED <<mgr, m_epfd, m_notifyPipe, interest, objs, work>>

\* ~CProEpollReactor (called once the worker has ended) with ~CProHandlerMgr:
\* whatever is still registered leaves the epoll set and loses its reference.
DeleteReactor ==
  LET last(h) == refs[h] = 1 /\ sock[h] # None /\ handler[sock[h]] = h
  IN
  /\ m_epfd /\ m_wantExit /\ wpc = "off"
  /\ m_epfd' = FALSE
  /\ m_notifyPipe' = None
  /\ interest' = [s \in Sockets |-> {}]
  /\ handler' = [s \in Sockets |-> None]
  /\ mask' = [s \in Sockets |-> {}]
  /\ refs' = [h \in Everyone |->
                refs[h] - Cardinality({s \in Sockets : handler[s] = h})]
  /\ sock' = [h \in Handlers |-> IF last(h) THEN None ELSE sock[h]]
  /\ UNCHANGED <<m_wantExit, owned, work>>
-----------------------------------------------------------------------------
(***************************************************************************)
(* Handlers, their owners and their sockets.                               *)
(***************************************************************************)

\* A new handler with a new socket (socket(), accept()).
Create(h, s) ==
  /\ refs[h] = 0
  /\ Free(s)
  /\ \A u \in handlers : u[2] # h
  /\ sock' = [sock EXCEPT ![h] = s]
  /\ owned' = owned \cup {h}
  /\ refs' = [refs EXCEPT ![h] = 1]
  /\ UNCHANGED <<mgr, life, interest, work>>

\* "cut, change its owner": an unregistered handler passes its socket on to a
\* new one (connector to handshaker to transport).
HandOver(h, g) ==
  /\ refs[h] > 0 /\ sock[h] # None /\ handler[sock[h]] # h
  /\ refs[g] = 0
  /\ sock' = [sock EXCEPT ![h] = None, ![g] = sock[h]]
  /\ owned' = owned \cup {g}
  /\ refs' = [refs EXCEPT ![g] = 1]
  /\ UNCHANGED <<mgr, life, interest, work>>

\* The owner gives up its reference.  It has called the handler's Fini, so the
\* handler is not registered.
Disown(h) ==
  /\ h \in owned
  /\ \A s \in Sockets : handler[s] # h
  /\ owned' = owned \ {h}
  /\ Release(h, 1)
  /\ interest' = Closed(h, 1, interest)
  /\ UNCHANGED <<mgr, life, work>>

\* AddHandler when it changes something.  It returns false and changes nothing
\* when epoll_ctl fails, when another handler is registered, and after Fini.
AddHandler(h, m) ==
  LET s   == sock[h]
      new == Expanded(m) \ mask[s]
  IN
  /\ h \in owned /\ s # None
  /\ m_epfd /\ ~m_wantExit
  /\ handler[s] \in {None, h}
  /\ new # {}
  /\ interest' = [interest EXCEPT ![s] = mask[s] \cup new]
  /\ handler' = [handler EXCEPT ![s] = h]
  /\ mask' = [mask EXCEPT ![s] = @ \cup new]
  /\ refs' = [refs EXCEPT ![h] = IF handler[s] = None THEN @ + 1 ELSE @]
  /\ UNCHANGED <<life, sock, owned, work>>

\* Mutant of RemoveHandler: EPOLL_CTL_DEL whatever remains.
RemoveHandlerDel(h, m) ==
  LET s    == sock[h]
      gone == Expanded(m) \cap mask[s]
      left == mask[s] \ gone
  IN
  /\ refs[h] > 0 /\ s # None /\ m_epfd /\ handler[s] = h /\ gone # {}
  /\ mask' = [mask EXCEPT ![s] = left]
  /\ handler' = [handler EXCEPT ![s] = IF left = {} THEN None ELSE h]
  /\ interest' = [interest EXCEPT ![s] = {}]
  /\ IF left = {} THEN Release(h, 1) ELSE UNCHANGED <<refs, sock>>
  /\ UNCHANGED <<life, owned, work>>

\* RemoveHandler when it changes something; it still works after Fini.
RemoveHandler(h, m) ==
  LET s    == sock[h]
      gone == Expanded(m) \cap mask[s]
      left == mask[s] \ gone
      int  == [interest EXCEPT ![s] = left]
  IN
  /\ refs[h] > 0 /\ s # None
  /\ m_epfd
  /\ handler[s] = h
  /\ gone # {}
  /\ mask' = [mask EXCEPT ![s] = left]
  /\ handler' = [handler EXCEPT ![s] = IF left = {} THEN None ELSE h]
  /\ IF left = {}
       THEN Release(h, 1) /\ interest' = Closed(h, 1, int)
       ELSE interest' = int /\ UNCHANGED <<refs, sock>>
  /\ UNCHANGED <<life, owned, work>>
-----------------------------------------------------------------------------
(***************************************************************************)
(* WorkerRun.                                                              *)
(***************************************************************************)
WorkerLoop ==
  /\ wpc = "loop"
  /\ wpc' = IF ~m_epfd \/ m_wantExit THEN "off" ELSE "wait"
  /\ UNCHANGED <<mgr, life, interest, objs, events, handlers>>

\* epoll_wait reports errors and hang-ups whether asked for or not; a failure
\* (retc <= 0) leads back to the top of the loop.
EpollWait(ev) ==
  /\ wpc = "wait"
  /\ \A s \in Sockets :
       ev[s] # {} => interest[s] # {} /\ ev[s] \subseteq interest[s] \cup {"HUP", "ERR"}
  /\ events' = ev
  /\ wpc' = IF \A s \in Sockets : ev[s] = {} THEN "loop" ELSE "collect"
  /\ UNCHANGED <<mgr, life, interest, objs, handlers>>

\* What the events of one socket are to its handler: an error, or the rest.
Due(ev) ==
  IF "ERR" \in ev THEN {"ERROR"}
  ELSE (ev \cap Bits) \cup (IF "HUP" \in ev THEN {"READ"} ELSE {})

\* Mutant of WorkerCollect: one reference per socket instead of per event.
CollectOneRef ==
  LET found == {s \in Sockets : events[s] # {} /\ handler[s] # None}
      calls == UNION {{<<s, handler[s], b>> : b \in Due(events[s])} : s \in found}
  IN
  /\ wpc = "collect" /\ m_epfd /\ ~m_wantExit
  /\ handlers' = calls
  /\ refs' = [h \in Everyone |->
                refs[h] + Cardinality({s \in found : handler[s] = h})]
  /\ events' = [s \in Sockets |-> {}]
  /\ wpc' = IF calls = {} THEN "loop" ELSE "upcall"
  /\ UNCHANGED <<mgr, life, interest, sock, owned>>

\* Under m_lock: the handler registered NOW for each reported socket, and one
\* AddRef for each upcall.  The registered mask is not looked at.
WorkerCollect ==
  LET found == {s \in Sockets : events[s] # {} /\ handler[s] # None}
      calls == UNION {{<<s, handler[s], b>> : b \in Due(events[s])} : s \in found}
  IN
  /\ wpc = "collect"
  /\ m_epfd /\ ~m_wantExit
  /\ handlers' = calls
  /\ refs' = [h \in Everyone |-> refs[h] + Cardinality({u \in calls : u[2] = h})]
  /\ events' = [s \in Sockets |-> {}]
  /\ wpc' = IF calls = {} THEN "loop" ELSE "upcall"
  /\ UNCHANGED <<mgr, life, interest, sock, owned>>

\* The exit of the same critical section.
WorkerLeave ==
  /\ wpc = "collect"
  /\ ~m_epfd \/ m_wantExit
  /\ events' = [s \in Sockets |-> {}]
  /\ wpc' = "off"
  /\ UNCHANGED <<mgr, life, interest, objs, handlers>>

Rank(b) == CASE b = "ERROR" -> 0 [] b = "WRITE" -> 1 [] b = "READ" -> 2
             [] b = "EXCEPTION" -> 3

\* The next upcall: by socket number, then OnError or OnOutput, OnInput,
\* OnException.
IsNext(u) ==
  \A v \in handlers \ {u} :
    u[1] < v[1] \/ (u[1] = v[1] /\ Rank(u[3]) < Rank(v[3]))

UpcallDone(u) ==
  /\ handlers' = handlers \ {u}
  /\ wpc' = IF handlers = {u} THEN "loop" ELSE "upcall"

\* An upcall on a handler is over; its reference goes.
Upcall(u) ==
  /\ wpc = "upcall"
  /\ u \in handlers /\ IsNext(u)
  /\ u[2] # Reactor
  /\ UpcallDone(u)
  /\ Release(u[2], 1)
  /\ interest' = Closed(u[2], 1, interest)
  /\ UNCHANGED <<mgr, life, owned, events>>

\* The pipe is read (OnInput), or OnError has nothing to do or cannot get
\* a new pipe.
PipeUpcall(u) ==
  /\ wpc = "upcall"
  /\ u \in handlers /\ IsNext(u)
  /\ u[2] = Reactor
  /\ UpcallDone(u)
  /\ refs' = [refs EXCEPT ![Reactor] = @ - 1]
  /\ UNCHANGED <<mgr, life, interest, sock, owned, events>>

\* Mutant of PipeRebuild: the new pipe is not put into the epoll set.
RebuildUnwatched(u, s) ==
  /\ wpc = "upcall" /\ u \in handlers /\ IsNext(u)
  /\ u[2] = Reactor /\ u[1] = m_notifyPipe /\ ~m_wantExit /\ Free(s)
  /\ interest' = [interest EXCEPT ![u[1]] = {}]
  /\ handler' = [handler EXCEPT ![s] = Reactor, ![u[1]] = None]
  /\ mask' = [mask EXCEPT ![s] = {"READ"}, ![u[1]] = {}]
  /\ m_notifyPipe' = s
  /\ UpcallDone(u)
  /\ refs' = [refs EXCEPT ![Reactor] = @ - 1]
  /\ UNCHANGED <<m_epfd, m_wantExit, sock, owned, events>>

\* OnError of the pipe, also reached from OnInput when recv fails: a new pipe
\* is registered, then the old one is unregistered and deleted.
PipeRebuild(u, s) ==
  /\ wpc = "upcall"
  /\ u \in handlers /\ IsNext(u)
  /\ u[2] = Reactor
  /\ u[1] = m_notifyPipe
  /\ m_epfd /\ ~m_wantExit
  /\ Free(s)
  /\ interest' = [interest EXCEPT ![s] = {"READ"}, ![u[1]] = {}]
  /\ handler' = [handler EXCEPT ![s] = Reactor, ![u[1]] = None]
  /\ mask' = [mask EXCEPT ![s] = {"READ"}, ![u[1]] = {}]
  /\ m_notifyPipe' = s
  /\ UpcallDone(u)
  /\ refs' = [refs EXCEPT ![Reactor] = @ - 1]
  /\ UNCHANGED <<m_epfd, m_wantExit, sock, owned, events>>

Next ==
  \/ Fini \/ DeleteReactor
  \/ WorkerLoop \/ WorkerCollect \/ WorkerLeave
  \/ \E s \in Sockets : InitReactor(s)
  \/ \E h \in Handlers, s \in Sockets : Create(h, s)
  \/ \E h, g \in Handlers : HandOver(h, g)
  \/ \E h \in Handlers : Disown(h)
  \/ \E h \in Handlers, m \in Requests : AddHandler(h, m) \/ RemoveHandler(h, m)
  \/ \E ev \in [Sockets -> Reports] : EpollWait(ev)
  \/ \E u \in handlers : Upcall(u) \/ PipeUpcall(u)
  \/ \E u \in handlers, s \in Sockets : PipeRebuild(u, s)

Spec == Init /\ [][Next]_vars
-----------------------------------------------------------------------------
(***************************************************************************)
(* Properties.                                                             *)
(***************************************************************************)

\* A registered handler is alive and owns the open socket it is registered
\* for, and the kernel watches that socket for exactly the events it has asked
\* for, whatever was added, removed, rebuilt or closed: an event is neither lost
\* nor reported for ever to nobody, and when a socket number is used again
\* nothing is registered for it.  The reactor watches the pipe that Notify
\* writes to, also a rebuilt one.
RegisteredOwnsSocket ==
  \A s \in Sockets :
    /\ interest[s] = mask[s]
    /\ mask[s] = {} <=> handler[s] = None
    /\ handler[s] \in Handlers => sock[handler[s]] = s /\ refs[handler[s]] > 0
    /\ handler[s] = Reactor => s = m_notifyPipe
    /\ m_epfd /\ s = m_notifyPipe => handler[s] = Reactor /\ "READ" \in mask[s]

\* A handler's count is what its owner, the manager and the upcalls to come
\* hold: no upcall reaches a destroyed handler, even if it was unregistered and
\* disowned after its events were collected, and none is kept alive for ever.
RefsExact ==
  \A h \in Everyone :
    refs[h] = (IF h \in owned \cup {Reactor} THEN 1 ELSE 0)
              + Cardinality({s \in Sockets : handler[s] = h})
              + Cardinality({u \in handlers : u[2] = h})
=============================================================================
