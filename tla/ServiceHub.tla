----------------------------- MODULE ServiceHub -----------------------------
(***************************************************************************)
(* One port for several services (pro_net.h, Fig. 3): an acceptor          *)
(* (pro_net/pro_acceptor.cpp) and a hub (pro_service_hub.cpp) in one       *)
(* process; in others a host for each service (pro_service_host.cpp) under *)
(* a CRtpService (pro_rtp/rtp_service.cpp), connected to the hub by a pipe *)
(* (pro_service_pipe.cpp).  A client says which service it wants; the hub  *)
(* passes its socket through the pipe, keeps its own descriptor until the  *)
(* host has acknowledged the socket, and closes it after SOCK_TIMEOUT if   *)
(* no acknowledgement comes.                                               *)
(*                                                                         *)
(* Sockets are named by the connection, k.  In the hub's process they also *)
(* have a descriptor, a number the kernel uses again once it is closed:    *)
(* the hub's packets name the number, and sendmsg takes whatever socket    *)
(* has it at that moment.                                                  *)
(*                                                                         *)
(* Upcalls come from several reactor threads; every handler decides under  *)
(* its object's m_lock and calls its observer after the unlock.  A socket  *)
(* on its way between two objects is in `carried', `out' or `got'.  The    *)
(* hub's OnTimer and Fini forget pipes under the lock and delete them      *)
(* after it: what such a thread still has to do is in `timerPipes',        *)
(* `finiSocks' and `finiPipes', and the transports of these pipes go on.   *)
(***************************************************************************)
EXTENDS Naturals, Sequences, FiniteSets, FiniteSetsExt, SequencesExt

CONSTANTS
  Services,        \* the service ids; each has one host
  Hub,             \* the hub's process
  Stops,           \* bound: the processes that may finish
  MaxConns,        \* bound: connections made in one behaviour
  MaxFds,          \* descriptors the hub's process can have
  Length           \* PRO_ACCEPTOR_LENGTH, MAX_PENDING_COUNT of CRtpService

ASSUME HubAssumption ==
  /\ Hub \notin Services /\ Stops \subseteq Services \cup {Hub} /\ MaxConns \in Nat
  /\ MaxFds \in Nat \ {0} /\ Length \in Nat \ {0}

Conns == 1..MaxConns
Fds   == 1..MaxFds
Procs == Services \cup {Hub}

VARIABLES
  conns,             \* the connections made: [ipc, id]
  fd,                \* number -> the connection it stands for, or 0
  sockId,            \* connection -> its number in the hub's process
  hs,                \* per process: handshakers and what comes of them
  up,                \* the processes whose acceptor or CRtpService is not finished
  m_acceptor,        \* the hub is not finished
  m_expireSocks,     \* the hub: sockets sent and not acknowledged, by expireTick
  m_allPipes,        \* the hub: pipe -> [pending, serviceId]
  m_serviceId2Pipe,  \* the hub: service -> pipe
  timerPipes,        \* OnTimer, after the unlock: `pipes', to be deleted
  finiSocks,         \* Fini, after the unlock: `expireSocks', to be closed
  finiPipes,         \* Fini, after the unlock: `allPipes', to be deleted
  m_fdPackets,       \* pipe: packets that wait for the transport
  sending,           \* pipe: the packet of the transport, or the copy it leaves
  down,              \* pipe: packets on their way to the host, with sockets
  acks,              \* pipe: packets on their way to the hub
  m_host,            \* the hosts that are not finished
  m_connector,       \* host -> connection being made, or 0
  m_pipe,            \* host -> its pipe, or 0
  got,               \* host: sockets in OnRecvFd, after the check
  open,              \* host -> the sockets its process has
  late               \* history: a number was closed while its packet was under way

leftVars == <<timerPipes, finiSocks, finiPipes>>
hubVars  == <<m_acceptor, m_expireSocks, m_allPipes, m_serviceId2Pipe, leftVars>>
pipeVars == <<m_fdPackets, sending, down, acks>>
hostVars == <<m_host, m_connector, m_pipe, got>>
sockVars == <<conns, fd, sockId, open>>
vars     == <<sockVars, hs, up, hubVars, pipeVars, hostVars, late>>

NoSock == [sockId |-> 0, conn |-> 0]
Socks  == [sockId : Fds, conn : Conns]     \* PRO_SERVICE_SOCK; conn is its tick

\* Packets with a descriptor, and what is left of one when it has been passed.
Packets == [sock : Socks, id : Services]
Copy    == [sock |-> NoSock, id |-> 0]

TypeOK ==
  /\ conns \in Seq([ipc : BOOLEAN, id : Services]) /\ Len(conns) <= MaxConns
  /\ fd \in [Fds -> 0..MaxConns] /\ sockId \in [Conns -> 0..MaxFds]
  /\ hs \in [Procs -> [table : SUBSET Conns, shaking : SUBSET Conns,
                       carried : SUBSET Conns, out : SUBSET Conns]]
  /\ up \subseteq Procs /\ m_acceptor \in BOOLEAN /\ m_expireSocks \in Seq(Socks)
  /\ DOMAIN m_allPipes \subseteq Conns /\ DOMAIN m_serviceId2Pipe \subseteq Services
  /\ timerPipes \subseteq Conns /\ finiSocks \subseteq Socks /\ finiPipes \subseteq Conns
  /\ m_fdPackets \in [Conns -> Seq(Packets)] /\ sending \in [Conns -> Seq(Packets \cup {Copy})]
  /\ down \in [Conns -> Seq([sock : Socks, id : Services, socket : Conns])]
  /\ acks \in [Conns -> Seq([id : Services, sock : Socks \cup {NoSock}])]
  /\ m_host \subseteq Services /\ m_connector \in [Services -> 0..MaxConns]
  /\ m_pipe \in [Services -> 0..MaxConns]
  /\ got \in [Services -> SUBSET [sock : Socks, socket : Conns, pipe : Conns]]
  /\ open \in [Services -> SUBSET Conns] /\ late \in BOOLEAN

Init ==
  /\ conns = <<>> /\ fd = [f \in Fds |-> 0] /\ sockId = [k \in Conns |-> 0]
  /\ hs = [p \in Procs |-> [table |-> {}, shaking |-> {}, carried |-> {}, out |-> {}]]
  /\ up = Procs /\ m_acceptor = TRUE /\ m_expireSocks = <<>>
  /\ m_allPipes = [k \in {} |-> {}] /\ m_serviceId2Pipe = [s \in {} |-> 0]
  /\ timerPipes = {} /\ finiSocks = {} /\ finiPipes = {}
  /\ m_fdPackets = [k \in Conns |-> <<>>] /\ sending = [k \in Conns |-> <<>>]
  /\ down = [k \in Conns |-> <<>>] /\ acks = [k \in Conns |-> <<>>]
  /\ m_host = Services
  /\ m_connector = [s \in Services |-> 0] /\ m_pipe = [s \in Services |-> 0]
  /\ got = [s \in Services |-> {}] /\ open = [s \in Services |-> {}]
  /\ late = FALSE

Without(f, S) == [x \in DOMAIN f \ S |-> f[x]]
With(f, x, y) == [z \in DOMAIN f \cup {x} |-> IF z = x THEN y ELSE f[z]]

\* The hub closes descriptors, whatever sockets they stand for by now.
CloseFds(F) == fd' = [f \in Fds |-> IF f \in F THEN 0 ELSE fd[f]]
Numbers(K)  == {sockId[k] : k \in K}

\* Process p closes its descriptors of the sockets in K.
CloseAt(p, K) ==
  IF p = Hub THEN CloseFds(Numbers(K)) /\ UNCHANGED open
             ELSE open' = [open EXCEPT ![p] = @ \ K] /\ UNCHANGED fd

-----------------------------------------------------------------------------
(***************************************************************************)
(* Handshakers (module Connector has one in detail).  The acceptor makes   *)
(* one for every accepted socket, CRtpService one for every socket it      *)
(* gets; both keep them in a map, and treat them the same way.             *)
(***************************************************************************)
Shakes(p, k) == [hs EXCEPT ![p].table = @ \cup {k}, ![p].shaking = @ \cup {k}]

\* The handshaker is done and calls OnHandshakeOk with the socket.
HandshakeDone(p, k) ==
  /\ k \in hs[p].shaking
  /\ hs' = [hs EXCEPT ![p].shaking = @ \ {k}, ![p].carried = @ \cup {k}]
  /\ UNCHANGED <<sockVars, up, hubVars, pipeVars, hostVars, late>>

\* It has failed or timed out, and is deleted with its socket.
Fails(p, k) ==
  /\ k \in hs[p].shaking
  /\ hs' = [hs EXCEPT ![p].shaking = @ \ {k}, ![p].table = @ \ {k}]
  /\ CloseAt(p, {k})
  /\ UNCHANGED <<conns, sockId, up, hubVars, pipeVars, hostVars, late>>

\* OnHandshakeOk: the socket goes on to the observer, or is closed.
Passes(p, k, good) ==
  LET ok == p \in up /\ k \in hs[p].table /\ good IN
  /\ k \in hs[p].carried
  /\ hs' = [hs EXCEPT ![p].carried = @ \ {k},
                      ![p].table = IF p \in up THEN @ \ {k} ELSE @,
                      ![p].out = IF ok THEN @ \cup {k} ELSE @]
  /\ IF ok THEN UNCHANGED <<fd, open>> ELSE CloseAt(p, {k})
  /\ UNCHANGED <<conns, sockId, up, hubVars, pipeVars, hostVars, late>>

\* Fini: the map is emptied and the handshakers in it are deleted.
Finishes(p) ==
  /\ up' = up \ {p}
  /\ hs' = [hs EXCEPT ![p].table = {}, ![p].shaking = @ \ hs[p].table]
  /\ CloseAt(p, hs[p].table \cap hs[p].shaking)

-----------------------------------------------------------------------------
(***************************************************************************)
(* The acceptor.                                                           *)
(***************************************************************************)
FreeFds == {f \in Fds : fd[f] = 0}

\* A connection is accepted unless there are too many handshakes, no descriptor
\* is left, or the handshaker cannot be made (~ok); then it is closed at once.
Accepts(ok) ==
  /\ ok /\ Hub \in up /\ FreeFds # {} /\ Cardinality(hs[Hub].table) < Length

\* OnInput: a client or a host connects.
OnInput(x, ok) ==
  LET k == Len(conns) + 1
      f == Min(FreeFds)
  IN
  /\ Len(conns) < MaxConns
  /\ IF Accepts(ok)
       THEN /\ conns' = Append(conns, x)
            /\ fd' = [fd EXCEPT ![f] = k]
            /\ sockId' = [sockId EXCEPT ![k] = f]
            /\ hs' = Shakes(Hub, k)
       ELSE UNCHANGED <<conns, fd, sockId, hs>>
  /\ UNCHANGED <<open, up, hubVars, pipeVars, late>>

ClientConnects(s, ok) ==
  OnInput([ipc |-> FALSE, id |-> s], ok) /\ UNCHANGED hostVars

OnHandshakeError(k) == Fails(Hub, k)

\* ~good: the peer is gone, or what it has sent is not a service request.
OnHandshakeOk(k, good) == Passes(Hub, k, good)

\* The end of the hub's Fini.
AcceptorFini ==
  /\ ~m_acceptor /\ finiSocks = {} /\ finiPipes = {} /\ Hub \in up
  /\ Finishes(Hub)
  /\ UNCHANGED <<conns, sockId, hubVars, pipeVars, hostVars, late>>

-----------------------------------------------------------------------------
(***************************************************************************)
(* The pipe, hub's side.  SendFd queues; the transport has one packet at a *)
(* time.  OnOutput passes the descriptor and keeps the packet, which goes  *)
(* out again without it (the host ignores the copy); then OnSend.          *)
(* The transport works until the pipe is deleted, known to the hub or not. *)
(***************************************************************************)
Forgotten == timerPipes \cup finiPipes
Alive     == DOMAIN m_allPipes \cup Forgotten

Queued(k, q, t) ==      \* the oldest packet goes to the transport, if it is free
  IF t = <<>> /\ q # <<>>
    THEN /\ sending' = [sending EXCEPT ![k] = <<Head(q)>>]
         /\ m_fdPackets' = [m_fdPackets EXCEPT ![k] = Tail(q)]
    ELSE /\ sending' = [sending EXCEPT ![k] = t]
         /\ m_fdPackets' = [m_fdPackets EXCEPT ![k] = q]

SendFd(k, packet) ==
  Queued(k, Append(m_fdPackets[k], packet), sending[k]) /\ UNCHANGED <<down, acks>>

\* CProTcpTransport::OnOutput with a descriptor; it must still stand for a socket.
PipeSendsFd(k) ==
  LET packet == sending[k][1]
      socket == fd[packet.sock.sockId]
  IN
  /\ k \in Alive /\ sending[k] # <<>> /\ sending[k] # <<Copy>>
  /\ socket # 0
  /\ down' = [down EXCEPT ![k] = Append(@, [sock |-> packet.sock, id |-> packet.id,
                                             socket |-> socket])]
  /\ sending' = [sending EXCEPT ![k] = <<Copy>>]
  /\ UNCHANGED <<sockVars, hs, up, hubVars, m_fdPackets, acks, hostVars, late>>

\* OnOutput of the copy, OnSend.
PipeOnSend(k) ==
  /\ k \in Alive /\ sending[k] = <<Copy>>
  /\ Queued(k, m_fdPackets[k], <<>>)
  /\ UNCHANGED <<sockVars, hs, up, hubVars, down, acks, hostVars, late>>

\* ProDeleteServicePipe: the hub's end is gone, with what waits there.
DeletePipe(k) ==
  /\ m_fdPackets' = [m_fdPackets EXCEPT ![k] = <<>>]
  /\ sending' = [sending EXCEPT ![k] = <<>>]
  /\ CloseFds({sockId[k]})

-----------------------------------------------------------------------------
(***************************************************************************)
(* The hub.                                                                *)
(***************************************************************************)

\* Mutant of OnAcceptIpc: a hub that is finished does not close the socket.
OnAcceptIpcLeaks(k, ok) ==
  /\ k \in hs[Hub].out /\ conns[k].ipc
  /\ hs' = [hs EXCEPT ![Hub].out = @ \ {k}]
  /\ m_allPipes' = IF m_acceptor /\ ok
                     THEN With(m_allPipes, k, [pending |-> TRUE, serviceId |-> 0])
                     ELSE m_allPipes
  /\ IF m_acceptor /\ ~ok THEN CloseFds({sockId[k]}) ELSE UNCHANGED fd
  /\ UNCHANGED <<conns, sockId, open, up, m_acceptor, m_expireSocks, m_serviceId2Pipe,
                 leftVars, pipeVars, hostVars, late>>

\* OnAcceptIpc: a host has connected.
OnAcceptIpc(k, ok) ==
  /\ k \in hs[Hub].out /\ conns[k].ipc
  /\ hs' = [hs EXCEPT ![Hub].out = @ \ {k}]
  /\ IF m_acceptor /\ ok
       THEN /\ m_allPipes' = With(m_allPipes, k, [pending |-> TRUE, serviceId |-> 0])
            /\ UNCHANGED fd
       ELSE CloseFds({sockId[k]}) /\ UNCHANGED m_allPipes
  /\ UNCHANGED <<conns, sockId, open, up, m_acceptor, m_expireSocks, m_serviceId2Pipe,
                 leftVars, pipeVars, hostVars, late>>

\* Mutant of OnAcceptOther: the descriptor is closed when the packet is queued.
OnAcceptOtherCloses(k) ==
  LET s == conns[k].id
      sock == [sockId |-> sockId[k], conn |-> k]
  IN
  /\ k \in hs[Hub].out /\ ~conns[k].ipc
  /\ hs' = [hs EXCEPT ![Hub].out = @ \ {k}]
  /\ IF m_acceptor /\ s \in DOMAIN m_serviceId2Pipe
       THEN SendFd(m_serviceId2Pipe[s], [sock |-> sock, id |-> s])
       ELSE UNCHANGED pipeVars
  /\ CloseFds({sockId[k]})
  /\ UNCHANGED <<conns, sockId, open, up, hubVars, hostVars, late>>

\* OnAcceptOther: the socket of a client goes to the host of its service.
OnAcceptOther(k) ==
  LET s == conns[k].id
      sock == [sockId |-> sockId[k], conn |-> k]
  IN
  /\ k \in hs[Hub].out /\ ~conns[k].ipc
  /\ hs' = [hs EXCEPT ![Hub].out = @ \ {k}]
  /\ IF m_acceptor /\ s \in DOMAIN m_serviceId2Pipe
       THEN /\ SendFd(m_serviceId2Pipe[s], [sock |-> sock, id |-> s])
            /\ m_expireSocks' = Append(m_expireSocks, sock)
            /\ UNCHANGED fd
       ELSE CloseFds({sockId[k]}) /\ UNCHANGED <<m_expireSocks, pipeVars>>
  /\ UNCHANGED <<conns, sockId, open, up, m_acceptor, m_allPipes, m_serviceId2Pipe,
                 leftVars, hostVars, late>>

Erase(sock) ==
  \/ sock \notin ToSet(m_expireSocks) /\ UNCHANGED m_expireSocks
  \/ \E i \in DOMAIN m_expireSocks :
       m_expireSocks[i] = sock /\ m_expireSocks' = RemoveAt(m_expireSocks, i)

(***************************************************************************)
(* OnRecv: the first packet of a pipe registers its service, unless        *)
(* another pipe has it; a later one is a heartbeat or an acknowledgement.  *)
(* The acknowledged number is closed whether the socket was still waiting  *)
(* or not.                                                                 *)
(***************************************************************************)
OnRecv(k) ==
  LET m  == Head(acks[k])
      sp == m_allPipes[k]
  IN
  /\ m_acceptor /\ k \in DOMAIN m_allPipes /\ acks[k] # <<>>
  /\ acks' = [acks EXCEPT ![k] = Tail(@)]
  /\ IF sp.pending /\ m.id \notin DOMAIN m_serviceId2Pipe
       THEN /\ m_allPipes' = [m_allPipes EXCEPT ![k] = [pending |-> FALSE, serviceId |-> m.id]]
            /\ m_serviceId2Pipe' = With(m_serviceId2Pipe, m.id, k)
       ELSE UNCHANGED <<m_allPipes, m_serviceId2Pipe>>
  /\ IF ~sp.pending /\ m.id = sp.serviceId /\ m.sock # NoSock
       THEN Erase(m.sock) /\ CloseFds({m.sock.sockId})
       ELSE UNCHANGED <<m_expireSocks, fd>>
  /\ UNCHANGED <<conns, sockId, open, hs, up, m_acceptor, leftVars, m_fdPackets, sending,
                 down, hostVars, late>>

\* Mutant of Forgets: the service stays registered.
ForgetsPipes(K) ==
  /\ m_allPipes' = Without(m_allPipes, K) /\ UNCHANGED m_serviceId2Pipe
  /\ acks' = [k \in Conns |-> IF k \in K THEN <<>> ELSE acks[k]]

\* The hub takes the pipes in K from its tables; what they say is ignored now.
Forgets(K) ==
  /\ acks' = [k \in Conns |-> IF k \in K THEN <<>> ELSE acks[k]]
  /\ m_allPipes' = Without(m_allPipes, K)
  /\ m_serviceId2Pipe' =
       Without(m_serviceId2Pipe, {s \in DOMAIN m_serviceId2Pipe : m_serviceId2Pipe[s] \in K})

\* OnClose: the pipe is broken, or a descriptor could not be sent.  One step: it
\* is an upcall of the pipe's transport, which sends nothing until it returns.
OnClose(k) ==
  /\ m_acceptor /\ k \in DOMAIN m_allPipes
  /\ Forgets({k}) /\ DeletePipe(k)
  /\ UNCHANGED <<conns, sockId, open, hs, up, m_acceptor, m_expireSocks, leftVars, down,
                 hostVars, late>>

\* The packet of sock has still to be sent, with whatever has its number then.
Unsent(k, sock) ==
  \/ \E i \in DOMAIN m_fdPackets[k] : m_fdPackets[k][i].sock = sock
  \/ \E i \in DOMAIN sending[k] : sending[k][i].sock = sock

\* The packet of sock, or its acknowledgement, has still to pass a pipe.
InPipe(k, sock) ==
  \/ Unsent(k, sock)
  \/ \E i \in DOMAIN down[k] : down[k][i].sock = sock
  \/ \E s \in Services : \E g \in got[s] : g.sock = sock /\ g.pipe = k
  \/ \E i \in DOMAIN acks[k] : acks[k][i].sock = sock

\* Mutant of OnTimer: sockets do not expire.
OnTimerPipes(n, K) ==
  /\ m_acceptor /\ n \in 0..Len(m_expireSocks) /\ K \subseteq DOMAIN m_allPipes
  /\ n > 0 \/ K # {}
  /\ timerPipes = {} /\ timerPipes' = K
  /\ Forgets(K)
  /\ UNCHANGED <<sockVars, hs, up, m_acceptor, m_expireSocks, finiSocks, finiPipes,
                 m_fdPackets, sending, down, hostVars, late>>

(***************************************************************************)
(* OnTimer up to the unlock: the n oldest sockets and the pipes in K have  *)
(* expired.  The sockets are closed here, the pipes deleted later; the     *)
(* timer's thread is back before it calls OnTimer again.  Too late: a      *)
(* packet that is still to be sent, or, on a pipe the hub knows, to be     *)
(* acknowledged.                                                           *)
(***************************************************************************)
OnTimer(n, K) ==
  LET S == ToSet(SubSeq(m_expireSocks, 1, n)) IN
  /\ m_acceptor /\ n \in 0..Len(m_expireSocks) /\ K \subseteq DOMAIN m_allPipes
  /\ n > 0 \/ K # {}
  /\ timerPipes = {} /\ timerPipes' = K
  /\ m_expireSocks' = SubSeq(m_expireSocks, n + 1, Len(m_expireSocks))
  /\ Forgets(K)
  /\ CloseFds({x.sockId : x \in S})
  /\ late' = (late \/ \E x \in S : \/ \E k \in K : Unsent(k, x)
                                  \/ \E k \in DOMAIN m_allPipes \ K : InPipe(k, x))
  /\ UNCHANGED <<conns, sockId, open, hs, up, m_acceptor, finiSocks, finiPipes, m_fdPackets,
                 sending, down, hostVars>>

\* OnTimer, after the unlock.
TimerDeletes(k) ==
  /\ k \in timerPipes /\ timerPipes' = timerPipes \ {k}
  /\ DeletePipe(k)
  /\ UNCHANGED <<conns, sockId, open, hs, up, m_acceptor, m_expireSocks, m_allPipes,
                 m_serviceId2Pipe, finiSocks, finiPipes, down, acks, hostVars, late>>

\* Fini up to the unlock.
HubFini ==
  /\ m_acceptor /\ Hub \in Stops /\ m_acceptor' = FALSE
  /\ finiSocks' = ToSet(m_expireSocks) /\ m_expireSocks' = <<>>
  /\ finiPipes' = DOMAIN m_allPipes /\ Forgets(DOMAIN m_allPipes)
  /\ UNCHANGED <<sockVars, hs, up, timerPipes, m_fdPackets, sending, down, hostVars, late>>

\* Fini goes on: it closes the numbers, one by one, although the pipes still live ...
FiniCloses(x) ==
  /\ x \in finiSocks /\ finiSocks' = finiSocks \ {x}
  /\ CloseFds({x.sockId})
  /\ late' = (late \/ \E k \in Forgotten : Unsent(k, x))
  /\ UNCHANGED <<conns, sockId, open, hs, up, m_acceptor, m_expireSocks, m_allPipes,
                 m_serviceId2Pipe, timerPipes, finiPipes, pipeVars, hostVars>>

\* ... then it deletes the pipes; AcceptorFini is last.
FiniDeletes(k) ==
  /\ finiSocks = {} /\ k \in finiPipes /\ finiPipes' = finiPipes \ {k}
  /\ DeletePipe(k)
  /\ UNCHANGED <<conns, sockId, open, hs, up, m_acceptor, m_expireSocks, m_allPipes,
                 m_serviceId2Pipe, timerPipes, finiSocks, down, acks, hostVars, late>>

-----------------------------------------------------------------------------
(***************************************************************************)
(* A host.                                                                 *)
(***************************************************************************)
HubHas(k) == \E f \in Fds : fd[f] = k

\* Init, or OnTimer without a pipe: a connector is made.  One that is not
\* accepted is seen together with its OnConnectError.
HostConnects(s, ok) ==
  /\ s \in m_host /\ m_pipe[s] = 0 /\ m_connector[s] = 0
  /\ OnInput([ipc |-> TRUE, id |-> s], ok)
  /\ m_connector' = [m_connector EXCEPT ![s] = IF Accepts(ok) THEN Len(conns) + 1 ELSE 0]
  /\ UNCHANGED <<m_host, m_pipe, got>>

Says(s, sock) == [id |-> s, sock |-> sock]

\* OnConnectOk: the pipe is made and the service announced; the hub may have
\* closed or forgotten its end by now.
OnConnectOk(s) ==
  LET k == m_connector[s] IN
  /\ s \in m_host /\ k # 0
  /\ m_connector' = [m_connector EXCEPT ![s] = 0]
  /\ m_pipe' = [m_pipe EXCEPT ![s] = k]
  /\ acks' = IF HubHas(k) /\ k \notin Forgotten
               THEN [acks EXCEPT ![k] = Append(@, Says(s, NoSock))] ELSE acks
  /\ UNCHANGED <<sockVars, hs, up, hubVars, m_fdPackets, sending, down, m_host, got, late>>

\* OnConnectError; OnConnectOk when the pipe cannot be made.
OnConnectError(s) ==
  /\ s \in m_host /\ m_connector[s] # 0
  /\ m_connector' = [m_connector EXCEPT ![s] = 0]
  /\ UNCHANGED <<sockVars, hs, up, hubVars, pipeVars, m_host, m_pipe, got, late>>

\* OnTimer: a heartbeat.  Bound: none is sent while a packet is under way.
Heartbeat(s) ==
  LET k == m_pipe[s] IN
  /\ s \in m_host /\ k # 0 /\ acks[k] = <<>> /\ k \in DOMAIN m_allPipes
  /\ acks' = [acks EXCEPT ![k] = Append(@, Says(s, NoSock))]
  /\ UNCHANGED <<sockVars, hs, up, hubVars, m_fdPackets, sending, down, hostVars, late>>

\* OnRecvFd up to the unlock, and getpeername, which may find the client gone.
OnRecvFd(s, good) ==
  LET k == m_pipe[s]
      m == Head(down[k])
  IN
  /\ s \in m_host /\ k # 0 /\ down[k] # <<>>
  /\ down' = [down EXCEPT ![k] = Tail(@)]
  /\ IF m.id = s /\ good
       THEN /\ got' = [got EXCEPT ![s] = @ \cup {[sock |-> m.sock, socket |-> m.socket,
                                                  pipe |-> k]}]
            /\ open' = [open EXCEPT ![s] = @ \cup {m.socket}]
       ELSE UNCHANGED <<got, open>>
  /\ UNCHANGED <<conns, fd, sockId, hs, up, hubVars, m_fdPackets, sending, acks, m_host,
                 m_connector, m_pipe, late>>

\* The rest of it: the hub is told, if the pipe is still there, and
\* CRtpService::OnServiceAccept makes a handshaker or closes the socket.
OnServiceAccept(s, g, ok) ==
  LET accepted == ok /\ s \in up /\ Cardinality(hs[s].table) < Length IN
  /\ g \in got[s]
  /\ got' = [got EXCEPT ![s] = @ \ {g}]
  /\ acks' = IF m_pipe[s] = g.pipe /\ g.pipe \in DOMAIN m_allPipes
               THEN [acks EXCEPT ![g.pipe] = Append(@, Says(s, g.sock))] ELSE acks
  /\ hs' = IF accepted THEN Shakes(s, g.socket) ELSE hs
  /\ open' = IF accepted THEN open ELSE [open EXCEPT ![s] = @ \ {g.socket}]
  /\ UNCHANGED <<conns, fd, sockId, up, hubVars, m_fdPackets, sending, down, m_host,
                 m_connector, m_pipe, late>>

\* OnClose: the pipe is broken.
HostOnClose(s) ==
  /\ s \in m_host /\ m_pipe[s] # 0
  /\ m_pipe' = [m_pipe EXCEPT ![s] = 0]
  /\ down' = [down EXCEPT ![m_pipe[s]] = <<>>]
  /\ UNCHANGED <<sockVars, hs, up, hubVars, m_fdPackets, sending, acks, m_host, m_connector,
                 got, late>>

\* CRtpService::OnHandshakeOk: a session is accepted.
RtpOnHandshakeOk(s, k, good) == Passes(s, k, good)

RtpOnHandshakeError(s, k) == Fails(s, k)

\* CRtpService::Fini up to ProDeleteServiceHost ...
RtpFini(s) ==
  /\ s \in up \cap Stops
  /\ Finishes(s)
  /\ UNCHANGED <<conns, sockId, hubVars, pipeVars, hostVars, late>>

\* ... which ends in CProServiceHost::Fini.
HostFini(s) ==
  /\ s \in m_host /\ s \notin up
  /\ m_host' = m_host \ {s}
  /\ m_connector' = [m_connector EXCEPT ![s] = 0]
  /\ m_pipe' = [m_pipe EXCEPT ![s] = 0]
  /\ down' = [k \in Conns |-> IF k = m_pipe[s] THEN <<>> ELSE down[k]]
  /\ UNCHANGED <<sockVars, hs, up, hubVars, m_fdPackets, sending, acks, got, late>>

-----------------------------------------------------------------------------
AcceptorNext ==
  \/ \E s \in Services, ok \in BOOLEAN : ClientConnects(s, ok)
  \/ \E k \in Conns : HandshakeDone(Hub, k) \/ OnHandshakeError(k)
  \/ \E k \in Conns, good \in BOOLEAN : OnHandshakeOk(k, good)
  \/ AcceptorFini

HubNext ==
  \/ \E k \in Conns, ok \in BOOLEAN : OnAcceptIpc(k, ok)
  \/ \E k \in Conns : OnAcceptOther(k) \/ OnRecv(k) \/ OnClose(k)
  \/ \E n \in 0..MaxConns, K \in SUBSET DOMAIN m_allPipes : OnTimer(n, K)
  \/ \E k \in Conns : PipeSendsFd(k) \/ PipeOnSend(k) \/ TimerDeletes(k) \/ FiniDeletes(k)
  \/ HubFini \/ \E x \in finiSocks : FiniCloses(x)

HostNext ==
  \E s \in Services :
    \/ \E ok \in BOOLEAN : HostConnects(s, ok)
    \/ OnConnectOk(s) \/ OnConnectError(s) \/ Heartbeat(s) \/ HostOnClose(s)
    \/ \E good \in BOOLEAN : OnRecvFd(s, good)
    \/ HostFini(s)

RtpNext ==
  \E s \in Services :
    \/ \E g \in got[s], ok \in BOOLEAN : OnServiceAccept(s, g, ok)
    \/ \E k \in Conns : HandshakeDone(s, k) \/ RtpOnHandshakeError(s, k)
    \/ \E k \in Conns, good \in BOOLEAN : RtpOnHandshakeOk(s, k, good)
    \/ RtpFini(s)

Next == AcceptorNext \/ HubNext \/ HostNext \/ RtpNext

(***************************************************************************)
(* Fairness.  A handshaker answers or times out, its upcall goes on to the *)
(* hub on the same reactor thread, and the hub's timer comes again and     *)
(* again: a socket past its expireTick is found by the next one.  OnTimer  *)
(* and Fini, once begun, go on to their end.  Nothing is assumed of        *)
(* clients, hosts or pipes.                                                *)
(***************************************************************************)
Answers(k)  == HandshakeDone(Hub, k) \/ OnHandshakeError(k)
Goes(k)     == \E good \in BOOLEAN : OnHandshakeOk(k, good)
Accepted(k) == OnAcceptOther(k) \/ \E ok \in BOOLEAN : OnAcceptIpc(k, ok)
Expires     == \E n \in 1..MaxConns : OnTimer(n, {})
TimerGoesOn == \E k \in Conns : TimerDeletes(k)
FiniGoesOn  == (\E x \in finiSocks : FiniCloses(x)) \/ (\E k \in Conns : FiniDeletes(k))

Spec == Init /\ [][Next]_vars

FairSpec ==
  /\ Spec
  /\ \A k \in Conns : WF_vars(Answers(k)) /\ WF_vars(Goes(k)) /\ WF_vars(Accepted(k))
  /\ WF_vars(Expires) /\ WF_vars(TimerGoesOn) /\ WF_vars(FiniGoesOn)

-----------------------------------------------------------------------------
(***************************************************************************)
(* Properties.  They hold as long as OnTimer or Fini has not closed a      *)
(* number while its packet was still to be sent, or its acknowledgement to *)
(* come (~late).  After that the number may stand for another socket when  *)
(* the packet is sent, by a transport that is not deleted yet, or when the *)
(* acknowledgement arrives.                                                *)
(***************************************************************************)
One(S)       == Cardinality(S) = 1
Waiting(k)   == \E i \in DOMAIN m_expireSocks : m_expireSocks[i].conn = k
Places(p, k) == {x \in {"shaking", "carried", "out"} : k \in hs[p][x]}
HubOwners(k) ==
  Places(Hub, k) \cup (IF Waiting(k) THEN {"expireSocks"} ELSE {})
                 \cup (IF \E x \in finiSocks : x.conn = k THEN {"finiSocks"} ELSE {})
                 \cup (IF k \in DOMAIN m_allPipes THEN {"pipe"} ELSE {})
                 \cup (IF k \in timerPipes THEN {"timerPipes"} ELSE {})
                 \cup (IF k \in finiPipes THEN {"finiPipes"} ELSE {})
HostOwners(s, k) ==
  Places(s, k) \cup (IF \E g \in got[s] : g.socket = k THEN {"got"} ELSE {})

(***************************************************************************)
(* No descriptor is leaked or closed behind its owner's back: whatever     *)
(* fails or finishes on the way (handshake, hub, pipe, host), an open      *)
(* descriptor has exactly one owner that will close it, and what nobody    *)
(* owns is closed.  In the hub's process an owner is a handshaker, an      *)
(* upcall, the list of sockets that wait for the host, a pipe, or what     *)
(* OnTimer or Fini has still to close; in a host's process a handshaker,   *)
(* an upcall or the session made of it.                                    *)
(***************************************************************************)
DescriptorsOwned ==
  ~late => \A k \in Conns :
    /\ IF HubHas(k) THEN One(HubOwners(k)) ELSE HubOwners(k) = {}
    /\ \A s \in Services :
         IF k \in open[s] THEN One(HostOwners(s, k)) ELSE HostOwners(s, k) = {}

(***************************************************************************)
(* A client gets the service it asked for, once: the socket that arrives   *)
(* in a host is one whose client named that service, although the packet   *)
(* only carries a number, which the kernel may have used again, and the    *)
(* transports of pipes the hub has forgotten still send.  No socket is at  *)
(* the same time in a pipe and in a host.                                  *)
(***************************************************************************)
RightService ==
  ~late => \A s \in Services :
    /\ \A k \in open[s] : ~conns[k].ipc /\ conns[k].id = s
    /\ m_pipe[s] # 0 => \A i \in DOMAIN down[m_pipe[s]] :
         LET x == down[m_pipe[s]][i] IN
         /\ x.socket = x.sock.conn /\ conns[x.socket].id = s
         /\ x.socket \notin open[s]

(***************************************************************************)
(* The hub's two tables of pipes agree: a service is registered to a pipe  *)
(* exactly if that pipe is alive and was the one to announce it, through   *)
(* pipes that close, expire, or wait for a service another pipe still has. *)
(***************************************************************************)
PipesAgree ==
  \A s \in Services, k \in Conns :
    (s \in DOMAIN m_serviceId2Pipe /\ m_serviceId2Pipe[s] = k)
      <=> (k \in DOMAIN m_allPipes /\ m_allPipes[k] = [pending |-> FALSE, serviceId |-> s])

(***************************************************************************)
(* The hub lets go of every client: whether the host takes the socket,     *)
(* dies, or never answers, the hub's descriptor of it is closed in the end *)
(* (by the acknowledgement, OnTimer or Fini).                              *)
(***************************************************************************)
HubLetsGo ==
  \A k \in Conns :
    (HubHas(k) /\ ~conns[k].ipc) ~> (~HubHas(k) \/ late)
=============================================================================
