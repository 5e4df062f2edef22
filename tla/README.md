# A verification project for LibProNet

LibProNet is a C++ network engine: a toolset (threads, tasks, timers, pools), a
network layer on top of it (reactors, connectors, handshakers, transports) and
an RTP and messaging layer on top of that. This directory holds TLA+ modules
that model its concurrent core and the messaging system built on it, TLC configurations that check them on small
instances, and TLAPS proofs of the central properties for every value of the
constants. `PROJECT.json` maps every definition to the lines it models and lists
runs, mutants, hazards, findings and theorems.

    tlc -config FunctorTask.cfg FunctorTask       # a run
    tlapm FunctorTaskProofs.tla                   # a proof module

Paths below are relative to `src/src/pro/`.

## The system

| Component | State | Operations | Hard part |
|---|---|---|---|
| Functor command task (`pro_util/pro_functor_command_task.cpp`, on `pro_thread.cpp`, `pro_thread_mutex.cpp`) | command queue, `m_wantExit`, latches | `Start`, `Stop`, `Put` (blocking or not), worker `Svc` | wake-ups, blocking puts whose latch is on the stack, stop against put |
| Timer factory (`pro_util/pro_timer_factory.cpp`) | timers in two containers, heartbeat slots, references to handlers | `Start`, `Stop`, `ScheduleTimer`, `ScheduleHeartbeatTimer`, `CancelTimer`, `UpdateHeartbeatTimers`, worker | a timer fires outside the lock while it is cancelled |
| Receive pool, send pool (`pro_net/pro_recv_pool.h`, `pro_send_pool.h`) | ring buffer; queue of buffers | `Fill`, `PeekData`, `Flush`; `Fill`, `PreSend`, `Flush`, `PostSend` | wrap-around; partial sends |
| Notify pipe (`pro_net/pro_notify_pipe.cpp`) | flag, tick, a socket pair | `Notify`, `EnableNotify` | the two run without a common lock |
| Reactors (`pro_net/pro_select_reactor.cpp`, `pro_epoll_reactor.cpp`, `pro_handler_mgr.cpp`) | handler map, fd sets or epoll set | `AddHandler`, `RemoveHandler`, worker loop | events are used after the lock was left; socket numbers are used again |
| Reactor pool (`pro_net/pro_tp_reactor_task.cpp`) | reactors, threads, two timer factories | `Start`, `Stop`, `AddHandler`, `RemoveHandler`, timers | a handler can move between reactors |
| TCP transport (`pro_net/pro_tcp_transport.cpp`) | write flags, pools, heartbeat, registration | `SendData`, `SendFd`, `RequestOnSend`, `SuspendRecv`, `ResumeRecv`, heartbeats, events | calls from any thread against events of two reactors |
| Connector, TCP handshaker (`pro_net/pro_connector.cpp`, `pro_tcp_handshaker.cpp`) | socket, timers, handshaker | events, timeouts, callbacks, `Fini` | a timeout against a handshake that completes late |
| Acceptor (`pro_net/pro_acceptor.cpp`) | handshakers under way, by nonce | `OnInput`, handshake callbacks, `Fini` | a socket is in no table between two critical sections |
| Service hub, host, pipe (`pro_net/pro_service_hub.cpp`, `pro_service_host.cpp`, `pro_service_pipe.cpp`), RTP service (`pro_rtp/rtp_service.cpp`) | pipes by service, sockets sent and not acknowledged, packets with descriptors | `OnAccept`, `OnRecv`, `OnClose`, `OnTimer`, `OnRecvFd`, `OnServiceAccept`, `Fini` | one socket in two processes; descriptor numbers are used again; acknowledgement against timeout |
| Reorder buffer (`pro_util/pro_reorder.cpp`) | packets by extended sequence number | `PushBack`, `PopFront`, `Reset` | wrap-around of 16-bit numbers |
| Message server (`pro_rtp/rtp_msg_server.cpp`, `rtp_msg_server/msg_server.cpp`) | contexts by session, contexts by user, the online record | accept, login, logout, routing, kick-out, `Fini` | a command task between a packet and its effect; tables published before the response |
| Message C2S and client (`pro_rtp/rtp_msg_c2s.cpp`, `rtp_msg_client.cpp`) | waiting logins by timer, users by session and back, the uplink | accept, login forwarding, timeouts, reconnection, `Fini` | a late answer to a login that has timed out; a user that moves between nodes |
| SSL handshaker and transport, UDP and multicast transports (`pro_net/`); RTP sessions, buckets, ports, packets (`pro_rtp/`) | as above | as above | not modelled |

How they interact. A reactor pool owns one accept reactor, several I/O reactors
(one thread each) and two timer factories (one thread each, run by a functor
command task). A handler (transport, connector, handshaker, acceptor) registers
with a reactor through `CProTpReactorTask::AddHandler` and schedules timers.
Workers call handlers back without any lock of their own, holding a reference;
handlers guard themselves with `m_lock`, and transports serialise their upcalls
with `m_lockUpcall`. Objects are reference counted and close their socket in
their destructor.

On top of this an acceptor gives connections to a service hub, which passes them
as descriptors to the process of the service they ask for. A message server
accepts clients and C2S nodes; a C2S logs its own clients in at the server, one
hop further up. Server and nodes run what they receive through a functor command
task, with a limit of waiting commands.

## Modules

| Module | Models | Grain |
|---|---|---|
| `FunctorTask`, `FunctorTaskProofs` | the command task with its latches and thread counting | one step per critical section; a wait is two steps |
| `Mailbox` | what the command task promises: accepted commands are executed once, in order | abstract |
| `TimerFactory`, `TimerFactoryProofs` | the timer factory and its worker | one step per critical section |
| `RecvPool` | the ring buffer, byte by byte | one step per call |
| `ByteFifo` | what the ring buffer promises: a bounded byte queue | abstract |
| `NotifyPipe` | waking a reactor's worker (select reactor; for epoll only the exit matters) | one step per access of a shared field |
| `EpollReactor`, `MCEpollReactor`, `EpollReactorProofs` | handler map, epoll set, worker, reference counts, socket numbers that are used again, the reactor's own pipe | one step per critical section or upcall |
| `TcpTransport`, `MCTcpTransport`, `TcpTransportProofs` | the TCP transport and its send pool, with the reactors and the heartbeat | one step per critical section; an upcall is begin and return |
| `Connector`, `ConnectorProofs` | one connection attempt: connector, handshaker, timers, reactors, deletion | one step per critical section; `rest` is what the thread has left to do |
| `ServiceHub`, `ServiceHubProofs` | acceptor, hub, pipes, hosts and the RTP services behind them, with descriptor numbers | one step per critical section; a socket between two of them is in `carried`, `out` or `got`, what `OnTimer` and `Fini` do after their unlock in `timerPipes`, `finiSocks` and `finiPipes` |
| `MsgLink` | the connections of the messaging system and the client's end of them (`CRtpMsgClient`) | one step per packet |
| `MsgServer` | the message server, its command task, its observer with the online record | one step per command; the response is a step of its own |
| `MsgC2s` | a C2S node: waiting and logged-in clients, reports to the server | one step per packet, timer or report |
| `MsgService`, `MCMsgService` | the composition of the three, with client programs | as its parts |
| `MsgServiceInv` | the inductive invariants of the server, the C2S and the links between them | |
| `MsgServiceProofs` | proofs about server, C2S, their sockets and what they know of each other, inside the composition | |
| `Reorder`, `MCReorder` | the reorder buffer as the session wrapper drives it | one step per call |
| `BufferProofs` | proofs about `RecvPool`, `Reorder` and `NotifyPipe`; the definitions of the latter two carry a prefix (`ReorderSpec`, `PipeSpec`) so that one module can extend all three | |

State variables keep the names of the fields they model. Variables marked
`history` in the modules record what happened and never influence a step.
Definitions introduced by "Mutant of ..." are changed versions of the next
definition; they are used in no specification and serve to show that a property
can fail. `TypeOK` documents the shape of the state of every module; it is
proved, and no run repeats it.

### Correspondence worth knowing

* `CProThreadMutexCondition` is a latch, not a Posix condition: `Signal` sets a
  flag that stays until one `Wait` takes it. `FunctorTask` and `TimerFactory`
  model it as a Boolean; the theorems about lost wake-ups depend on that.
* In `TimerFactory` the join in `Stop` is one step that waits for the worker; it
  stands on `StoppedMeansDrained` of `FunctorTask`.
* In `EpollReactor` and `TimerFactory` references are counted explicitly. In
  `Connector` they are known by their holders (`ConnectorHeld`,
  `HandshakerHeld`): an object without a holder is destroyed, and
  `NoUseAfterFree` says that no holder comes back.
* In `TcpTransport` user code that runs inside an upcall is not a separate
  thing: whatever it calls is one of the free calls, which may happen at any
  time. Packets are numbered in the order of acceptance and a packet's number
  is its `actionId`. A packet sent with a descriptor stays in the send pool and
  goes out a second time; `WireExact` states it, and the receiving side ignores
  the second copy because it carries no descriptor (`OnInputFd`, early return).
  The early return of `OnOutput` when the pool is empty and nobody has asked for
  `OnSend` has no action: `WriteWatched` shows that it is never taken.
* In `MsgServer` a login is two steps, as in `AddBaseUser` and `AddSubUser`: the
  tables change under `m_lock`, the response is sent after the unlock. Between
  the two other threads route packets. Each end of a connection notices a loss in
  its own time, and until then keeps what it believes.
* The checks of password and TLS are a login that may be refused at any time.
  Numbers of timers are not used again, so the number of the accepted connection
  stands for `client_index`.
* In `ServiceHub` a connection the kernel does not accept changes nothing and has
  no step. A packet with a descriptor is followed by its copy without one, as in
  `TcpTransport`; the copy occupies the transport until it is sent. `sendmsg`
  passes whatever socket has the number at that moment. `OnTimer` and `Fini`
  forget pipes under the lock and delete them one by one after it; until then the
  transport of such a pipe goes on sending (`Alive`), while its acknowledgements
  are ignored. `OnClose` is one step: it is an upcall of the pipe's own transport,
  which holds `m_lockUpcall` and sends nothing until the pipe is deleted.
* In `MsgC2s` a packet that the server has addressed to the node goes to
  `OnRecvMsg` only if the uplink takes the node's number for its own (`Named`);
  otherwise `CRtpMsgClient` hands it to `OnTransferMsg`, which finds nobody.
* In `Reorder` a packet also has the unbounded number of its sender; the code
  sees it modulo 2^Width. Ticks are ages, capped where the code's comparison no
  longer distinguishes them, which makes the state space finite without a
  bound on the clock.

## Runs

Passing runs:

| Run | States | Shows |
|---|---|---|
| `functor_task` | 92 808 | two putting threads, three commands, two starts: wake-ups, drain on stop, synchronous blocking puts, latch lifetime, a blocked put returns, everything accepted is executed; refinement of `Mailbox` (once, and in order) |
| `timer` | 804 936 | the two containers agree, references are exact, heartbeats stay in the slots they are counted in, a due timer leaves the containers |
| `recv_pool` | 832 | peeking across the end, room to receive; refinement of `ByteFifo` |
| `notify_pipe` | 51 906 | a wake-up is lost only in the millisecond of another one; a `Fini` that comes apart from others always ends the worker |
| `epoll_reactor` | 125 034 | epoll set and handler map agree and who is registered owns the socket, with the interest it asked for; the pipe stays watched; references are exact |
| `tcp_transport` | 391 560 | bytes, descriptors and completions go out exactly, WRITE is watched whenever needed, nothing follows `OnClose` |
| `connector` | 9 402 | one owner of the socket, one answer, a complete handshake behind `OnConnectOk`, no use of destroyed objects; every attempt ends; after deletion everything is destroyed |
| `reorder` | 4 030 | numbers are extended correctly, packets leave in order, the buffer is bounded |
| `service_hub` | 803 348 | every descriptor has one owner in each process and a client reaches the service it named, as long as no number is closed under its packet, through every interleaving of `OnTimer` and `Fini` with the transports; the hub's tables of pipes agree; the hub lets go of every client |
| `msg_service` | 1 043 739 | the tables of server, observer and nodes agree, no connection waits and is logged in at once; every accepted socket has one owner; no user stays on the server whom its node does not have; a logged-in user is known to the server |

Runs that find a violation, each a disagreement of the code with its own
assertions or comments (details under `findings`):

| Run | What it shows |
|---|---|
| `timer_steps` | `UpdateHeartbeatTimers` gives a heartbeat an index outside the 1000 slots when more heartbeats are armed than there are slots |
| `msg_identity` | a packet from a client can reach a newly logged-in C2S before the response to its login; the C2S takes the client's number for its own, against the assertion in `OnOkMsg` |

Observations that are stated here and have no run of their own:

* `UpdateHeartbeatTimers` asserts inside its re-insertion loop
  (`pro_timer_factory.cpp:446`) that the two containers have the same size. With
  two heartbeats armed that does not hold between the insertions. `IndexAgrees`
  says that they agree when the call has returned.
* A `Fini` in the millisecond of another notification can leave a reactor's
  worker asleep (`pro_notify_pipe.cpp:172`), although `ProDeleteReactor` is
  documented to wait for all workers. `ApartFiniStopsWorker` is the part that
  holds.
* A late packet numbered 65535 in the first round is extended to -1
  (`pro_reorder.cpp:243`), which is the sentinel for a reset: the buffer starts
  again. `Reconstructed` says that what is held stays consistent all the same.
* A logout names only the user. When a user loses its connection to a C2S and
  logs in again at the same C2S while the logout is still under way, the logout
  ends the new login on the server. `LoggedInIsKnown` is therefore stated for
  users that have made one connection to that C2S, and holds for them whatever
  they do at other nodes.
* A C2S that has been given a number that is not its own (run `msg_identity`) is
  not heard any more: `OnRecvSession` ignores packets whose source is neither the
  base user of the session nor behind it (`rtp_msg_server.cpp:886`). A login it
  sent by its former uplink can still be waiting as a command and be carried out
  into its new context; the login_ok is for a number the uplink does not take for
  its own, so it is ignored, and the user stays on the server until the uplink
  breaks.
  `NoGhostUser` is therefore stated for nodes that have their own number or none
  yet, and on whose uplink no packet was refused; a login that crosses a
  reconnection of its node is covered.
* When the hub closes the number of a socket whose packet or acknowledgement is
  still in a pipe, the number is free for another client. Three places do it:
  * `SOCK_TIMEOUT` in `OnTimer` (`pro_service_hub.cpp:484`), for a pipe that stays:
    the packet, if still queued, is sent with whatever socket has the number then,
    and `OnRecv` closes the acknowledged number without asking whether it still
    waits for it (`:384`);
  * the same `OnTimer` for a pipe that expires with it, which is deleted only after
    the unlock (`:523`);
  * `Fini`, which closes the numbers (`:130-138`) before it deletes the pipes
    (`:140-148`) and the acceptor (`:150`): a new client gets the number, and the
    transport of a pipe that is not deleted yet passes it to the host of another
    service.

  The history variable `late` records that a number was closed this way;
  `DescriptorsOwned`, `RightService` and `HubLetsGo` are stated up to it and say
  nothing of what follows. That each of the three counts is not a precaution:
  without the second or the third TLC finds a client at the wrong service within
  these bounds.

### Bounds

* `FunctorTask`: two clients and three commands make a blocking and a
  non-blocking put overlap with a third; two starts make a command of a former
  run visible in the next one.
* `TimerFactory`: two timers are enough for two nodes with the same tick, for
  two heartbeats in two slots, and for one collected while the other changes;
  four ticks are a whole period of the default heartbeat and two of the respaced
  one. `Steps` is 2 instead of 1000; the code uses it only as the modulus of the
  slots.
* `RecvPool`: five bytes make the data wrap with pieces on both sides; the
  proofs cover every size.
* `NotifyPipe`: three changes and four ticks: one notification to set the scene,
  one that races with the worker, one that is judged.
* `EpollReactor`: two handlers and three socket numbers, one for the pipe and
  one to spare, so that a number is used again by another handler and the pipe
  is rebuilt on a number used before.
* `TcpTransport`: two reactors (the transport can move and meet its own old
  events), two packets of two bytes (a partial send, and a successor), a receive
  pool of one byte (it is full after every receive), one heartbeat.
* `Connector`: two reactors, two bytes in each direction (a partial and a last
  transfer). One connector opens one socket and one handshaker, as in the code.
* `ServiceHub`: two services, each with its host, and three connections: a pipe
  and two clients, two pipes of the same host, or a pipe for each. `MaxFds` is
  less than `MaxConns`, so descriptor numbers are used again. `Length` is 1, so
  both limits of pending handshakers are reached. A pipe, a client whose packet is
  queued and a second client that gets the same number are three connections, so
  every way to be `late`, and what comes of it, is within the bounds. `Stops` lets the hub and one of
  the two hosts finish; the other stays for the case that its peers go.
* `MsgService`: two C2S nodes and two users make a user move between nodes and
  make a C2S meet another's client. `MaxInputs` is 4: two uplinks and two logins,
  or one uplink, a login, a move and a kick-out. A connection holds three packets,
  so that sends are refused; three commands may wait at the server, so that a login
  can still be queued there when its node connects again, and one login at a C2S;
  both limits are reached. `MaxIids` is 1, the smallest limit of
  instances a user row can have. Nodes and users are symmetric.
* `Reorder`: four bits and a loss window of 4 keep, roughly, the ratio of 65536 to 15000;
  the numbers span the wrap-around twice. `Reach` bounds how far from the
  expected number a packet may be: beyond 2^Width - MaxLoss a sequence number is
  ambiguous for any receiver.

### Fairness

* Weak fairness of worker and timer threads: threads are scheduled, a critical
  section ends, an upcall returns. Nothing is assumed of callers: nobody has to
  call `Put`, `Stop` or `Fini`.
* `ServiceHub` assumes that a handshake ends, at the latest by its timeout; that
  a thread with a socket in hand goes on; that the hub's timer recurs; and that
  `OnTimer` and `Fini`, once begun, go on after their unlock.
  Nothing is assumed of clients, hosts or pipes: they may stay silent for ever.
* `Connector` assumes that timers expire, and nothing of the network.
* `NotifyPipe` assumes fairness of the worker and of a caller inside `Notify`,
  and that no other socket need have events.

## Proofs

Each proof module states an invariant that every step of the specification
preserves (`IInv`, or a name of its own where there are several), one lemma per
action or group of actions, and derives the listed theorems from it. Constants
are arbitrary: any number of threads, reactors, handlers, connections, services,
packets, sizes and limits that the `ASSUME`s of the modules admit.

**`FunctorTaskProofs`**: type correctness, `ExactlyOnceInOrder`, `NoLostWakeup`,
`StoppedMeansDrained`, `BlockingPutIsSynchronous`, `LatchOnLiveStack`, and that
every step of the task is a step or a stutter of `Mailbox`. The invariant adds
what ties the phases together: where the worker and the controller are against
`m_wantExit` and the thread count, that the commands taken, executed and queued
together are the accepted ones in order, and that a signal is pending whenever a
sleeping thread has something to do, which makes `NoLostWakeup` inductive.
`LatchOnLiveStack` rests on the order as well: a command is in at most one place,
so the latch is signalled once, before its `Put` can return.

**`BufferProofs`** has three parts.

* Receive pool: data and idle space tile the ring, a pool that is not full has
  continuous room to receive, a peek returns the oldest bytes, and the refinement
  of `ByteFifo`. The invariant is `RingTiles` with the bounds of the two
  positions; the refinement maps the content of the ring, read from the read
  position and wrapped at the end, to the queue.
* Reorder buffer: `Reconstructed`, `InOrder` and `HoldBounded`, for every width
  of sequence numbers. The invariant adds that the expected long number and the
  sender's number it stands for differ by whole rounds, and that both lie behind
  what has been popped. `ExtensionRight` is the arithmetic: two numbers closer
  than 2^Width - MaxLoss, of which one is known modulo 2^Width, and the carry the
  code computes from the two distances. `WindowAssumption` states that 2^Width is
  a natural number, because the provers know nothing of exponentiation.
* Notify pipe: `LostOnlyWithinTick`. Its invariant is `Delivered`: when the last
  request came in a later millisecond than the stamp and `Notify` is past its
  send, the byte is in the pipe, or the worker has read it and is on its way to
  the handlers.

**`TimerFactoryProofs`**: `IndexAgrees`, `RefsExact` and `CountsCover`. For the
first two the invariant says which thread holds nodes in which phase, that every
node refers to an object, and that no timer has the number that is given out
next; the counts of references follow from lemmas on the cardinality of the
nodes of one object. `CountsCover` has an invariant of its own, `HtbtInv`: a
heartbeat's expiry, taken modulo its span, lies in the slot its index names, and
no slot counts fewer heartbeats than are in it. It needs that the slot with the
least count exists (a finite set of counters has a minimum), that rounding up to
a slot's boundary lands in it, and that `UpdateHeartbeatTimers` numbers the
heartbeats it re-inserts one by one.

**`EpollReactorProofs`**: type correctness, `RegisteredOwnsSocket`, `RefsExact`.
The invariant adds that what owns a socket is alive and owns it alone, that
nothing is registered without a running reactor, and that upcalls are owed only
while the worker makes them. `Counts` restates `RefsExact` with one summand for
the manager's table: a handler is registered at most once.

**`TcpTransportProofs`**: type correctness, `WriteWatched`, `WireExact`,
`CompletionsMatch`, and the action property `NothingAfterClose`. `Upcalls` says
who holds `m_lockUpcall` and that `OnClose` is followed by `Fini` before it is
released; `Watch`, that a reactor with a WRITE event in hand is the one the
transport is registered with; `Pool`, that the pool holds the last accepted packet
or nothing and a descriptor goes before its packet. `WireExact` is inductive only
together with `Completions` and `Pool`, which fix what is left to send.

**`ConnectorProofs`**: type correctness, `OneOwner`, `AnsweredOnce`, and the
action property `NoUseAfterFree`. `OwnInv` follows the socket from the connector
to the handshaker, to the thread that carries it, to the user, and says for each
station that the others do not have it; `NotLeaked` closes the circle.

**`MsgServiceProofs`**, over every step of the composed system (the invariants it names are in `MsgServiceInv`):

* `UserIndexCorrect`: the server's two tables agree. `IndexInv` adds to
  `UserIndexAgrees` (in the form `Agree`) that the connections that wait in the
  queue of commands are different from each other, have been made, and have no
  context yet: carrying out such a command never replaces a context that users
  refer to.
* `OnlineCorrect`: the observer's record of who is online is the set of users in
  the tables, and no user id has more instances than its limit. The check is in
  `OnCheckUser` and the change in `OnOkUser`; `OnlineInv` ties the two together:
  the record is finite and agrees with the tables except for a login that is
  between the two calls (at most one at any time), and for that one there is room.
* `C2sIndexCorrect`: the two tables of every C2S are inverse to each other, and a
  connection never is waiting and logged in at the same time. (A user can be: it
  may wait on a second connection.) The invariant adds that no table mentions a
  connection that has not been made.
* `SocketsCorrect`: `SocketsOwned`. A connection is owned where it was made to,
  so server and nodes never own the same one (`SockInv`); at the server the queue,
  the contexts and what waits for `FiniSessions` are disjoint; a socket is open
  exactly if somebody owns it.
* `GhostCorrect`: `NoGhostUser`. The argument follows a login on its way: as a
  packet of the uplink, as a command, as a response held, as a login_ok on its way
  down, as an entry of the node. `UplinkInv` says that a node has an uplink of its
  own, which the server attributes to it. `PlaceInv` says who may say what:
  contexts belong to those who made the connection, only nodes send logins and
  logouts, a node that has clients or a logout to report has an uplink and a
  number, its own if a client is logged in. `OwnInv` ties every login, wherever it is, to a connection that this
  user made to this node: without it a login_ok could put a user into the node's
  tables under a connection that is not its own. `GhostInv` is `NoGhostUser` with
  the order of packets: behind every kickout of a user that the server has again
  comes the login_ok of the new login, and the first packet of an uplink that has
  no number yet is never a login_ok. `NoGhostUser` alone is not inductive: a
  kickout under way would remove the entry it relies on, and a login_ok taken for
  the response to the node's own login would be lost. The steps of the server and
  of a node are first reduced to what they do to one uplink (`ServerLinkDown`,
  `ServerLinkSubs`, `NodeTouch`), so that the invariant is checked against a few
  kinds of change instead of some thirty actions.
* `KnownCorrect`: `LoggedInIsKnown`. `KnownInv` says it without quiescence: whoever
  is logged in at a node, or whose login_ok is under way, is in the server's
  context of the node, or a kickout is on its way behind. A user leaves a context
  by a kickout, by a login elsewhere, by the end of the session, or by a logout of
  its own node. The first two send the kickout; the third ends what the uplink
  carries. For the fourth the user must really have left: `OnceInv` says that a
  login is in one place at a time, so that a node that reports a connection gone
  cannot still meet its login_ok, and `LogoutInv` that every logout under way
  names a user one of whose connections to that node is gone, which a user with
  one connection that is still there is not. `MuteInv` is a small fact about
  connections that wait.
* `TypeCorrect`. Most of `TypeOK` follows from the invariants above; `TypeInv` is
  the rest: what packets, commands and responses can be. It needs `PlaceInv` and
  `OwnInv`, which say for instance that a node with a logout to report has a
  number to report it under, and that who is behind a C2S is a client.

**`ServiceHubProofs`**: type correctness, `PipesAgree`, `DescriptorsOwned` and
`RightService`. The last two speak of two processes and of numbers that the kernel
uses again, and neither is inductive by itself. `IInv` describes a socket's
journey: it is queued, sent, flying, landed or acknowledged, on one pipe, once
(`OneJourney`), and the pipe is one of the service its client named
(`Travellers`). A number stands for the connection that was given it last
(`Numbered`). The hub's tables, the pipes that `OnTimer` and `Fini` have still to
delete and the numbers `Fini` has still to close are apart from each other
(`HubTables`). As long as no number was closed under its packet, what travels on a
pipe the hub knows, and what a forgotten pipe has still to send, is still to be
closed (`Waits`: it is in `ToClose`, that is in `m_expireSocks` or `finiSocks`);
the hub therefore still has the descriptor, the number still stands for it, and
`sendmsg` passes the socket that was meant (`Passed`). A forgotten pipe that has
sent its packet needs nothing more: what its host answers is not read.
`HubOwns` and `HostTables` say that the open descriptors of
each process are exactly those of its tables.

Type correctness is proved for every module above; `ExactlyOnceInOrder`,
`RingTiles` and the types need no run. Besides the assumptions on constants in
the modules nothing is assumed.

Every invariant and every action property that a run checks is proved, and both
refinements. Only model-checked is liveness (`BlockedPutReturns`,
`AcceptedIsExecuted`, `DueTimerLeaves`, `ApartFiniStopsWorker`, `Ends`,
`Destroyed`, `HubLetsGo`): fairness and ENABLED are out of the prover's reach.

## Not modelled

* Vendored code: mbedTLS, sqlite, the SGI allocator. They are most of the lines
  of the repository and carry none of its own logic.
* The SSL handshaker and transport (their states follow what mbedTLS reports),
  UDP and multicast transports, RTP sessions, buckets and ports. In `MsgService`
  and `ServiceHub` a session appears as what it promises: packets in order, and
  one `OnCloseSession`.
* `Start` and `Stop` of the reactor pool; the dispatch of the select reactor; the
  handshaker in the mode that sends first; an acceptor without the service
  extension.
* In the messaging system: users that let the server choose their id, messages
  with several addressees, nodes that log in behind a node (the server accepts a
  sub-user of class `SERVER_CID`, `rtp_msg_server.cpp:1153`), `Reconfig`, and the
  content of TLS and password checks. `C2sReport` sends by `m_msgClient`, the code
  by the uplink it was called with (`rtp_msg_c2s.cpp:1104`): a logout that goes out
  between the locked part of `Fini` and the deletion of the uplink is missing, and
  the end of the uplink, which follows, logs the user out just the same.
* A second `Fini` of a reactor: `StopMe` calls it once, and the destructor, which
  calls it again, comes after the workers have left.
* In `TimerFactory` the decrement of a slot outside the array
  (`pro_timer_factory.cpp:342`) changes nothing. Only run `timer_steps` meets such
  an index, and its property is about the index itself.
* Failure of memory allocation; failure of `epoll_ctl` when a registered, open
  socket is removed; the Windows variants.
* Configuration, logging, time, formatting, compression, the thin API layer and
  the test programs.

`PROJECT.json` gives a reason for each part.

## Plan

1. The reactor pool: start, failing start and stop, with the thread that calls
   them, against the reactors' workers.
2. RTP sessions with their handshakes, and the session wrapper with its buckets;
   the select reactor's dispatch.
