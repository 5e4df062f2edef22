---------------------------- MODULE MsgServiceInv ----------------------------
(***************************************************************************)
(* The inductive invariants of the message server and its C2S nodes, which *)
(* MsgServiceProofs proves: each rests on the ones before it.              *)
(***************************************************************************)
EXTENDS MsgService

\* A waiting connection has a number of its own, which no context has.
Waiting(i) == i \in DOMAIN task /\ task[i].cmd = "accept"
Fresh ==
  /\ next \in Nat
  /\ \A s \in DOMAIN m_session2Ctx : s \in Nat /\ s < next
  /\ \A i \in DOMAIN task : Waiting(i) =>
       /\ task[i].conn \in Nat /\ task[i].conn < next
       /\ task[i].conn \notin DOMAIN m_session2Ctx
  /\ \A i, j \in DOMAIN task :
       Waiting(i) /\ Waiting(j) /\ i # j => task[i].conn # task[j].conn

TaskIsSeq == task \in Seq({task[i] : i \in DOMAIN task})

\* S maps connections to contexts, U users to connections.
IsCtx(x) == x = [base |-> x.base, subs |-> x.subs, isC2s |-> x.isC2s]
Agree(S, U) ==
  /\ \A u \in DOMAIN U : U[u] \in DOMAIN S /\ u \in S[U[u]].subs \cup {S[U[u]].base}
  /\ \A s \in DOMAIN S : /\ IsCtx(S[s])
                         /\ \A u \in S[s].subs \cup {S[s].base} : u \in DOMAIN U /\ U[u] = s

IndexInv == TaskIsSeq /\ Fresh /\ Agree(m_session2Ctx, m_user2Ctx)
-----------------------------------------------------------------------------
(***************************************************************************)
(* CMsgServer's record of who is online.  The user whose OnOkUser is still *)
(* to be called is not in the record, and there is room for it.            *)
(***************************************************************************)
OnePending == rsp = {} \/ \E r : rsp = {r}
Room ==
  \A r \in rsp : /\ r.user \notin online
                 /\ Cardinality(Instances(r.user)) < MaxIids
                 /\ alive => r.user \in DOMAIN m_user2Ctx
OnlineInv ==
  IsFiniteSet(online) /\ OnlineAgrees /\ InstancesBounded /\ OnePending /\ Room
-----------------------------------------------------------------------------
(***************************************************************************)
(* The tables of the C2S nodes.                                            *)
(***************************************************************************)

\* F and G are each other's inverse.
Inverses(F, G) ==
  /\ \A u \in DOMAIN G : G[u] \in DOMAIN F /\ F[G[u]] = u
  /\ \A k \in DOMAIN F : F[k] \in DOMAIN G /\ G[F[k]] = k

\* T, F and G are the tables of one node, n the number of the next connection.
NodeInv(T, F, G, n) ==
  /\ \A k \in DOMAIN T \cup DOMAIN F : k \in Nat /\ k < n
  /\ DOMAIN T \cap DOMAIN F = {}
  /\ Inverses(F, G)

TablesOfNodes ==
  DOMAIN m_timerId2Info = C2s /\ DOMAIN m_session2User = C2s /\ DOMAIN m_user2Session = C2s

C2sInv ==
  /\ next \in Nat /\ TablesOfNodes
  /\ \A c \in C2s : NodeInv(m_timerId2Info[c], m_session2User[c], m_user2Session[c], next)
-----------------------------------------------------------------------------
(***************************************************************************)
(* Who owns the socket of a connection.  A connection is owned where it    *)
(* was made to, which visit records, so that server and nodes never own    *)
(* the same; an open socket is owned somewhere.                            *)
(***************************************************************************)
Waiters(q) == {q[i].conn : i \in {j \in DOMAIN q : q[j].cmd = "accept"}}
AtServer   == Waiters(task) \cup DOMAIN m_session2Ctx \cup fini
AtNode(c)  == DOMAIN m_timerId2Info[c] \cup DOMAIN m_session2User[c]

\* Fini moves the contexts to where they wait for FiniSessions.
ServerParts ==
  /\ alive => fini = {}
  /\ ~alive => DOMAIN m_session2Ctx = {}
  /\ fini \cap Waiters(task) = {}

SockInv ==
  /\ next \in Nat \ {0} /\ calls \in Nat /\ DOMAIN visit = Conns /\ DOMAIN sock = Conns
  /\ \A k \in AtServer : k \in Conns /\ k < next /\ visit[k].at = Root
  /\ \A c \in C2s : \A k \in AtNode(c) : k \in Conns /\ k < next /\ visit[k].at = c
  /\ \A k \in Conns : sock[k] = "open" <=> k \in AtServer \/ \E c \in C2s : k \in AtNode(c)
  /\ ServerParts
-----------------------------------------------------------------------------
(***************************************************************************)
(* The packets under way.                                                  *)
(***************************************************************************)
IsSeq(r)   == r \in Seq({r[i] : i \in DOMAIN r})
IsQueue(q) == DOMAIN q = Conns /\ \A k \in Conns : IsSeq(q[k])

LinkShape ==
  /\ IsQueue(up) /\ IsQueue(down) /\ DOMAIN ident = Conns
  /\ DOMAIN m_msgClient = C2s /\ DOMAIN report = C2s
-----------------------------------------------------------------------------
(***************************************************************************)
(* The uplinks: each node has its own, the server knows whose it is if it  *)
(* has accepted it, and a number not used yet stands for nobody.           *)
(***************************************************************************)
IsUplink(c, s) ==
  s \in Conns /\ s < next /\ s \notin left /\ visit[s].at = Root /\ visit[s].user \in {c, None}

UplinkInv ==
  /\ LinkShape
  /\ \A c \in C2s : m_msgClient[c] # 0 => IsUplink(c, m_msgClient[c])
  /\ \A c, d \in C2s : m_msgClient[c] = m_msgClient[d] /\ m_msgClient[c] # 0 => c = d
  /\ \A k \in left : k \in Conns /\ k < next
  /\ \A k \in Conns : k >= next => visit[k].user = None /\ visit[k].at = Root
-----------------------------------------------------------------------------
(***************************************************************************)
(* Who is who.  A context, a waiting connection, one that Fini has still   *)
(* to delete or to answer, and a connection of a node stand for somebody   *)
(* who made the connection.  A connection nobody has made, or that was     *)
(* refused, is silent.  Only the uplink of a node carries more than data.  *)
(* A node that has clients, or a logout to report, has an uplink that has  *)
(* been told a number; its own, if one of them is logged in.               *)
(***************************************************************************)
CtxFits ==
  \A s \in DOMAIN m_session2Ctx :
    LET x == m_session2Ctx[s] IN
    /\ x.base = visit[s].user /\ x.base \in Ids /\ x.base \notin x.subs
    /\ x.isC2s = (x.base \in C2s)
WaitersFit ==
  \A i \in DOMAIN task : Waiting(i) =>
    /\ visit[task[i].conn].user = task[i].user /\ task[i].user \in Ids
    /\ down[task[i].conn] = <<>>
HeldFits ==
  /\ \A k \in fini : visit[k].user \in Ids
  /\ \A r \in rsp : r.conn \in DOMAIN m_session2Ctx \cup fini
NodeFits ==
  \A c \in C2s : \A k \in AtNode(c) : visit[k].user \in Users
Silent ==
  \A t \in Conns : visit[t].user = None => up[t] = <<>> /\ down[t] = <<>> /\ ident[t] = None
NodesSpeak ==
  \A t \in Conns : \A i \in DOMAIN up[t] :
    up[t][i].type \in {"data", "login", "logout"}
      /\ (up[t][i].type # "data" => visit[t].user \in C2s)
Linked ==
  \A c \in C2s :
    /\ AtNode(c) # {} => m_msgClient[c] # 0
    /\ report[c] # {} /\ m_msgClient[c] = 0 => c \notin serving
    /\ (AtNode(c) # {} \/ report[c] # {}) /\ m_msgClient[c] # 0 => ident[m_msgClient[c]] # None
    /\ \A u, v \in report[c] : u = v
    /\ DOMAIN m_session2User[c] # {} => Named(c)

PlaceInv ==
  /\ CtxFits /\ WaitersFit /\ HeldFits /\ NodeFits /\ Silent /\ NodesSpeak /\ Linked
-----------------------------------------------------------------------------
(***************************************************************************)
(* Who is meant.  A login under way, in any of its forms, is for a         *)
(* connection that its user has made at the node that sent it; so is an    *)
(* entry in a table of a node.                                             *)
(***************************************************************************)
Own(k, u, c) == k \in Conns /\ visit[k].user = u /\ visit[k].at = c /\ u \in Users /\ c \in C2s

SubsFit == \A s \in DOMAIN m_session2Ctx : m_session2Ctx[s].subs \subseteq Users
UpOwn ==
  \A t \in Conns : \A i \in DOMAIN up[t] :
    up[t][i].type = "login" => Own(up[t][i].index, up[t][i].user, visit[t].user)
TaskOwn ==
  \A i \in DOMAIN task : task[i].cmd = "recv" =>
    /\ task[i].c2s \in C2s
    /\ task[i].msg.type = "login" => Own(task[i].msg.index, task[i].msg.user, task[i].c2s)
IsResponse(r) == r.msg = Response(r.user) /\ r.user \in Ids
IsAnswer(r)   == /\ r.msg = LoginOk(r.msg.index, r.user)
                 /\ Own(r.msg.index, r.user, visit[r.conn].user)
RspOwn ==
  \A r \in rsp :
    /\ IsResponse(r) \/ IsAnswer(r)
    /\ alive /\ IsAnswer(r) => r.user \in m_session2Ctx[r.conn].subs
DownOwn ==
  \A t \in Conns : \A i \in DOMAIN down[t] :
    down[t][i].type = "login_ok" => Own(down[t][i].index, down[t][i].user, visit[t].user)
TablesOwn ==
  \A c \in C2s :
    /\ \A k \in DOMAIN m_timerId2Info[c] : Own(k, m_timerId2Info[c][k], c)
    /\ \A k \in DOMAIN m_session2User[c] : Own(k, m_session2User[c][k], c)

OwnInv == SubsFit /\ UpOwn /\ TaskOwn /\ RspOwn /\ DownOwn /\ TablesOwn
-----------------------------------------------------------------------------
(***************************************************************************)
(* The uplink s of node c, as long as the server has a context for it and  *)
(* nothing sent on it was refused.  Its first packet has a source, and is  *)
(* no login_ok.  For every user that the server believes to be behind c:   *)
(* a kickout on its way is followed by a login_ok, and the node knows the  *)
(* user, will hear of it, or has reported it gone.                         *)
(***************************************************************************)
Sees(c, s) == s = m_msgClient[c] /\ s \in DOMAIN m_session2Ctx /\ s \notin lost
IsOk(m, u)   == m.type = "login_ok" /\ m.user = u
IsKick(m, u) == m.type = "kickout" /\ m.user = u
Due(s, u) == \E r \in rsp : r.conn = s /\ IsOk(r.msg, u)

Welcome(s) ==
  IF down[s] = <<>> THEN \E r \in rsp : r.conn = s /\ IsResponse(r)
                    ELSE down[s][1].type \in {"data", "response"} /\ down[s][1].src # None
Renewed(s, u) ==
  \A i \in DOMAIN down[s] : IsKick(down[s][i], u) =>
    Due(s, u) \/ \E j \in DOMAIN down[s] : j > i /\ IsOk(down[s][j], u)
OkComing(s, u) == Due(s, u) \/ \E i \in DOMAIN down[s] : IsOk(down[s][i], u)
Accounted(c, s, u) ==
  u \in DOMAIN m_user2Session[c] \/ OkComing(s, u) \/ LogoutComing(c, s, u)

GhostInv ==
  \A c \in C2s : \A s \in Conns : Sees(c, s) =>
    /\ ident[s] = None => Welcome(s)
    /\ \A u \in m_session2Ctx[s].subs :
         Renewed(s, u) /\ (ident[s] \in {c, None} => Accounted(c, s, u))
-----------------------------------------------------------------------------
(***************************************************************************)
(* A login is in one place.  The login for connection k of a node is on    *)
(* its way up, then a command, then an answer to be given, then on its way *)
(* down, then a session; it is never in two of these places, nor twice in  *)
(* one.                                                                    *)
(***************************************************************************)
IsLogin(m, k) == m.type = "login" /\ m.index = k
IsDone(m, k)  == m.type = "login_ok" /\ m.index = k
At(k, g, x, i) ==
  \/ g = "up" /\ x \in Conns /\ i \in DOMAIN up[x] /\ IsLogin(up[x][i], k)
  \/ g = "task" /\ x = 0 /\ i \in DOMAIN task /\ task[i].cmd = "recv" /\ IsLogin(task[i].msg, k)
  \/ g = "rsp" /\ x = 0 /\ i = 0 /\ \E r \in rsp : IsDone(r.msg, k)
  \/ g = "down" /\ x \in Conns /\ i \in DOMAIN down[x] /\ IsDone(down[x][i], k)
  \/ g = "session" /\ x \in C2s /\ i = 0 /\ k \in DOMAIN m_session2User[x]
OnceInv ==
  \A k, g, x, i, h, y, j : At(k, g, x, i) /\ At(k, h, y, j) => g = h /\ x = y /\ i = j
-----------------------------------------------------------------------------
(***************************************************************************)
(* Who is reported gone is gone: a user whose logout a node reports, or    *)
(* has reported, has made a connection to that node which the node has no  *)
(* longer.                                                                 *)
(***************************************************************************)
HasLeft(u, c) == \E j : Own(j, u, c) /\ j \notin AtNode(c)
ReportLeft(c) == \A u \in report[c] : HasLeft(u, c)
UpLeft(t, i)  == up[t][i].type = "logout" => HasLeft(up[t][i].user, visit[t].user)
TaskLeft(i)   ==
  task[i].cmd = "recv" /\ task[i].msg.type = "logout" => HasLeft(task[i].msg.user, task[i].c2s)

LogoutInv ==
  /\ \A c \in C2s : ReportLeft(c)
  /\ \A t \in Conns : \A i \in DOMAIN up[t] : UpLeft(t, i)
  /\ \A i \in DOMAIN task : TaskLeft(i)
-----------------------------------------------------------------------------
(***************************************************************************)
(* A connection that waits to be accepted has told nobody who it is; a     *)
(* visit is who and where, nothing more.                                   *)
(***************************************************************************)
VisitsFit == \A k \in Conns : visit[k] = [user |-> visit[k].user, at |-> visit[k].at]
MuteInv ==
  /\ VisitsFit
  /\ \A i \in DOMAIN task : Waiting(i) => ident[task[i].conn] = None
-----------------------------------------------------------------------------
(***************************************************************************)
(* The converse of GhostInv.  A lone connection of a node is the only one  *)
(* its user has made there.  The user of one that is logged in, or whose   *)
(* login_ok is on its way, is known to the server as behind the node, or   *)
(* the kickout that tells the node otherwise is on its way, behind.        *)
(***************************************************************************)
Lone(k) == \A j \in Conns \ {k} : visit[j] # visit[k]
Kicked(s, u, i) == \E j \in DOMAIN down[s] : j > i /\ IsKick(down[s][j], u)
Vouched(s, u, i) == u \in m_session2Ctx[s].subs \/ Kicked(s, u, i)
KnownAt(c, s, k) ==
  /\ k \in DOMAIN m_session2User[c] => Vouched(s, visit[k].user, 0)
  /\ \A i \in DOMAIN down[s] : IsDone(down[s][i], k) => Vouched(s, visit[k].user, i)
KnownInv ==
  \A c \in C2s : \A s \in Conns : Sees(c, s) =>
    \A k \in AtNode(c) : Lone(k) => KnownAt(c, s, k)
-----------------------------------------------------------------------------
(***************************************************************************)
(* Types.  TypeInv is the part of TypeOK that the other invariants do not  *)
(* imply: what a packet, a command, a response can be.                     *)
(***************************************************************************)
Rsps == [conn : Conns, msg : DownMsgs, user : Ids]
LinkInv ==
  /\ next + calls <= MaxInputs + 1
  /\ visit \in [Conns -> [user : Ids \cup {None}, at : Server]]
  /\ sock \in [Conns -> {"free", "open", "closed"}]
  /\ ident \in [Conns -> Ids \cup {Root, None}]
PacketInv ==
  up \in [Conns -> Seq(UpMsgs)] /\ down \in [Conns -> Seq(DownMsgs)] /\ lost \subseteq Conns
CommandInv ==
  alive \in BOOLEAN /\ task \in Seq(Commands) /\ rsp \subseteq Rsps /\ online \subseteq Ids
NodesInv ==
  /\ serving \subseteq C2s
  /\ m_msgClient \in [C2s -> 0..MaxInputs] /\ report \in [C2s -> SUBSET Users]
TypeInv == LinkInv /\ PacketInv /\ CommandInv /\ NodesInv
=============================================================================
